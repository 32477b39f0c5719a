-------------------------- MODULE SourceStoreProofs --------------------------
(***************************************************************************)
(* Theorems of the PostgreSQL source library, for any sources, texts,      *)
(* licences and bound on versions, and any number of concurrent imports    *)
(* and reviews; what it adds when reviews run one at a time; and theorems  *)
(* of the in-memory library.                                               *)
(***************************************************************************)
EXTENDS SourceStore, MemoryLibrary, WellFoundedInduction, TLAPS

-----------------------------------------------------------------------------
(* The inductive invariant                                                 *)

\* Rows are numbered in the order they are created.
RowsCreated ==
  \A v \in Stored(rows) : v <= created /\ rows[v].source \in known

\* A flushed import owns the number it took and the unique index entry of
\* its digest.
FlushedImports ==
  \A p \in Importer : imp[p].stage = "flushed" =>
    /\ imp[p].version \in Version
    /\ imp[p].version <= created
    /\ imp[p].version \notin Stored(rows)
    /\ Carrying(rows, imp[p].source, imp[p].digest) = {}

FlushedApart ==
  \A p, q \in Importer :
    imp[p].stage = "flushed" /\ imp[q].stage = "flushed" /\ p # q =>
      /\ imp[p].version # imp[q].version
      /\ ~(imp[p].source = imp[q].source /\ imp[p].digest = imp[q].digest)

\* A review works on stored versions of one source.
OpenReviews ==
  \A p \in Reviewer : rev[p].stage # "idle" =>
    /\ rev[p].version \in Stored(rows)
    /\ rev[p].older \subseteq OfSource(rows, rows[rev[p].version].source)
                                \ {rev[p].version}
    /\ rev[p].older # {} => rev[p].status = "approved"

Reviewed ==
  /\ approvals \subseteq Stored(rows)
  /\ \A v \in Version : audit[v] # NoAudit => v \in Stored(rows)

IInv ==
  /\ TypeOK
  /\ RowsCreated
  /\ FlushedImports
  /\ FlushedApart
  /\ OpenReviews
  /\ Reviewed
  /\ SupersessionSound
  /\ NoDuplicateContent

-----------------------------------------------------------------------------
LEMMA UnstoredIsNoRow == Unstored \notin Row
  BY SourceAssumption DEF Unstored, Row

LEMMA InitInv == Init => IInv
  BY VersionsAssumption
  DEF Init, IInv, TypeOK, RowsCreated, FlushedImports, FlushedApart, OpenReviews,
      Reviewed, SupersessionSound, NoDuplicateContent, Stored, Superseded, NoImport,
      NoReview, NoAudit, Version

\* What a stored row looks like.
LEMMA StoredRow ==
  ASSUME TypeOK, NEW v \in Stored(rows)
  PROVE  v \in Version /\ rows[v] \in Row
  BY DEF TypeOK, Stored

-----------------------------------------------------------------------------
(* The actions of an importer                                              *)

\* Nothing but imports differ between the states of ImportRead, ImportFlush,
\* ImportConflict and ImportAbort.
LEMMA ImportReadInv ==
  ASSUME IInv, NEW p \in Importer, NEW s \in Source, NEW d \in Digest, NEW l \in Licence,
         ImportRead(p, s, d, l)
  PROVE  IInv'
<1> USE DEF IInv, ImportRead
<1>1. TypeOK'
  BY DEF TypeOK, ImportTxn
<1>2. /\ RowsCreated' /\ Reviewed' /\ SupersessionSound' /\ NoDuplicateContent'
  BY DEF RowsCreated, Reviewed, SupersessionSound, NoDuplicateContent, Stored,
         Superseded, OfSource
<1>3. FlushedImports' /\ FlushedApart'
  BY DEF TypeOK, FlushedImports, FlushedApart, Stored, Carrying, OfSource
<1>4. OpenReviews'
  BY DEF OpenReviews, Stored, OfSource
<1> QED
  BY <1>1, <1>2, <1>3, <1>4

LEMMA ImportEndInv ==
  ASSUME IInv, NEW p \in Importer,
         imp' = [imp EXCEPT ![p] = NoImport],
         UNCHANGED <<rows, known, created, rev, audit, approvals>>
  PROVE  IInv'
<1> USE DEF IInv
<1>1. TypeOK'
  BY DEF TypeOK
<1>2. /\ RowsCreated' /\ Reviewed' /\ SupersessionSound' /\ NoDuplicateContent'
  BY DEF RowsCreated, Reviewed, SupersessionSound, NoDuplicateContent, Stored,
         Superseded, OfSource
<1>3. FlushedImports' /\ FlushedApart'
  BY DEF TypeOK, FlushedImports, FlushedApart, Stored, Carrying, OfSource, NoImport
<1>4. OpenReviews'
  BY DEF OpenReviews, Stored, OfSource
<1> QED
  BY <1>1, <1>2, <1>3, <1>4

LEMMA ImportFlushInv ==
  ASSUME IInv, NEW p \in Importer, ImportFlush(p)
  PROVE  IInv'
<1> USE DEF IInv, ImportFlush
<1>0. created' \in Version /\ created' = created + 1 /\ created' \notin Stored(rows)
  BY VersionsAssumption DEF TypeOK, Version, RowsCreated, Stored
<1>1. imp[p] \in ImportTxn
  BY DEF TypeOK, NoImport
<1>2. imp' = [imp EXCEPT ![p] = Flushed(imp[p], created')]
  BY DEF TypeOK
<1>3. TypeOK'
  BY <1>0, <1>1, <1>2 DEF TypeOK, ImportTxn, Version, Flushed
<1>4. /\ RowsCreated' /\ Reviewed' /\ SupersessionSound' /\ NoDuplicateContent'
  BY <1>0 DEF TypeOK, RowsCreated, Reviewed, SupersessionSound, NoDuplicateContent, Stored,
         Superseded, OfSource, Version
<1>5. FlushedImports'
  <2> SUFFICES ASSUME NEW q \in Importer, imp'[q].stage = "flushed"
               PROVE  /\ imp'[q].version \in Version
                      /\ imp'[q].version <= created'
                      /\ imp'[q].version \notin Stored(rows)
                      /\ Carrying(rows, imp'[q].source, imp'[q].digest) = {}
    BY DEF FlushedImports, Stored, Carrying, OfSource
  <2>1. CASE q = p
    BY <1>0, <1>1, <1>2, <2>1 DEF TypeOK, UniqueConflict, ImportTxn, Flushed
  <2>2. CASE q # p
    <3>1. imp'[q] = imp[q]
      BY <1>2, <2>2 DEF TypeOK
    <3>2. /\ imp[q].version \in Version /\ imp[q].version <= created
          /\ imp[q].version \notin Stored(rows)
          /\ Carrying(rows, imp[q].source, imp[q].digest) = {}
      BY <3>1 DEF FlushedImports
    <3>3. imp[q].version <= created'
      BY VersionsAssumption, <1>0, <3>2 DEF TypeOK, Version
    <3> QED
      BY <3>1, <3>2, <3>3
  <2> QED
    BY <2>1, <2>2
<1>6. FlushedApart'
  <2>1. \A q \in Importer : q # p => imp'[q] = imp[q]
    BY <1>2 DEF TypeOK
  <2>2. /\ imp'[p].version = created + 1 /\ imp'[p].source = imp[p].source
        /\ imp'[p].digest = imp[p].digest
    BY <1>0, <1>1, <1>2 DEF TypeOK, Flushed
  <2>3. \A q \in Importer : q # p /\ imp[q].stage = "flushed" =>
          /\ imp[q].version # created + 1
          /\ ~(imp[q].source = imp[p].source /\ imp[q].digest = imp[p].digest)
    BY DEF FlushedImports, HeldByAnother, TypeOK, Version
  <2> QED
    BY <2>1, <2>2, <2>3 DEF FlushedApart
<1>7. OpenReviews'
  BY DEF OpenReviews, Stored, OfSource
<1> QED
  BY <1>3, <1>4, <1>5, <1>6, <1>7

LEMMA ImportCommitInv ==
  ASSUME IInv, NEW p \in Importer, ImportCommit(p)
  PROVE  IInv'
<1> DEFINE n == imp[p].version
           new == PendingRow(imp[p].source, imp[p].digest, imp[p].licence)
<1> USE DEF IInv
<1>1. /\ imp[p] \in ImportTxn /\ n \in Version /\ n <= created
      /\ n \notin Stored(rows) /\ Carrying(rows, imp[p].source, imp[p].digest) = {}
  BY DEF TypeOK, ImportCommit, NoImport, FlushedImports
<1>2. /\ new \in Row /\ new # Unstored /\ new.superseded = NoVersion
      /\ new.source = imp[p].source /\ new.digest = imp[p].digest
  BY <1>1, UnstoredIsNoRow DEF ImportTxn, PendingRow, Row, Status
<1>3. /\ rows' = [rows EXCEPT ![n] = new]
      /\ known' = known \cup {imp[p].source}
      /\ imp' = [imp EXCEPT ![p] = NoImport]
      /\ UNCHANGED <<created, rev, audit, approvals>>
  BY DEF ImportCommit
<1> HIDE DEF new, n
<1>4. TypeOK'
  BY <1>1, <1>2, <1>3 DEF TypeOK, ImportTxn
<1>5. /\ Stored(rows') = Stored(rows) \cup {n}
      /\ rows'[n] = new
      /\ \A v \in Stored(rows) : v # n /\ rows'[v] = rows[v]
      /\ \A s : OfSource(rows', s) = OfSource(rows, s) \cup
                                       (IF s = imp[p].source THEN {n} ELSE {})
  BY <1>1, <1>2, <1>3 DEF TypeOK, Stored, OfSource
<1>6. RowsCreated'
  BY <1>1, <1>2, <1>3, <1>5 DEF RowsCreated
<1>7. FlushedApart'
  BY <1>3 DEF FlushedApart, TypeOK, NoImport
<1>8. FlushedImports'
  <2> SUFFICES ASSUME NEW q \in Importer, imp'[q].stage = "flushed"
               PROVE  /\ imp'[q].version \in Version
                      /\ imp'[q].version <= created'
                      /\ imp'[q].version \notin Stored(rows')
                      /\ Carrying(rows', imp'[q].source, imp'[q].digest) = {}
    BY DEF FlushedImports
  <2>1. q # p /\ imp'[q] = imp[q]
    BY <1>3 DEF TypeOK, NoImport
  <2>2. imp[q].version # n /\ ~(imp[q].source = imp[p].source /\ imp[q].digest = imp[p].digest)
    BY <2>1 DEF FlushedApart, ImportCommit, n
  <2>3. /\ imp[q].version \in Version /\ imp[q].version <= created
        /\ imp[q].version \notin Stored(rows)
        /\ Carrying(rows, imp[q].source, imp[q].digest) = {}
    BY <2>1 DEF FlushedImports
  <2>4. Carrying(rows', imp[q].source, imp[q].digest) = {}
    BY <1>2, <1>5, <2>2, <2>3 DEF Carrying, OfSource
  <2> QED
    BY <1>3, <1>5, <2>1, <2>2, <2>3, <2>4
<1>9. OpenReviews'
  <2> SUFFICES ASSUME NEW q \in Reviewer, rev[q].stage # "idle"
               PROVE  /\ rev[q].version \in Stored(rows')
                      /\ rev[q].older \subseteq
                           OfSource(rows', rows'[rev[q].version].source) \ {rev[q].version}
                      /\ rev[q].older # {} => rev[q].status = "approved"
    BY <1>3 DEF OpenReviews
  <2>1. /\ rev[q].version \in Stored(rows)
        /\ rev[q].older \subseteq
             OfSource(rows, rows[rev[q].version].source) \ {rev[q].version}
        /\ rev[q].older # {} => rev[q].status = "approved"
    BY DEF OpenReviews
  <2> QED
    BY <1>5, <2>1
<1>10. Reviewed'
  BY <1>3, <1>5 DEF Reviewed
<1>11. SupersessionSound'
  <2>1. Superseded(rows') = Superseded(rows)
    BY <1>2, <1>5 DEF Superseded
  <2>2. \A v \in Superseded(rows) :
          /\ rows'[v] = rows[v]
          /\ OfSource(rows, rows[v].source) \subseteq OfSource(rows', rows[v].source)
    BY <1>5 DEF Superseded
  <2> SUFFICES ASSUME NEW v \in Superseded(rows')
               PROVE  /\ rows'[v].superseded \in OfSource(rows', rows'[v].source) \ {v}
                      /\ rows'[v].superseded \in approvals'
    BY DEF SupersessionSound
  <2>3. /\ rows[v].superseded \in OfSource(rows, rows[v].source) \ {v}
        /\ rows[v].superseded \in approvals
    BY <2>1 DEF SupersessionSound
  <2>4. /\ rows'[v] = rows[v]
        /\ OfSource(rows, rows[v].source) \subseteq OfSource(rows', rows[v].source)
    BY <2>1, <2>2
  <2>5. approvals' = approvals
    BY <1>3
  <2> QED
    BY <2>3, <2>4, <2>5
<1>12. NoDuplicateContent'
  BY <1>1, <1>2, <1>5 DEF NoDuplicateContent, Carrying, OfSource
<1> QED
  BY <1>4, <1>6, <1>7, <1>8, <1>9, <1>10, <1>11, <1>12

-----------------------------------------------------------------------------
(* The actions of a reviewer                                               *)

LEMMA ReviewLoadInv ==
  ASSUME IInv, NEW p \in Reviewer, NEW v \in Version, NEW st \in Decision,
         NEW l \in Licence \cup {Keep}, ReviewLoad(p, v, st, l)
  PROVE  IInv'
<1> USE DEF IInv, ReviewLoad
<1>1. TypeOK'
  BY StoredRow DEF TypeOK, ReviewTxn, Row
<1>2. /\ RowsCreated' /\ Reviewed' /\ SupersessionSound' /\ NoDuplicateContent'
  BY DEF RowsCreated, Reviewed, SupersessionSound, NoDuplicateContent, Stored,
         Superseded, OfSource
<1>3. FlushedImports' /\ FlushedApart'
  BY DEF FlushedImports, FlushedApart, Stored, Carrying, OfSource
<1>4. OpenReviews'
  BY DEF TypeOK, OpenReviews, Stored, OfSource
<1> QED
  BY <1>1, <1>2, <1>3, <1>4

LEMMA ReviewAbortInv ==
  ASSUME IInv, NEW p \in Reviewer, ReviewAbort(p)
  PROVE  IInv'
<1> USE DEF IInv, ReviewAbort
<1>1. TypeOK'
  BY DEF TypeOK
<1>2. /\ RowsCreated' /\ Reviewed' /\ SupersessionSound' /\ NoDuplicateContent'
  BY DEF RowsCreated, Reviewed, SupersessionSound, NoDuplicateContent, Stored,
         Superseded, OfSource
<1>3. FlushedImports' /\ FlushedApart'
  BY DEF FlushedImports, FlushedApart, Stored, Carrying, OfSource
<1>4. OpenReviews'
  BY DEF TypeOK, OpenReviews, Stored, OfSource, NoReview
<1> QED
  BY <1>1, <1>2, <1>3, <1>4

LEMMA ReviewSelectInv ==
  ASSUME IInv, NEW p \in Reviewer, ReviewSelect(p)
  PROVE  IInv'
<1> USE DEF IInv, ReviewSelect
<1>0. rev[p] \in ReviewTxn
  BY DEF TypeOK, NoReview
<1>1. TypeOK'
  BY <1>0 DEF TypeOK, ReviewTxn, Selected, UnsupersededSiblings, OfSource, Stored
<1>2. /\ RowsCreated' /\ Reviewed' /\ SupersessionSound' /\ NoDuplicateContent'
  BY DEF RowsCreated, Reviewed, SupersessionSound, NoDuplicateContent, Stored,
         Superseded, OfSource
<1>3. FlushedImports' /\ FlushedApart'
  BY DEF FlushedImports, FlushedApart, Stored, Carrying, OfSource
<1>4. OpenReviews'
  BY DEF TypeOK, OpenReviews, Stored, OfSource, Selected, UnsupersededSiblings
<1> QED
  BY <1>1, <1>2, <1>3, <1>4

\* What a commit writes: only the reviewed version changes status and
\* licence, and only the selected versions become superseded, by it.
LEMMA ReviewCommitRows ==
  ASSUME IInv, NEW p \in Reviewer, ReviewCommit(p)
  PROVE  /\ rev[p] \in ReviewTxn
         /\ rows' \in [Version -> Row \cup {Unstored}]
         /\ Stored(rows') = Stored(rows)
         /\ \A v \in Version : /\ rows'[v].source = rows[v].source
                              /\ rows'[v].digest = rows[v].digest
         /\ \A v \in Version \ {rev[p].version} :
              /\ rows'[v].licence = rows[v].licence
              /\ rows'[v].status = rows[v].status
         /\ \A v \in Version :
              rows'[v].superseded = IF v \in rev[p].older THEN rev[p].version
                                                         ELSE rows[v].superseded
<1> DEFINE r == rev[p]
<1>1. /\ r \in ReviewTxn /\ r.version \in Stored(rows)
      /\ r.older \subseteq Stored(rows)
  BY DEF IInv, TypeOK, OpenReviews, ReviewCommit, NoReview, OfSource
<1>2. \A v \in Version : rows'[v] = ReviewedRow(r, v)
  BY DEF ReviewCommit
<1> HIDE DEF r
<1>3. ASSUME NEW v \in Version PROVE rows'[v] \in Row \cup {Unstored}
  <2>1. CASE v \in Stored(rows)
    <3>1. rows[v] \in Row
      BY <2>1, StoredRow DEF IInv
    <3>2. Decision \subseteq Status
      BY DecisionAssumption
    <3>3. AssignedLicence(r) \in Licence /\ r.seen.licence \in Licence
      BY <1>1 DEF AssignedLicence, ReviewTxn
    <3>4. /\ r.version \in Version /\ r.status \in Status
          /\ r.seen.status \in Status
      BY <1>1, <3>2 DEF ReviewTxn
    <3>5. LicenceAfter(r, v) \in Licence /\ StatusAfter(r, v) \in Status
      BY <3>1, <3>3, <3>4 DEF LicenceAfter, StatusAfter, Written, Row
    <3>6. SupersededAfter(r, v) \in Version \cup {NoVersion}
      BY <3>1, <3>4 DEF SupersededAfter, Row
    <3>7. rows[v].source \in Source /\ rows[v].digest \in Digest
      BY <3>1 DEF Row
    <3>8. ReviewedRow(r, v) \in Row
      BY <3>5, <3>6, <3>7 DEF ReviewedRow, Row
    <3> QED
      BY <1>2, <3>8
  <2>2. CASE v \notin Stored(rows)
    BY <1>1, <1>2, <2>2 DEF ReviewedRow, LicenceAfter, StatusAfter, SupersededAfter,
                            Stored, Unstored
  <2> QED
    BY <2>1, <2>2
<1>4. rows' \in [Version -> Row \cup {Unstored}]
  BY <1>3 DEF ReviewCommit
<1>5. ASSUME NEW v \in Version
      PROVE  /\ rows'[v].source = rows[v].source
             /\ rows'[v].digest = rows[v].digest
             /\ rows'[v].licence = LicenceAfter(r, v)
             /\ rows'[v].status = StatusAfter(r, v)
             /\ rows'[v].superseded = SupersededAfter(r, v)
  <2>1. rows'[v] = ReviewedRow(r, v)
    BY <1>2
  <2> QED
    BY <2>1 DEF ReviewedRow
<1>6. Stored(rows') = Stored(rows)
  <2>1. \A v \in Stored(rows) : rows'[v].source \in Source
    BY <1>5, StoredRow DEF IInv, Row, Stored
  <2>2. \A v \in Version \ Stored(rows) : rows'[v] = Unstored
    BY <1>1, <1>2 DEF ReviewedRow, LicenceAfter, StatusAfter, SupersededAfter,
                      Stored, Unstored
  <2> QED
    BY <2>1, <2>2, SourceAssumption DEF Stored, Unstored
<1>7. \A v \in Version : rows'[v].superseded = IF v \in r.older THEN r.version
                                                           ELSE rows[v].superseded
  BY <1>5 DEF SupersededAfter
<1>8. \A v \in Version \ {r.version} : /\ rows'[v].licence = rows[v].licence
                                      /\ rows'[v].status = rows[v].status
  BY <1>5 DEF LicenceAfter, StatusAfter
<1> QED
  BY <1>1, <1>4, <1>5, <1>6, <1>7, <1>8 DEF r

LEMMA ReviewCommitInv ==
  ASSUME IInv, NEW p \in Reviewer, ReviewCommit(p)
  PROVE  IInv'
<1> DEFINE r == rev[p]
<1>1. /\ r \in ReviewTxn /\ r.version \in Stored(rows)
      /\ r.older \subseteq OfSource(rows, rows[r.version].source) \ {r.version}
      /\ r.older # {} => r.status = "approved"
  BY DEF IInv, TypeOK, OpenReviews, ReviewCommit, NoReview
<1>2. /\ rows' \in [Version -> Row \cup {Unstored}]
      /\ Stored(rows') = Stored(rows)
      /\ \A v \in Version : /\ rows'[v].source = rows[v].source
                           /\ rows'[v].digest = rows[v].digest
      /\ \A v \in Version : rows'[v].superseded = IF v \in r.older THEN r.version
                                                             ELSE rows[v].superseded
  BY ReviewCommitRows
<1>3. /\ audit' = [audit EXCEPT ![r.version] =
                     [status |-> r.status, licence |-> AssignedLicence(r)]]
      /\ approvals' = IF r.status = "approved" THEN approvals \cup {r.version}
                                              ELSE approvals
      /\ rev' = [rev EXCEPT ![p] = NoReview]
      /\ UNCHANGED <<known, created, imp>>
  BY DEF ReviewCommit
<1> HIDE DEF r
<1>4. \A s : OfSource(rows', s) = OfSource(rows, s)
  BY <1>2 DEF OfSource, Stored
<1>5. TypeOK'
  BY <1>1, <1>2, <1>3 DEF IInv, TypeOK, ReviewTxn, AssignedLicence, AuditRecord, Stored
<1>6. RowsCreated' /\ Reviewed'
  BY <1>1, <1>2, <1>3 DEF IInv, TypeOK, RowsCreated, Reviewed, Stored
<1>7. FlushedImports' /\ FlushedApart'
  BY <1>2, <1>3, <1>4 DEF IInv, FlushedImports, FlushedApart, Carrying, OfSource, Stored
<1>8. OpenReviews'
  <2> SUFFICES ASSUME NEW q \in Reviewer, rev'[q].stage # "idle"
               PROVE  /\ rev'[q].version \in Stored(rows')
                      /\ rev'[q].older \subseteq
                           OfSource(rows', rows'[rev'[q].version].source) \ {rev'[q].version}
                      /\ rev'[q].older # {} => rev'[q].status = "approved"
    BY DEF OpenReviews
  <2>1. rev'[q] = rev[q]
    BY <1>3 DEF IInv, TypeOK, NoReview
  <2>2. /\ rev[q].version \in Stored(rows)
        /\ rev[q].older \subseteq
             OfSource(rows, rows[rev[q].version].source) \ {rev[q].version}
        /\ rev[q].older # {} => rev[q].status = "approved"
    BY <2>1 DEF IInv, OpenReviews
  <2> QED
    BY <1>2, <1>4, <2>1, <2>2 DEF Stored
<1>9. SupersessionSound'
  <2> SUFFICES ASSUME NEW v \in Superseded(rows')
               PROVE  /\ rows'[v].superseded \in OfSource(rows', rows'[v].source) \ {v}
                      /\ rows'[v].superseded \in approvals'
    BY DEF SupersessionSound
  <2>1. v \in Stored(rows) /\ v \in Version
    BY <1>2 DEF Superseded, Stored
  <2>2. CASE v \in r.older
    BY <1>1, <1>2, <1>3, <1>4, <2>1, <2>2 DEF OfSource, Stored
  <2>3. CASE v \notin r.older
    BY <1>2, <1>3, <1>4, <2>1, <2>3 DEF IInv, SupersessionSound, Superseded
  <2> QED
    BY <2>2, <2>3
<1>10. NoDuplicateContent'
  BY <1>2 DEF IInv, NoDuplicateContent, Stored
<1> QED
  BY <1>5, <1>6, <1>7, <1>8, <1>9, <1>10 DEF IInv

-----------------------------------------------------------------------------
LEMMA NextInv == IInv /\ [Next]_vars => IInv'
<1> SUFFICES ASSUME IInv, [Next]_vars PROVE IInv'
  OBVIOUS
<1>1. CASE UNCHANGED vars
  BY <1>1 DEF vars, IInv, TypeOK, RowsCreated, FlushedImports, FlushedApart, OpenReviews,
              Reviewed, SupersessionSound, NoDuplicateContent, Stored, Superseded,
              OfSource, Carrying
<1>2. ASSUME NEW p \in Importer, Import(p) PROVE IInv'
  <2>1. ASSUME NEW s \in Source, NEW t \in Text, NEW l \in Licence, NEW m \in BOOLEAN,
               ImportRead(p, s, PayloadDigest(t, l, m), l)
        PROVE  IInv'
    <3>1. PayloadDigest(t, l, m) \in Digest
      BY DEF PayloadDigest, Digest
    <3> QED
      BY <2>1, <3>1, ImportReadInv
  <2>2. CASE ImportFlush(p)
    BY <2>2, ImportFlushInv
  <2>3. CASE ImportConflict(p)
    BY <2>3, ImportEndInv DEF ImportConflict
  <2>4. CASE ImportCommit(p)
    BY <2>4, ImportCommitInv
  <2>5. CASE ImportAbort(p)
    BY <2>5, ImportEndInv DEF ImportAbort
  <2> QED
    BY <1>2, <2>1, <2>2, <2>3, <2>4, <2>5 DEF Import
<1>3. ASSUME NEW p \in Reviewer, Review(p) PROVE IInv'
  BY <1>3, ReviewLoadInv, ReviewSelectInv, ReviewCommitInv, ReviewAbortInv DEF Review
<1> QED
  BY <1>1, <1>2, <1>3 DEF Next

LEMMA Invariance == Spec => []IInv
  BY InitInv, NextInv, PTL DEF Spec

\* Every variable of the source library keeps its type, whatever its requests
\* interleave.
THEOREM Typing == Spec => []TypeOK
<1>1. IInv => TypeOK
  BY DEF IInv
<1> QED
  BY <1>1, Invariance, PTL

\* No source ever has two versions with the same text: uq_source_versions
\* and the IntegrityError path of import_source keep concurrent imports of
\* one text apart, for any number of importers.
THEOREM ContentUnique == Spec => []NoDuplicateContent
<1>1. IInv => NoDuplicateContent
  BY DEF IInv
<1> QED
  BY <1>1, Invariance, PTL

\* superseded_by_version_id always names another stored, once approved version
\* of the same source, for any interleaving of imports and reviews.
THEOREM SupersessionIsSound == Spec => []SupersessionSound
<1>1. IInv => SupersessionSound
  BY DEF IInv
<1> QED
  BY <1>1, Invariance, PTL

-----------------------------------------------------------------------------
(* A superseded version stays superseded                                   *)

LEMMA SupersededForGood ==
  ASSUME IInv, [Next]_vars, NEW v \in Superseded(rows)
  PROVE  v \in Superseded(rows')
<1> USE DEF IInv
<1>0. v \in Stored(rows) /\ rows[v].superseded # NoVersion
  BY DEF Superseded
<1>1. CASE rows' = rows
  BY <1>0, <1>1 DEF Superseded, Stored
<1>2. ASSUME NEW p \in Importer, ImportCommit(p) PROVE v \in Superseded(rows')
  <2>1. imp[p].version \notin Stored(rows)
    BY <1>2 DEF ImportCommit, FlushedImports
  <2>2. rows'[v] = rows[v]
    BY <1>0, <1>2, <2>1 DEF ImportCommit, TypeOK, Stored
  <2> QED
    BY <1>0, <2>2 DEF Superseded, Stored
<1>3. ASSUME NEW p \in Reviewer, ReviewCommit(p) PROVE v \in Superseded(rows')
  <2>1. /\ Stored(rows') = Stored(rows)
        /\ rows'[v].superseded = IF v \in rev[p].older THEN rev[p].version
                                                       ELSE rows[v].superseded
    BY <1>0, <1>3, ReviewCommitRows DEF Stored
  <2>2. rev[p].version # NoVersion
    BY <1>3 DEF ReviewCommit, TypeOK, ReviewTxn, NoReview, Version, NoVersion
  <2> QED
    BY <1>0, <2>1, <2>2 DEF Superseded
<1> QED
  BY <1>1, <1>2, <1>3 DEF Next, Import, Review, ImportRead, ImportFlush, ImportConflict,
     ImportAbort, ReviewLoad, ReviewSelect, ReviewAbort, vars

\* Once superseded, never citable again: no review, of whatever version and
\* with whatever concurrent reviews, resurrects a superseded version.
THEOREM SupersededNeverReturns == Spec => SupersededStaysOut
<1>1. IInv /\ [Next]_vars => [\A v \in Superseded(rows) : v \notin Citable(rows')]_vars
  <2> SUFFICES ASSUME IInv, [Next]_vars, NEW v \in Superseded(rows)
               PROVE  v \notin Citable(rows')
    OBVIOUS
  <2>1. v \in Superseded(rows')
    BY SupersededForGood
  <2> QED
    BY <2>1 DEF Superseded, Citable, CanSupportCitableRetrieval
<1> QED
  BY <1>1, Invariance, PTL DEF Spec, SupersededStaysOut

-----------------------------------------------------------------------------
(* What needs reviews to run one at a time (imports still interleave with  *)
(* them and with each other): what a review read is then still true when   *)
(* it commits.                                                             *)

SerialReviews == \A p, q \in Reviewer : p = q

\* What an open review read is what is stored.
UpToDate ==
  \A p \in Reviewer : rev[p].stage # "idle" =>
    /\ rev[p].seen.status = rows[rev[p].version].status
    /\ rev[p].seen.licence = rows[rev[p].version].licence
    /\ rev[p].stage = "selected" => rev[p].older = UnsupersededSiblings(rev[p].version)

\* Of the approved versions of a source all but at most one are superseded.
InForce(v) == rows[v].status = "approved" /\ rows[v].superseded = NoVersion
OneInForce ==
  \A v, w \in Stored(rows) :
    InForce(v) /\ InForce(w) /\ rows[v].source = rows[w].source => v = w

SInv == IInv /\ UpToDate /\ OneInForce /\ AuditAgrees

-----------------------------------------------------------------------------
LEMMA SInitInv == Init => SInv
  BY InitInv
  DEF Init, SInv, UpToDate, OneInForce, AuditAgrees, Stored, NoReview

\* An import adds a pending row, which no review has read and which is not
\* in force.
LEMMA ImportCommitSerial ==
  ASSUME SInv, NEW p \in Importer, ImportCommit(p)
  PROVE  UpToDate' /\ OneInForce' /\ AuditAgrees'
<1> DEFINE n == imp[p].version
<1>1. /\ n \in Version /\ n \notin Stored(rows)
  BY DEF SInv, IInv, FlushedImports, ImportCommit
<1>2. /\ \A v \in Version \ {n} : rows'[v] = rows[v]
      /\ rows'[n].status = "pending_review"
      /\ rows'[n] # Unstored
      /\ rev' = rev /\ audit' = audit
  BY <1>1 DEF SInv, IInv, TypeOK, ImportCommit, PendingRow, Unstored
<1> HIDE DEF n
<1>3. Stored(rows') = Stored(rows) \cup {n}
  BY <1>1, <1>2 DEF Stored
<1>4. \A v \in Stored(rows) : UnsupersededSiblings(v)' = UnsupersededSiblings(v)
  <2> SUFFICES ASSUME NEW v \in Stored(rows)
               PROVE  UnsupersededSiblings(v)' = UnsupersededSiblings(v)
    OBVIOUS
  <2>1. rows'[v] = rows[v]
    BY <1>1, <1>2 DEF Stored
  <2>2. \A w \in Stored(rows) : rows'[w] = rows[w]
    BY <1>1, <1>2 DEF Stored
  <2> QED
    BY <1>2, <1>3, <2>1, <2>2 DEF UnsupersededSiblings, OfSource
<1>5. UpToDate'
  <2> SUFFICES ASSUME NEW q \in Reviewer, rev[q].stage # "idle"
               PROVE  /\ rev[q].seen.status = rows'[rev[q].version].status
                      /\ rev[q].seen.licence = rows'[rev[q].version].licence
                      /\ rev[q].stage = "selected" =>
                           rev[q].older = UnsupersededSiblings(rev[q].version)'
    BY <1>2 DEF UpToDate, UnsupersededSiblings
  <2>1. rev[q].version \in Stored(rows)
    BY DEF SInv, IInv, OpenReviews
  <2>2. rows'[rev[q].version] = rows[rev[q].version]
    BY <1>1, <1>2, <2>1 DEF Stored
  <2>3. UnsupersededSiblings(rev[q].version)' = UnsupersededSiblings(rev[q].version)
    BY <1>4, <2>1, <1>2 DEF UnsupersededSiblings
  <2> QED
    BY <2>2, <2>3 DEF SInv, UpToDate
<1>6. OneInForce'
  BY <1>1, <1>2, <1>3 DEF SInv, OneInForce, InForce, Stored
<1>7. AuditAgrees'
  BY <1>1, <1>2, <1>3 DEF SInv, IInv, Reviewed, AuditAgrees, Stored
<1> QED
  BY <1>5, <1>6, <1>7

\* Steps that write no row: only the open reviews move.
LEMMA ReviewOpenSerial ==
  ASSUME SInv, SerialReviews, NEW p \in Reviewer,
         UNCHANGED <<rows, audit>>,
         \/ \E v \in Version, st \in Decision, l \in Licence \cup {Keep} :
              ReviewLoad(p, v, st, l)
         \/ ReviewSelect(p)
         \/ ReviewAbort(p)
  PROVE  UpToDate' /\ OneInForce' /\ AuditAgrees'
<1> USE DEF SInv, IInv
<1>1. OneInForce' /\ AuditAgrees'
  BY DEF OneInForce, AuditAgrees, InForce, Stored
<1>2. SUFFICES
        /\ rev'[p].stage # "idle" =>
             /\ rev'[p].seen.status = rows[rev'[p].version].status
             /\ rev'[p].seen.licence = rows[rev'[p].version].licence
        /\ rev'[p].stage = "selected" =>
             rev'[p].older = UnsupersededSiblings(rev'[p].version)
  BY <1>1 DEF SerialReviews, UpToDate, UnsupersededSiblings, OfSource, Stored
<1>3. ASSUME NEW v \in Version, NEW st \in Decision, NEW l \in Licence \cup {Keep},
             ReviewLoad(p, v, st, l)
      PROVE  /\ rev'[p].stage = "loaded"
             /\ rev'[p].seen.status = rows[rev'[p].version].status
             /\ rev'[p].seen.licence = rows[rev'[p].version].licence
  BY <1>3 DEF ReviewLoad, TypeOK
<1>4. CASE ReviewSelect(p)
  <2>1. rev'[p] = Selected(rev[p], UnsupersededSiblings(rev[p].version))
    BY <1>4 DEF ReviewSelect, TypeOK
  <2>2. rev[p].stage # "idle"
    BY <1>4 DEF ReviewSelect
  <2> QED
    BY <2>1, <2>2 DEF Selected, UpToDate
<1>5. CASE ReviewAbort(p)
  <2>1. rev'[p].stage = "idle"
    BY <1>5 DEF ReviewAbort, TypeOK, NoReview
  <2> QED
    BY <2>1
<1> QED
  BY <1>3, <1>4, <1>5

\* What the commit of an up to date review writes.
LEMMA ReviewCommitUpToDate ==
  ASSUME SInv, NEW p \in Reviewer, ReviewCommit(p)
  PROVE  /\ rev[p].version \in Stored(rows)
         /\ rows'[rev[p].version].status = rev[p].status
         /\ rows'[rev[p].version].licence = AssignedLicence(rev[p])
         /\ rev[p].status = "approved" =>
              rev[p].older = UnsupersededSiblings(rev[p].version)
         /\ rev[p].status # "approved" => rev[p].older = {}
<1> DEFINE r == rev[p]
<1>1. /\ r.version \in Stored(rows) /\ r.version \in Version
      /\ r.seen.status = rows[r.version].status
      /\ r.seen.licence = rows[r.version].licence
      /\ r.older # {} => r.status = "approved"
      /\ r.status = "approved" => r.older = UnsupersededSiblings(r.version)
  BY DEF SInv, IInv, UpToDate, OpenReviews, ReviewCommit, Stored
<1>2. rows'[r.version] = ReviewedRow(r, r.version)
  BY <1>1 DEF ReviewCommit
<1> HIDE DEF r
<1>3. /\ rows'[r.version].status = StatusAfter(r, r.version)
      /\ rows'[r.version].licence = LicenceAfter(r, r.version)
  BY <1>2 DEF ReviewedRow
<1>4. /\ StatusAfter(r, r.version) = r.status
      /\ LicenceAfter(r, r.version) = AssignedLicence(r)
  BY <1>1 DEF StatusAfter, LicenceAfter, Written
<1> QED
  BY <1>1, <1>3, <1>4 DEF r

LEMMA ReviewCommitSerial ==
  ASSUME SInv, SerialReviews, NEW p \in Reviewer, ReviewCommit(p)
  PROVE  UpToDate' /\ OneInForce' /\ AuditAgrees'
<1> DEFINE n == rev[p].version
           older == rev[p].older
<1>1. /\ Stored(rows') = Stored(rows) /\ n \in Stored(rows) /\ n \in Version
      /\ n # NoVersion
  BY ReviewCommitRows, ReviewCommitUpToDate DEF SInv, Stored, Version, NoVersion
<1>2. /\ \A v \in Version : rows'[v].source = rows[v].source
      /\ \A v \in Version \ {n} : rows'[v].licence = rows[v].licence
      /\ \A v \in Version \ {n} : rows'[v].status = rows[v].status
      /\ \A v \in Version : rows'[v].superseded =
                             IF v \in older THEN n ELSE rows[v].superseded
  BY ReviewCommitRows DEF SInv
<1>3. /\ rows'[n].status = rev[p].status
      /\ rows'[n].licence = AssignedLicence(rev[p])
      /\ rev[p].status = "approved" => older = UnsupersededSiblings(n)
      /\ rev[p].status # "approved" => older = {}
  BY ReviewCommitUpToDate
<1>4. /\ rev' = [rev EXCEPT ![p] = NoReview]
      /\ audit' = [audit EXCEPT ![n] =
                     [status |-> rev[p].status, licence |-> AssignedLicence(rev[p])]]
  BY DEF ReviewCommit
<1>5. UpToDate'
  BY <1>4 DEF UpToDate, SerialReviews, SInv, IInv, TypeOK, NoReview
<1> HIDE DEF n, older
<1>6. OneInForce'
  <2> SUFFICES ASSUME NEW v \in Stored(rows), NEW w \in Stored(rows),
                      rows'[v].status = "approved", rows'[v].superseded = NoVersion,
                      rows'[w].status = "approved", rows'[w].superseded = NoVersion,
                      rows'[v].source = rows'[w].source, v # w
               PROVE  FALSE
    BY <1>1 DEF OneInForce, InForce
  <2>1. v \in Version /\ w \in Version /\ v \notin older /\ w \notin older
    BY <1>1, <1>2 DEF Stored
  <2>2. CASE rev[p].status # "approved"
    BY <1>2, <1>3, <2>1, <2>2 DEF SInv, OneInForce, InForce
  <2>3. CASE rev[p].status = "approved" /\ v # n /\ w # n
    BY <1>2, <2>1, <2>3 DEF SInv, OneInForce, InForce
  <2>4. CASE rev[p].status = "approved" /\ (v = n \/ w = n)
    <3>1. older = UnsupersededSiblings(n)
      BY <1>3, <2>4
    <3>2. \A u \in Stored(rows) \ {n} :
            rows[u].source = rows[n].source /\ rows[u].status = "approved"
              /\ rows[u].superseded = NoVersion => u \in older
      BY <3>1 DEF UnsupersededSiblings, OfSource
    <3> QED
      BY <1>1, <1>2, <2>1, <2>4, <3>2
  <2> QED
    BY <2>2, <2>3, <2>4
<1>7. AuditAgrees'
  <2> SUFFICES ASSUME NEW v \in Stored(rows), audit'[v] # NoAudit
               PROVE  /\ rows'[v].status = audit'[v].status
                      /\ rows'[v].licence = audit'[v].licence
    BY <1>1 DEF AuditAgrees
  <2>1. CASE v = n
    BY <1>1, <1>3, <1>4, <2>1 DEF SInv, IInv, TypeOK
  <2>2. CASE v # n
    <3>1. v \in Version /\ audit'[v] = audit[v]
      BY <1>4, <2>2 DEF Stored, SInv, IInv, TypeOK
    <3> QED
      BY <1>2, <2>2, <3>1 DEF SInv, AuditAgrees
  <2> QED
    BY <2>1, <2>2
<1> QED
  BY <1>5, <1>6, <1>7

-----------------------------------------------------------------------------
LEMMA SNextInv ==
  ASSUME SerialReviews
  PROVE  SInv /\ [Next]_vars => SInv'
<1> SUFFICES ASSUME SInv, [Next]_vars
             PROVE  UpToDate' /\ OneInForce' /\ AuditAgrees'
  BY NextInv DEF SInv
<1>1. CASE UNCHANGED <<rows, rev, audit>>
  BY <1>1 DEF SInv, UpToDate, OneInForce, AuditAgrees, InForce, UnsupersededSiblings,
              OfSource, Stored
<1>2. ASSUME NEW p \in Importer, ImportCommit(p)
      PROVE  UpToDate' /\ OneInForce' /\ AuditAgrees'
  BY <1>2, ImportCommitSerial
<1>3. ASSUME NEW p \in Reviewer, Review(p)
      PROVE  UpToDate' /\ OneInForce' /\ AuditAgrees'
  <2>1. CASE ReviewCommit(p)
    BY <2>1, ReviewCommitSerial
  <2>2. ASSUME \/ \E v \in Version, st \in Decision, l \in Licence \cup {Keep} :
                    ReviewLoad(p, v, st, l)
               \/ ReviewSelect(p)
               \/ ReviewAbort(p)
        PROVE  UpToDate' /\ OneInForce' /\ AuditAgrees'
    <3>1. UNCHANGED <<rows, audit>>
      BY <2>2 DEF ReviewLoad, ReviewSelect, ReviewAbort
    <3> QED
      BY <2>2, <3>1, ReviewOpenSerial
  <2> QED
    BY <1>3, <2>1, <2>2 DEF Review
<1> QED
  BY <1>1, <1>2, <1>3 DEF Next, Import, ImportRead, ImportFlush, ImportConflict,
                          ImportAbort, vars

LEMMA SInvariance ==
  ASSUME SerialReviews
  PROVE  Spec => []SInv
<1>1. SInv /\ [Next]_vars => SInv'
  BY SNextInv
<1> QED
  BY <1>1, SInitInv, PTL DEF Spec

\* When reviews run one at a time, no source ever has two citable versions, nor
\* two that the search returns and nothing supersedes, however many versions it
\* has and whatever order they are reviewed in.
THEOREM OneCitableWhenSerial ==
  ASSUME SerialReviews
  PROVE  Spec => []OneCitable
<1>1. SInv => OneCitable
  BY DEF SInv, OneInForce, InForce, OneCitable, OneCitablePerSource, Citable,
         CanSupportCitableRetrieval, SearchableVersions, Superseded
<1>2. Spec => []SInv
  BY SInvariance
<1> QED
  BY <1>1, <1>2, PTL

\* When reviews run one at a time, the newest review record of every version
\* says what its row says.
THEOREM AuditAgreesWhenSerial ==
  ASSUME SerialReviews
  PROVE  Spec => []AuditAgrees
<1>1. SInv => AuditAgrees
  BY DEF SInv
<1>2. Spec => []SInv
  BY SInvariance
<1> QED
  BY <1>1, <1>2, PTL

-----------------------------------------------------------------------------
(* The store implements the register of citable versions                   *)

LEMMA RegisterInit == Init => Register!Init
  BY DEF Init, Register!Init, Citable, Superseded, Stored, Unstored

\* A commit of an import stores the version's row in the register.
LEMMA RegisterImport ==
  ASSUME SInv, NEW p \in Importer, ImportCommit(p)
  PROVE  Register!Next
<1> DEFINE n == imp[p].version
           s == imp[p].source
<1>1. n \in Version /\ n \notin Stored(rows)
  BY DEF SInv, IInv, FlushedImports, ImportCommit
<1>2. /\ rows' = [rows EXCEPT ![n] = PendingRow(s, imp[p].digest, imp[p].licence)]
      /\ rows[n] = Unstored
  BY <1>1 DEF ImportCommit, Stored
<1>3. /\ \A v \in Version \ {n} : rows'[v] = rows[v]
      /\ rows'[n].source = s /\ rows'[n].status = "pending_review"
      /\ rows'[n].superseded = NoVersion
  BY <1>1, <1>2 DEF SInv, IInv, TypeOK, PendingRow
<1> HIDE DEF n, s
<1>4. Citable(rows') = Citable(rows) /\ Superseded(rows') = Superseded(rows)
  BY <1>1, <1>2, <1>3 DEF Citable, Superseded, CanSupportCitableRetrieval, Stored
<1>5. [v \in Version |-> rows'[v].source] =
        [[v \in Version |-> rows[v].source] EXCEPT ![n] = s]
  BY <1>1, <1>3
<1>6. rows[n].source = "none"
  BY <1>2 DEF Unstored
<1>7. s \in Source
  BY DEF SInv, IInv, TypeOK, ImportTxn, ImportCommit, NoImport, s
<1> QED
  BY <1>1, <1>4, <1>5, <1>6, <1>7 DEF Register!Next, Register!Store

\* A commit of a review publishes the version or withdraws it.
LEMMA RegisterReview ==
  ASSUME SInv, NEW p \in Reviewer, ReviewCommit(p)
  PROVE  Register!Publish(rev[p].version) \/ Register!Withdraw(rev[p].version)
<1> DEFINE n == rev[p].version
           older == rev[p].older
           owner == [v \in Version |-> rows[v].source]
           siblings == {w \in Version : owner[w] = owner[n]}
<1>1. /\ Stored(rows') = Stored(rows) /\ n \in Stored(rows) /\ n \in Version
      /\ n # NoVersion
  BY ReviewCommitRows, ReviewCommitUpToDate DEF SInv, Stored, Version, NoVersion
<1>2. /\ \A v \in Version : rows'[v].source = rows[v].source
      /\ \A v \in Version : rows'[v].digest = rows[v].digest
      /\ \A v \in Version \ {n} : rows'[v].licence = rows[v].licence
      /\ \A v \in Version \ {n} : rows'[v].status = rows[v].status
      /\ \A v \in Version : rows'[v].superseded =
                             IF v \in older THEN n ELSE rows[v].superseded
  BY ReviewCommitRows DEF SInv
<1>3. /\ older \subseteq OfSource(rows, rows[n].source) \ {n}
      /\ rows'[n].status = "approved" => older = UnsupersededSiblings(n)
  BY ReviewCommitUpToDate DEF SInv, IInv, OpenReviews, ReviewCommit
<1> HIDE DEF n, older
<1>4. owner' = owner /\ owner[n] # "none"
  <2>1. owner' = owner
    BY <1>2
  <2>2. rows[n].source \in Source
    BY <1>1, StoredRow DEF SInv, IInv, Row
  <2> QED
    BY <1>1, <2>1, <2>2, SourceAssumption
<1>5. Superseded(rows') = Superseded(rows) \cup older
  BY <1>1, <1>2, <1>3 DEF Superseded, OfSource, Stored
<1>6. older \subseteq siblings \ {n} /\ older \subseteq Stored(rows)
  BY <1>1, <1>3 DEF OfSource, Stored
<1>7. \A v \in Version \ {n} : v \in Citable(rows') <=> v \in Citable(rows) \ older
  BY <1>1, <1>2 DEF Citable, CanSupportCitableRetrieval, MetadataOnly, Stored
<1>8. CASE n \in Citable(rows')
  <2>1. /\ rows'[n].status = "approved" /\ n \notin Superseded(rows)
    BY <1>1, <1>2, <1>5, <1>8 DEF Citable, CanSupportCitableRetrieval, Superseded
  <2>2. Citable(rows) \cap siblings \subseteq older \cup {n}
    BY <1>1, <1>3, <2>1 DEF UnsupersededSiblings, OfSource, Citable,
                            CanSupportCitableRetrieval, Stored
  <2>3. Citable(rows') = (Citable(rows) \ siblings) \cup {n}
    BY <1>1, <1>6, <1>7, <1>8, <2>2 DEF Citable, Stored
  <2>4. Register!Publish(n)
    BY <1>4, <1>5, <1>6, <2>1, <2>2, <2>3 DEF Register!Publish, Register!Siblings
  <2> QED
    BY <2>4 DEF n
<1>9. CASE n \notin Citable(rows')
  <2>1. Citable(rows') = Citable(rows) \ (older \cup {n})
    BY <1>1, <1>7, <1>9 DEF Citable, Stored
  <2>2. Register!Withdraw(n)
    BY <1>4, <1>5, <1>6, <2>1 DEF Register!Withdraw, Register!Siblings
  <2> QED
    BY <2>2 DEF n
<1> QED
  BY <1>8, <1>9

LEMMA RegisterNext ==
  ASSUME SInv, [Next]_vars
  PROVE  [Register!Next]_(Register!vars)
<1>1. CASE rows' = rows
  BY <1>1 DEF Register!vars, Citable, Superseded, Stored
<1>2. ASSUME NEW p \in Importer, ImportCommit(p)
      PROVE  Register!Next
  BY <1>2, RegisterImport
<1>3. ASSUME NEW p \in Reviewer, ReviewCommit(p)
      PROVE  Register!Next
  <2>1. rev[p].version \in Version
    BY <1>3, ReviewCommitUpToDate DEF Stored
  <2> QED
    BY <1>3, <2>1, RegisterReview DEF Register!Next
<1> QED
  BY <1>1, <1>2, <1>3 DEF Next, Import, Review, ImportRead, ImportFlush, ImportConflict,
     ImportAbort, ReviewLoad, ReviewSelect, ReviewAbort, vars

\* When reviews run one at a time, the library implements the register: for
\* each source one citable version, made citable by a review only, and
\* retired versions that never return.
THEOREM ImplementsRegister ==
  ASSUME SerialReviews
  PROVE  Spec => IsRegister
<1>1. Spec => []SInv
  BY SInvariance
<1>2. SInv /\ [Next]_vars => [Register!Next]_(Register!vars)
  BY RegisterNext
<1> QED
  BY <1>1, <1>2, RegisterInit, PTL DEF Spec, Register!Spec, IsRegister

-----------------------------------------------------------------------------
(* The greatest of some numbers                                            *)

LEMMA HasLeast ==
  ASSUME NEW S \in SUBSET Nat, S # {}
  PROVE  \E x \in S : \A y \in S : x <= y
<1> DEFINE R == {ss \in Nat \X Nat : ss[1] < ss[2]}
<1>1. IsWellFoundedOn(R, Nat)
  BY NatLessThanWellFounded DEF OpToRel
<1> HIDE DEF R
<1>2. PICK x \in S : \A y \in S : ~(<<y, x>> \in R)
  BY <1>1, WFMin
<1>3. \A y \in Nat : y < x => <<y, x>> \in R
  BY DEF R
<1>4. \A y \in S : ~(y < x)
  BY <1>2, <1>3
<1> QED
  BY <1>4

LEMMA HasGreatest ==
  ASSUME NEW n \in Nat, NEW S \in SUBSET (0 .. n), S # {}
  PROVE  \E x \in S : \A y \in S : y <= x
<1> DEFINE T == {n - x : x \in S}
<1>1. T \in SUBSET Nat /\ T # {}
  <2>1. \A x \in S : x \in 0 .. n /\ n - x \in Nat
    OBVIOUS
  <2>2. \A t \in T : t \in Nat
    BY <2>1
  <2>3. T # {}
    OBVIOUS
  <2> QED
    BY <2>2, <2>3
<1>2. PICK t \in T : \A u \in T : t <= u
  BY <1>1, HasLeast
<1>3. PICK x \in S : t = n - x
  OBVIOUS
<1>4. \A y \in S : y \in Int /\ n - x <= n - y
  BY <1>2, <1>3
<1> QED
  BY <1>4

-----------------------------------------------------------------------------
(* The in-memory library: its inductive invariant                          *)

Numbered == \A v \in Version : v \in Stored(versions) <=> v <= newest

YieldsToNewer ==
  \A v \in Superseded(versions) :
    LET w == versions[v].superseded IN
    v < w /\ w \in OfSource(versions, versions[v].source)

\* An approval that did not raise has put all earlier versions aside.
EldersYield ==
  \A v, w \in Stored(versions) :
    /\ versions[w].status = "approved" /\ w \notin halfDone
    /\ v < w /\ versions[v].source = versions[w].source
    => v \in Superseded(versions)

MemoryInv == MemoryTypeOK /\ Numbered /\ YieldsToNewer /\ EldersYield

LEMMA UnstoredNoRow == Unstored \notin Row /\ Unstored.superseded = NoVersion
  BY SourceAssumption DEF Unstored, Row

LEMMA StoredRows ==
  ASSUME MemoryTypeOK, NEW v \in Version
  PROVE  v \in Stored(versions) <=> versions[v] \in Row
  BY UnstoredNoRow DEF MemoryTypeOK, Stored

LEMMA MemoryIInit == MemoryInit => MemoryInv
<1> SUFFICES ASSUME MemoryInit PROVE MemoryInv
  OBVIOUS
<1>1. Stored(versions) = {}
  BY DEF MemoryInit, Stored
<1>2. MemoryTypeOK
  BY VersionsAssumption DEF MemoryInit, MemoryTypeOK
<1>3. Numbered
  <2>1. \A v \in Version : v \in Nat \ {0}
    BY VersionsAssumption DEF Version
  <2>2. \A v \in Version : ~(v <= 0)
    BY <2>1
  <2> QED
    BY <1>1, <2>2 DEF MemoryInit, Numbered
<1> QED
  BY <1>1, <1>2, <1>3 DEF MemoryInv, YieldsToNewer, EldersYield, Superseded

LEMMA ImportSourceStep ==
  ASSUME MemoryInv, NEW s \in Source, NEW t \in Text, NEW l \in Licence,
         NEW withheld \in BOOLEAN, ImportSource(s, t, l, withheld)
  PROVE  MemoryInv'
<1> DEFINE n == newest + 1
           r == PendingRow(s, ImportedDigest(t, l, withheld), l)
<1>1. n \in Version /\ newest \in Nat /\ n \in 0 .. MaxVersions
  BY VersionsAssumption DEF ImportSource, Version, MemoryInv, MemoryTypeOK
<1>2. /\ r \in Row /\ r.superseded = NoVersion /\ r.status # "approved"
  BY DEF PendingRow, ImportedDigest, Row, Digest, Status
<1>3. /\ versions' = [versions EXCEPT ![n] = r] /\ newest' = n
      /\ UNCHANGED <<reviews, halfDone>>
  BY DEF ImportSource
<1> HIDE DEF r, n
<1>4. versions \in [Version -> Row \cup {Unstored}]
  BY DEF MemoryInv, MemoryTypeOK
<1>5. /\ versions' \in [Version -> Row \cup {Unstored}] /\ versions'[n] = r
      /\ \A v \in Version \ {n} : versions'[v] = versions[v]
  BY <1>1, <1>2, <1>3, <1>4
<1>6. MemoryTypeOK'
  BY <1>1, <1>3, <1>5 DEF MemoryInv, MemoryTypeOK
<1>7. n \notin Stored(versions)
  BY <1>1 DEF MemoryInv, Numbered, n
<1>8. Stored(versions') = Stored(versions) \cup {n}
  BY <1>1, <1>2, <1>5, UnstoredNoRow DEF Stored
<1>9. Numbered'
  <2>1. \A v \in Version : v \in Nat
    BY VersionsAssumption DEF Version
  <2>2. \A v \in Version : v <= n <=> v <= newest \/ v = n
    BY <1>1, <2>1 DEF n
  <2> QED
    BY <1>1, <1>3, <1>8, <2>2 DEF MemoryInv, Numbered
<1>10. Superseded(versions') = Superseded(versions)
  BY <1>2, <1>5, <1>7, <1>8 DEF Superseded, Stored
<1>11. YieldsToNewer'
  <2> SUFFICES ASSUME NEW v \in Superseded(versions)
               PROVE  LET w == versions'[v].superseded IN
                      v < w /\ w \in OfSource(versions', versions'[v].source)
    BY <1>10 DEF YieldsToNewer
  <2> DEFINE w == versions[v].superseded
  <2>1. v \in Stored(versions) /\ v # n /\ versions'[v] = versions[v]
    BY <1>5, <1>7 DEF Superseded, Stored
  <2>2. v < w /\ w \in OfSource(versions, versions[v].source)
    BY DEF MemoryInv, YieldsToNewer
  <2>3. w \in Stored(versions) /\ w # n /\ versions'[w] = versions[w]
    BY <1>5, <1>7, <2>2 DEF OfSource, Stored
  <2> QED
    BY <1>8, <2>1, <2>2, <2>3 DEF OfSource
<1>12. EldersYield'
  <2> SUFFICES ASSUME NEW v \in Stored(versions'), NEW w \in Stored(versions'),
                      versions'[w].status = "approved", w \notin halfDone,
                      v < w, versions'[v].source = versions'[w].source
               PROVE  v \in Superseded(versions')
    BY <1>3 DEF EldersYield
  <2>1. w # n /\ w \in Stored(versions)
    BY <1>2, <1>5, <1>8
  <2>2. v # n
    BY <1>1, <2>1 DEF MemoryInv, Numbered, Stored, Version, n
  <2> QED
    BY <1>5, <1>8, <1>10, <2>1, <2>2 DEF MemoryInv, EldersYield, Stored
<1> QED
  BY <1>6, <1>9, <1>11, <1>12 DEF MemoryInv

-----------------------------------------------------------------------------
(* The in-memory library: reviews                                          *)

\* What any review leaves: the versions, their sources, and all rows but that
\* of v, save that versions may have been superseded.
Reviews(v) ==
  /\ newest' = newest
  /\ versions' \in [Version -> Row \cup {Unstored}]
  /\ \A w \in Version :
       /\ versions'[w] \in Row <=> versions[w] \in Row
       /\ versions'[w].source = versions[w].source
       /\ w # v => versions'[w].status = versions[w].status
       /\ versions[w].superseded # NoVersion => versions'[w].superseded # NoVersion

LEMMA ReviewStored ==
  ASSUME MemoryInv, NEW v \in Version, Reviews(v)
  PROVE  /\ Stored(versions') = Stored(versions)
         /\ \A w \in Version : OfSource(versions', versions'[w].source)
                                 = OfSource(versions, versions[w].source)
         /\ Superseded(versions) \subseteq Superseded(versions')
         /\ Numbered'
<1>1. Stored(versions') = Stored(versions)
  BY UnstoredNoRow DEF Reviews, Stored, MemoryInv, MemoryTypeOK
<1>2. \A w \in Version : OfSource(versions', versions'[w].source)
                                 = OfSource(versions, versions[w].source)
  BY <1>1 DEF Reviews, OfSource, Stored
<1>3. Superseded(versions) \subseteq Superseded(versions')
  BY <1>1 DEF Reviews, Superseded, Stored
<1>4. Numbered'
  BY <1>1 DEF Reviews, MemoryInv, Numbered
<1> QED
  BY <1>1, <1>2, <1>3, <1>4

\* An assigned row is a row of the same source and of its own status.
LEMMA AssignedRow ==
  ASSUME MemoryTypeOK, NEW v \in Stored(versions), NEW w \in Version,
         NEW st \in Status, NEW l \in Licence \cup {Keep},
         NEW x \in Version \cup {NoVersion},
         w \notin Stored(versions) => x = NoVersion
  PROVE  LET r == Assigned(w, v, st, l, x) IN
           /\ r \in Row \cup {Unstored}
           /\ r \in Row <=> versions[w] \in Row
           /\ r.source = versions[w].source
           /\ r.status = IF w = v THEN st ELSE versions[w].status
           /\ r.superseded = x
<1> DEFINE r == Assigned(w, v, st, l, x)
<1>1. /\ r.source = versions[w].source
      /\ r.status = IF w = v THEN st ELSE versions[w].status
      /\ r.superseded = x
  BY DEF Assigned
<1>2. ASSUME w \in Stored(versions) PROVE r \in Row
  <2>1. versions[w] \in Row /\ versions[v] \in Row
    BY <1>2, StoredRows DEF Stored
  <2>2. LicenceGiven(v, l) \in Licence
    BY <2>1 DEF LicenceGiven, Row, Keep
  <2> QED
    BY <2>1, <2>2 DEF Assigned, Row
<1>3. ASSUME w \notin Stored(versions) PROVE r = Unstored
  <2>1. versions[w] = Unstored /\ w # v /\ x = NoVersion
    BY <1>3 DEF Stored
  <2> QED
    BY <2>1 DEF Assigned, Unstored
<1> QED
  BY <1>1, <1>2, <1>3, UnstoredNoRow, StoredRows

\* Whoever gives way after an approval gives way to a newer version.
LEMMA HeirIsNewer ==
  ASSUME MemoryInv, NEW v \in Stored(versions)
  PROVE  /\ Heir(v) \in OfSource(versions, versions[v].source)
         /\ Heir(v) \in Version /\ v <= Heir(v)
<1> DEFINE S == LaterApproved(v)
<1>1. v \in Version /\ v \in OfSource(versions, versions[v].source) /\ v \in Nat
  BY DEF Stored, OfSource, Version
<1>2. S \subseteq OfSource(versions, versions[v].source) /\ S \in SUBSET (0 .. MaxVersions)
      /\ S \subseteq Version /\ \A w \in S : v < w /\ w \in Nat
  BY VersionsAssumption DEF LaterApproved, OfSource, Stored, Version
<1>3. ASSUME S # {} PROVE Heir(v) \in S
  <2> HIDE DEF S
  <2>1. \E x \in S : \A y \in S : y <= x
    BY <1>2, <1>3, HasGreatest, VersionsAssumption
  <2>2. \E x \in S : \A y \in S : x >= y
    BY <1>2, <2>1
  <2>3. Max(S) \in S
    BY <2>2 DEF Max
  <2> QED
    BY <1>3, <2>3 DEF Heir, S
<1>4. ASSUME S = {} PROVE Heir(v) = v
  BY <1>4 DEF Heir
<1> QED
  BY <1>1, <1>2, <1>3, <1>4

LEMMA GivesWayFacts ==
  ASSUME MemoryInv, NEW v \in Stored(versions), NEW w \in Version
  PROVE  /\ GivesWayTo(v, w) \in Version \cup {NoVersion}
         /\ w \notin Stored(versions) => GivesWayTo(v, w) = NoVersion
         /\ versions[w].superseded # NoVersion => GivesWayTo(v, w) # NoVersion
         /\ w \in OfSource(versions, versions[v].source) /\ w < v
              => GivesWayTo(v, w) # NoVersion
         /\ GivesWayTo(v, w) # NoVersion =>
              /\ w < GivesWayTo(v, w)
              /\ GivesWayTo(v, w) \in OfSource(versions, versions[w].source)
<1> DEFINE h == Heir(v)
<1>1. /\ h \in OfSource(versions, versions[v].source) /\ h \in Version /\ v <= h
      /\ h # NoVersion /\ h \in Nat /\ v \in Nat /\ w \in Nat
  BY HeirIsNewer DEF Version, NoVersion, Stored
<1>2. /\ versions[w] \in Row \cup {Unstored}
      /\ versions[w].superseded \in Version \cup {NoVersion}
      /\ w \notin Stored(versions) => versions[w].superseded = NoVersion
      /\ versions[w].superseded # NoVersion =>
           /\ w < versions[w].superseded
           /\ versions[w].superseded \in OfSource(versions, versions[w].source)
  BY UnstoredNoRow DEF MemoryInv, MemoryTypeOK, YieldsToNewer, Superseded, Row, Stored
<1> HIDE DEF h
<1>3. ASSUME w = v, h # v PROVE GivesWayTo(v, w) = h /\ v < h
  BY <1>1, <1>3 DEF GivesWayTo, h
<1>4. ASSUME w \in OfSource(versions, versions[v].source), w < v
      PROVE  GivesWayTo(v, w) = h /\ w < h /\ versions[w].source = versions[v].source
  BY <1>1, <1>4 DEF GivesWayTo, h, OfSource
<1>5. ASSUME ~(w = v /\ h # v), ~(w \in OfSource(versions, versions[v].source) /\ w < v)
      PROVE  GivesWayTo(v, w) = versions[w].superseded
  BY <1>5 DEF GivesWayTo, h
<1>6. w = v => w \in Stored(versions)
  OBVIOUS
<1>7. w \in OfSource(versions, versions[v].source) => w \in Stored(versions)
  BY DEF OfSource
<1> QED
  BY <1>1, <1>2, <1>3, <1>4, <1>5, <1>6, <1>7

LEMMA ReviewTyped ==
  ASSUME MemoryTypeOK, NEW v \in Stored(versions), NEW l \in Licence \cup {Keep}
  PROVE  LicenceGiven(v, l) \in Licence /\ v \in Version
  BY StoredRows DEF LicenceGiven, Row, Keep, Stored

LEMMA ReviewSourceStep ==
  ASSUME MemoryInv, NEW s \in Source, NEW v \in Version, NEW st \in Decision,
         NEW l \in Licence \cup {Keep}, ReviewSource(s, v, st, l)
  PROVE  MemoryInv'
<1> DEFINE x(w) == IF st = "approved" THEN GivesWayTo(v, w) ELSE versions[w].superseded
<1>1. v \in Stored(versions) /\ st \in Status /\ MemoryTypeOK
  BY DecisionAssumption DEF ReviewSource, MemoryInv
<1>2. ASSUME NEW w \in Version
      PROVE  /\ x(w) \in Version \cup {NoVersion}
             /\ w \notin Stored(versions) => x(w) = NoVersion
             /\ versions[w].superseded # NoVersion => x(w) # NoVersion
             /\ x(w) # NoVersion => /\ w < x(w)
                                    /\ x(w) \in OfSource(versions, versions[w].source)
  <2>1. CASE st = "approved"
    BY <1>1, <2>1, GivesWayFacts
  <2>2. CASE st # "approved"
    BY <2>2, UnstoredNoRow
    DEF MemoryInv, MemoryTypeOK, YieldsToNewer, Superseded, Row, Stored
  <2> QED
    BY <2>1, <2>2
<1>3. ASSUME NEW w \in Version
      PROVE  /\ versions'[w] \in Row \cup {Unstored}
             /\ versions'[w] \in Row <=> versions[w] \in Row
             /\ versions'[w].source = versions[w].source
             /\ versions'[w].status = IF w = v THEN st ELSE versions[w].status
             /\ versions'[w].superseded = x(w)
  <2>1. versions'[w] = Assigned(w, v, st, l, x(w))
    BY DEF ReviewSource
  <2> HIDE DEF x
  <2> QED
    BY <1>1, <1>2, <2>1, AssignedRow
<1>4. versions' \in [Version -> Row \cup {Unstored}]
  <2>1. versions' = [w \in Version |-> versions'[w]]
    BY DEF ReviewSource
  <2> QED
    BY <1>3, <2>1
<1> HIDE DEF x
<1>5. Reviews(v)
  BY <1>2, <1>3, <1>4 DEF Reviews, ReviewSource
<1>6. /\ Stored(versions') = Stored(versions)
      /\ \A w \in Version : OfSource(versions', versions'[w].source)
                              = OfSource(versions, versions[w].source)
      /\ Superseded(versions) \subseteq Superseded(versions')
      /\ Numbered'
  BY <1>5, ReviewStored
<1>7. MemoryTypeOK'
  <2>1. reviews' \in [Version -> [status: Decision, licence: Licence] \cup {NoAudit}]
    BY <1>1, ReviewTyped DEF ReviewSource, MemoryTypeOK
  <2> QED
    BY <1>4, <2>1 DEF ReviewSource, MemoryInv, MemoryTypeOK
<1>8. YieldsToNewer'
  BY <1>2, <1>3, <1>6 DEF YieldsToNewer, Superseded, Stored
<1>9. EldersYield'
  <2> SUFFICES ASSUME NEW u \in Stored(versions'), NEW w \in Stored(versions'),
                      versions'[w].status = "approved", w \notin halfDone',
                      u < w, versions'[u].source = versions'[w].source
               PROVE  u \in Superseded(versions')
    BY DEF EldersYield
  <2>1. u \in Stored(versions) /\ w \in Stored(versions) /\ u \in Version /\ w \in Version
    BY <1>6 DEF Stored
  <2>2. CASE w = v
    <3>1. st = "approved" /\ u \in OfSource(versions, versions[v].source)
      BY <1>3, <2>1, <2>2 DEF OfSource
    <3>2. x(u) # NoVersion
      BY <1>1, <2>1, <2>2, <3>1, GivesWayFacts DEF x
    <3> QED
      BY <1>3, <2>1, <3>2 DEF Superseded
  <2>3. CASE w # v
    BY <1>3, <1>6, <2>1, <2>3 DEF ReviewSource, MemoryInv, EldersYield
  <2> QED
    BY <2>2, <2>3
<1> QED
  BY <1>6, <1>7, <1>8, <1>9 DEF MemoryInv

LEMMA ReviewRaisesStep ==
  ASSUME MemoryInv, NEW s \in Source, NEW v \in Version,
         NEW l \in Licence \cup {Keep}, ReviewRaises(s, v, l)
  PROVE  MemoryInv'
<1>1. v \in Stored(versions) /\ MemoryTypeOK /\ "approved" \in Status
  BY DEF ReviewRaises, MemoryInv, Status
<1>2. ASSUME NEW w \in Version
      PROVE  /\ versions[w].superseded \in Version \cup {NoVersion}
             /\ w \notin Stored(versions) => versions[w].superseded = NoVersion
  BY UnstoredNoRow DEF MemoryInv, MemoryTypeOK, Row, Stored
<1>3. ASSUME NEW w \in Version
      PROVE  /\ versions'[w] \in Row \cup {Unstored}
             /\ versions'[w] \in Row <=> versions[w] \in Row
             /\ versions'[w].source = versions[w].source
             /\ versions'[w].status = IF w = v THEN "approved" ELSE versions[w].status
             /\ versions'[w].superseded = versions[w].superseded
  <2>1. versions'[w] = Assigned(w, v, "approved", l, versions[w].superseded)
    BY DEF ReviewRaises
  <2> QED
    BY <1>1, <1>2, <2>1, AssignedRow
<1>4. versions' \in [Version -> Row \cup {Unstored}]
  <2>1. versions' = [w \in Version |-> versions'[w]]
    BY DEF ReviewRaises
  <2> QED
    BY <1>3, <2>1
<1>5. Reviews(v)
  BY <1>3, <1>4 DEF Reviews, ReviewRaises
<1>6. /\ Stored(versions') = Stored(versions)
      /\ \A w \in Version : OfSource(versions', versions'[w].source)
                              = OfSource(versions, versions[w].source)
      /\ Superseded(versions) \subseteq Superseded(versions')
      /\ Numbered'
  BY <1>5, ReviewStored
<1>7. MemoryTypeOK'
  BY <1>4 DEF ReviewRaises, MemoryInv, MemoryTypeOK
<1>8. YieldsToNewer'
  BY <1>3, <1>6 DEF MemoryInv, YieldsToNewer, Superseded, Stored
<1>9. EldersYield'
  BY <1>3, <1>6 DEF ReviewRaises, MemoryInv, EldersYield, Stored
<1> QED
  BY <1>6, <1>7, <1>8, <1>9 DEF MemoryInv

LEMMA MemoryINext == MemoryInv /\ [MemoryNext]_memoryVars => MemoryInv'
<1> SUFFICES ASSUME MemoryInv, [MemoryNext]_memoryVars PROVE MemoryInv'
  OBVIOUS
<1>1. CASE UNCHANGED memoryVars
  BY <1>1 DEF memoryVars, MemoryInv, MemoryTypeOK, Numbered, YieldsToNewer, EldersYield
<1> QED
  BY <1>1, ImportSourceStep, ReviewSourceStep, ReviewRaisesStep DEF MemoryNext

THEOREM MemoryInductive == MemorySpec => []MemoryInv
  BY MemoryIInit, MemoryINext, PTL DEF MemorySpec

THEOREM MemoryTyping == MemorySpec => []MemoryTypeOK
<1>1. MemoryInv => MemoryTypeOK
  BY DEF MemoryInv
<1> QED
  BY <1>1, MemoryInductive, PTL

\* In whatever order versions are reviewed, also in the order opposite to that
\* of their import, each gives way to newer ones of its source only, and no two
\* are citable unless the newer one's approval raised half way.
THEOREM SupersessionIsOrdered == MemorySpec => []OrderedSupersession
<1>1. MemoryInv => OrderedSupersession
  <2> SUFFICES ASSUME MemoryInv PROVE OrderedSupersession
    OBVIOUS
  <2>1. ASSUME NEW v \in Citable(versions), NEW w \in Citable(versions),
               versions[v].source = versions[w].source, v < w
        PROVE  w \in halfDone
    BY <2>1 DEF MemoryInv, EldersYield, Citable, CanSupportCitableRetrieval, Superseded
  <2> QED
    BY <2>1 DEF MemoryInv, YieldsToNewer, OrderedSupersession
<1> QED
  BY <1>1, MemoryInductive, PTL
=============================================================================
