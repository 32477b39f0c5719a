---------------------------- MODULE SourceRecords ----------------------------
(***************************************************************************)
(* The rows both source libraries keep: the versions of the planning       *)
(* sources LotFile may cite.  A version is named by the order in which its *)
(* row was created (fetched_at), so "newer" is ">".                        *)
(***************************************************************************)
EXTENDS Naturals, FiniteSets

CONSTANTS
  Source,       \* source documents
  Text,         \* bodies of text a version may carry (their sha256 digests)
  Licence,      \* licence statuses in play
  Decision,     \* review statuses the reviewers choose from
  MaxVersions   \* bound: how many version rows are ever created

ASSUME SourceAssumption == "none" \notin Source
ASSUME TextAssumption == Text \cap Licence = {} /\ "none" \notin Text \cup Licence
ASSUME LicenceAssumption ==
  Licence \subseteq {"open", "verified_open", "pending_review", "restricted",
                     "metadata_only", "prohibited", "unknown"}
ASSUME VersionsAssumption == MaxVersions \in Nat \ {0}

Version == 1 .. MaxVersions
NoVersion == 0        \* NULL in superseded_by_version_id

CanStoreFullText == {"open", "verified_open", "pending_review"} \cap Licence
CanSupportCitation == {"open", "verified_open"} \cap Licence

Status == {"pending_review", "approved", "rejected", "stale"}

ASSUME DecisionAssumption == Decision \subseteq Status

Keep == "keep"   \* a review that sends no licence_status

\* The newest review record of a version that has none.
NoAudit == [status |-> "none", licence |-> "none"]

\* The payload that is hashed is the text, or, for a metadata-only version,
\* the description of the source, of which the licence is the changing part.
Digest == Text \cup Licence

Row == [source: Source, digest: Digest, licence: Licence, status: Status,
        superseded: Version \cup {NoVersion}]
Unstored == [source |-> "none", digest |-> "none", licence |-> "none",
             status |-> "none", superseded |-> NoVersion]

Stored(rows) == {v \in Version : rows[v] # Unstored}
OfSource(rows, s) == {v \in Stored(rows) : rows[v].source = s}
Carrying(rows, s, d) == {v \in OfSource(rows, s) : rows[v].digest = d}

PendingRow(s, d, l) ==
  [source |-> s, digest |-> d, licence |-> l, status |-> "pending_review",
   superseded |-> NoVersion]

MetadataOnly(r) == r.digest \notin Text

(***************************************************************************)
(* Citable as the source library defines it.                               *)
(***************************************************************************)
CanSupportCitableRetrieval(r) ==
  /\ r.status = "approved"
  /\ r.licence \in CanSupportCitation
  /\ ~MetadataOnly(r)
  /\ r.superseded = NoVersion

Citable(rows) == {v \in Stored(rows) : CanSupportCitableRetrieval(rows[v])}
Superseded(rows) == {v \in Stored(rows) : rows[v].superseded # NoVersion}

\* Two citable versions of one source would let an answer quote two
\* contradicting texts of the same instrument as current law.
OneCitablePerSource(rows) ==
  \A v, w \in Citable(rows) : rows[v].source = rows[w].source => v = w
=============================================================================
