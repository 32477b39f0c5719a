---------------------------- MODULE MemoryLibrary ----------------------------
(***************************************************************************)
(* InMemorySourceLibrary, the source library the API runs on when it has   *)
(* no database.  Each call holds the library's lock from its first to its  *)
(* last statement, so a call is one step; but a call that raises half way  *)
(* leaves what it has already written.                                     *)
(***************************************************************************)
EXTENDS SourceRecords, FiniteSetsExt

VARIABLES
  versions,   \* [Version -> Row or Unstored]
  newest,     \* the last version created
  reviews,    \* the newest record in reviews of each version
  halfDone    \* history: versions whose last review raised after writing them

memoryVars == <<versions, newest, reviews, halfDone>>

MemoryTypeOK ==
  /\ versions \in [Version -> Row \cup {Unstored}]
  /\ newest \in 0 .. MaxVersions
  /\ reviews \in [Version -> [status: Decision, licence: Licence] \cup {NoAudit}]
  /\ halfDone \subseteq Version

MemoryInit ==
  /\ versions = [v \in Version |-> Unstored]
  /\ newest = 0
  /\ reviews = [v \in Version |-> NoAudit]
  /\ halfDone = {}

-----------------------------------------------------------------------------
(* import_source                                                           *)

\* Nothing is stored as text of a source that asks for metadata only, that
\* looks like a Standards Australia document (both: withheld), or whose
\* licence does not allow storing it.
ImportedDigest(t, l, withheld) ==
  IF withheld \/ l \notin CanStoreFullText THEN l ELSE t

\* A digest the source has already returns the version that carries it.
ImportSource(s, t, l, withheld) ==
  LET d == ImportedDigest(t, l, withheld) IN
  /\ Carrying(versions, s, d) = {}
  /\ newest < MaxVersions
  /\ newest' = newest + 1
  /\ versions' = [versions EXCEPT ![newest + 1] = PendingRow(s, d, l)]
  /\ UNCHANGED <<reviews, halfDone>>

-----------------------------------------------------------------------------
(* review_source                                                           *)

LicenceGiven(v, l) == IF l = Keep THEN versions[v].licence ELSE l

LaterApproved(v) ==
  {w \in OfSource(versions, versions[v].source) :
     v < w /\ versions[w].status = "approved"}

\* The version all earlier ones give way to: the newest approved later one,
\* or the approved one itself.
Heir(v) == IF LaterApproved(v) = {} THEN v ELSE Max(LaterApproved(v))

\* Mutated form: only approved elders give way.
GivesWayWhenApproved(v, w) ==
  CASE w = v /\ Heir(v) # v -> Heir(v)
    [] /\ w \in OfSource(versions, versions[v].source)
       /\ w < v /\ versions[w].status = "approved" -> Heir(v)
    [] OTHER -> versions[w].superseded

\* superseded_by_version_id of w after v is approved.
GivesWayTo(v, w) ==
  CASE w = v /\ Heir(v) # v -> Heir(v)
    [] w \in OfSource(versions, versions[v].source) /\ w < v -> Heir(v)
    [] OTHER -> versions[w].superseded

\* The row of w when v is given status st and licence l.
Assigned(w, v, st, l, superseded) ==
  [source |-> versions[w].source, digest |-> versions[w].digest,
   licence |-> IF w = v THEN LicenceGiven(v, l) ELSE versions[w].licence,
   status |-> IF w = v THEN st ELSE versions[w].status,
   superseded |-> superseded]

\* source_id of the request is s; the version is the one it names, or the
\* newest of s.  Nothing compares the two.
ReviewSource(s, v, st, l) ==
  /\ v \in Stored(versions)
  /\ OfSource(versions, s) # {}
  /\ st = "approved" => versions[v].source = s
  /\ versions' = [w \in Version |->
       Assigned(w, v, st, l, IF st = "approved" THEN GivesWayTo(v, w)
                             ELSE versions[w].superseded)]
  /\ reviews' = [reviews EXCEPT ![v] = [status |-> st, licence |-> LicenceGiven(v, l)]]
  /\ halfDone' = halfDone \ {v}
  /\ UNCHANGED newest

\* An approval of a version of another source: the version is written, then
\* its position among the versions of s is looked up and list.index raises.
ReviewRaises(s, v, l) ==
  /\ v \in Stored(versions)
  /\ OfSource(versions, s) # {}
  /\ versions[v].source # s
  /\ versions' = [w \in Version |->
       Assigned(w, v, "approved", l, versions[w].superseded)]
  /\ halfDone' = halfDone \cup {v}
  /\ UNCHANGED <<newest, reviews>>

-----------------------------------------------------------------------------
MemoryNext ==
  \/ \E s \in Source, t \in Text, l \in Licence, withheld \in BOOLEAN :
       ImportSource(s, t, l, withheld)
  \/ \E s \in Source, v \in Version, st \in Decision, l \in Licence \cup {Keep} :
       ReviewSource(s, v, st, l)
  \/ \E s \in Source, v \in Version, l \in Licence \cup {Keep} :
       ReviewRaises(s, v, l)

MemorySpec == MemoryInit /\ [][MemoryNext]_memoryVars

-----------------------------------------------------------------------------
\* However reviews are ordered, a version gives way to a newer one of its
\* source only, and two versions of a source are citable together only after
\* an approval of the newer one that raised.
OrderedSupersession ==
  /\ \A v \in Superseded(versions) :
       LET w == versions[v].superseded IN
       v < w /\ w \in OfSource(versions, versions[v].source)
  /\ \A v, w \in Citable(versions) :
       versions[v].source = versions[w].source /\ v < w => w \in halfDone
=============================================================================
