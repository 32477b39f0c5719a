--------------------------- MODULE CitableRegister ---------------------------
(***************************************************************************)
(* What a source library promises to the answers that cite it, for each    *)
(* source: at most one version is citable, a review is the only thing that *)
(* makes one citable, and a version that gave way to another one (it is    *)
(* retired) never comes back.                                              *)
(***************************************************************************)
CONSTANTS Source, Version, Nobody

VARIABLES
  owner,     \* the source each version belongs to, Nobody before it is stored
  citable,   \* versions an answer may cite
  retired    \* versions superseded by another one of their source

vars == <<owner, citable, retired>>

Siblings(v) == {w \in Version : owner[w] = owner[v]}

Init ==
  /\ owner = [v \in Version |-> Nobody]
  /\ citable = {}
  /\ retired = {}

Store(v, s) ==
  /\ owner[v] = Nobody
  /\ owner' = [owner EXCEPT ![v] = s]
  /\ UNCHANGED <<citable, retired>>

\* A review makes v the citable version of its source; the one it replaces
\* is retired, and so may be others of the source.
Publish(v) ==
  /\ owner[v] # Nobody
  /\ v \notin retired
  /\ citable' = (citable \ Siblings(v)) \cup {v}
  /\ \E R \in SUBSET (Siblings(v) \ {v}) :
       /\ citable \cap Siblings(v) \subseteq R \cup {v}
       /\ retired' = retired \cup R
  /\ UNCHANGED owner

\* A review after which v is not citable: v was rejected, its licence forbids
\* citing, or a newer version has taken its place.  Others of the source stop
\* being citable only by being retired.
Withdraw(v) ==
  /\ owner[v] # Nobody
  /\ \E R \in SUBSET Siblings(v) :
       /\ retired' = retired \cup R
       /\ citable' = citable \ (R \cup {v})
  /\ UNCHANGED owner

Next ==
  \E v \in Version :
    \/ \E s \in Source : Store(v, s)
    \/ Publish(v)
    \/ Withdraw(v)

Spec == Init /\ [][Next]_vars
=============================================================================
