--------------------------- MODULE ProjectChecks ---------------------------
(***************************************************************************)
(* One project's property and its compliance checks: the address requests  *)
(* that save a profile and derive facts from the parcel, the facts that    *)
(* users enter, and the check runs of the engine that read both.           *)
(*                                                                         *)
(* Every request is a transaction at READ COMMITTED.  A save and a check   *)
(* run take a step per statement that reads or locks what others write;    *)
(* the ORM updates the columns whose values differ from what it loaded.    *)
(* The facts derived from one parcel are inserted and deleted together: a  *)
(* batch stands for the rows of all their types.                           *)
(***************************************************************************)
EXTENDS Integers, Sequences

CONSTANTS
  Lot,             \* parcels
  Stated,          \* what the parcel and the layers over it state of each
  Profile,         \* the profiles that resolve_address may return
  LiveVerify,      \* DRAFTCHECK_PLANWA_LIVE_VERIFY
  Layers,          \* the layers in which the live service may differ
  Entry,           \* the facts that users enter
  Rule,            \* the rules of the library
  Check,           \* the keys of ALL_CHECKS
  Measures,        \* the type of the fact that each check compares
  ProjectCouncil,  \* the project's own council scope, if it has one
  Client,          \* concurrent address requests
  MaxSaves,        \* bound: address requests
  MaxEntries,      \* bound: facts entered
  MaxReviews,      \* bound: reviews of rules
  MaxRuns          \* bound: check runs

NoLot == "no lot"
Anywhere == "anywhere"
DerivedType == {"lot_area_m2", "local_government"}
Wall == "wall_height_m"

ASSUME LotAssumption == NoLot \notin Lot
\* A profile has a provenance exactly when some dataset or person vouches for it.
ASSUME ProfileAssumption ==
  \A p \in Profile :
    /\ p.status \in {"resolved", "needs_more_info", "missing_info", "unsupported"}
    /\ p.lot \in Lot \cup {NoLot}
    /\ p.sourced \in BOOLEAN
    /\ p.manual \subseteq Entry
    /\ p.lot \in Lot => p.sourced /\ p.manual = {}
ASSUME RuleAssumption ==
  \A r, s \in Rule : r.age = s.age => r = s
ASSUME LayersAssumption == {} \in Layers
ASSUME BoundAssumption ==
  /\ MaxSaves \in Nat /\ MaxEntries \in Nat
  /\ MaxReviews \in Nat /\ MaxRuns \in Nat

VARIABLES
  row,         \* the project's row of properties, committed
  derived,     \* batches of method spatial_derived, committed
  live,        \* planwa_live_verification facts, committed
  entered,     \* facts of method manual_override, committed
  clock,       \* created_at of the next fact
  save,        \* the address request each client has open
  saves,       \* how many were begun
  entries,     \* how many facts were entered
  overlapped,  \* history: a save began while another was open
  approved,    \* rules with lifecycle_status approved
  reviews,     \* how many reviews changed one
  run,         \* the check run that is open
  runs         \* the check runs committed, with what each read

tables == <<row, derived, live, entered>>
saveVars == <<save, saves, overlapped>>
ruleVars == <<approved, reviews>>
runVars == <<run, runs>>
vars == <<tables, clock, saveVars, entries, ruleVars, runVars>>

Status == {"resolved", "needs_more_info", "missing_info", "unsupported"}
Address == {p.address : p \in Profile}
Row == [address: Address, status: Status, lot: Lot \cup {NoLot},
        sourced: BOOLEAN]
NoRow == [status |-> "absent"]

Batch == [lot: Lot, at: Nat]
Live == [lot: Lot, differs: Layers, at: Nat]   \* lot: history
Hand == [entry: Entry, at: Nat]

NoSave == [stage |-> "idle"]
Writing == {"flushed", "deleting", "inserted"}
ReadSave == [stage: {"read"}, profile: Profile, differs: Layers,
             seen: Row \cup {NoRow}]
OpenSave == [stage: Writing, lot: Lot \cup {NoLot},
             writes: BOOLEAN, wrote: Row, live: SUBSET Live,
             entered: SUBSET Hand, doomed: SUBSET Batch, made: SUBSET Batch]

NoRun == [stage |-> "idle"]
Evidence == [derived: SUBSET Batch, entered: SUBSET Hand, live: SUBSET Live,
             rules: SUBSET Rule]
OpenRun == [stage: {"facts", "live", "rules"}, read: Evidence,
            overlapped: BOOLEAN]
Result == [check: Check, rule: Rule,
           status: {"likely_pass", "likely_fail", "needs_more_info"}]
RunStatus == {"has_likely_failures", "incomplete", "likely_compliant"}
DoneRun == [read: Evidence, overlapped: BOOLEAN, results: SUBSET Result,
            status: RunStatus]

TypeOK ==
  /\ row \in Row \cup {NoRow}
  /\ derived \in SUBSET Batch
  /\ live \in SUBSET Live
  /\ entered \in SUBSET Hand
  /\ clock \in Nat
  /\ save \in [Client -> {NoSave} \cup ReadSave \cup OpenSave]
  /\ saves \in 0 .. MaxSaves
  /\ entries \in 0 .. MaxEntries
  /\ overlapped \in BOOLEAN
  /\ approved \in SUBSET Rule
  /\ reviews \in 0 .. MaxReviews
  /\ run \in {NoRun} \cup OpenRun
  /\ runs \in Seq(DoneRun)

Init ==
  /\ row = NoRow
  /\ derived = {} /\ live = {} /\ entered = {}
  /\ clock = 0
  /\ save = [c \in Client |-> NoSave]
  /\ saves = 0 /\ entries = 0 /\ reviews = 0
  /\ overlapped = FALSE
  /\ approved = Rule
  /\ run = NoRun
  /\ runs = <<>>

-----------------------------------------------------------------------------
(* resolve_address and save_profile                                        *)

\* What the live service says of the resolved point: the layers in which it
\* differs from the local ones, which are none when it cannot be reached.
Verified(p, differs) ==
  IF LiveVerify /\ p.lot \in Lot
    THEN {[lot |-> p.lot, differs |-> differs, at |-> clock]} ELSE {}

StatusOf(p, differs) == IF differs = {} THEN p.status ELSE "needs_more_info"

\* The address is resolved before the transaction, which begins by loading the
\* property.
SaveRead(c, p, differs) ==
  /\ save[c] = NoSave
  /\ saves < MaxSaves
  /\ differs # {} => LiveVerify /\ p.lot \in Lot
  /\ save' = [save EXCEPT ![c] = [stage |-> "read", profile |-> p,
                                  differs |-> differs, seen |-> row]]
  /\ saves' = saves + 1
  /\ overlapped' = (overlapped \/ \E d \in Client : save[d] # NoSave)
  /\ UNCHANGED <<tables, clock, entries, ruleVars, runVars>>

\* The parcel of the row the session holds: an address without a parcel
\* leaves the column as it was loaded.
LotHeld(s) ==
  IF s.profile.lot \in Lot THEN s.profile.lot
    ELSE IF s.seen = NoRow THEN NoLot ELSE s.seen.lot

Wanted(s) ==
  [address |-> s.profile.address, status |-> StatusOf(s.profile, s.differs),
   lot |-> LotHeld(s), sourced |-> s.profile.sourced]

\* The provenance carries the time, so that a profile with any always differs.
Writes(s) == s.seen # Wanted(s) \/ s.profile.sourced

\* The UPDATE sets the columns that differ from those loaded.
Column(new, seen, now) == IF new = seen THEN now ELSE new
Merged(s) ==
  LET w == Wanted(s) IN
    IF s.seen = NoRow THEN w ELSE
      [address |-> Column(w.address, s.seen.address, row.address),
       status |-> Column(w.status, s.seen.status, row.status),
       lot |-> Column(w.lot, s.seen.lot, row.lot),
       sourced |-> Column(w.sourced, s.seen.sourced, row.sourced)]

RowLocked == \E c \in Client : save[c].stage \in Writing /\ save[c].writes

\* The row is written, which waits for another transaction that wrote it, and
\* the profile's own facts are inserted.
SaveFlush(c) ==
  LET s == save[c] IN
    /\ s.stage = "read"
    /\ Writes(s) => ~RowLocked
    /\ s.seen = NoRow => row = NoRow
    /\ save' = [save EXCEPT ![c] =
         [stage |-> "flushed", lot |-> LotHeld(s), writes |-> Writes(s),
          wrote |-> Merged(s), live |-> Verified(s.profile, s.differs),
          entered |-> {[entry |-> e, at |-> clock] : e \in s.profile.manual},
          doomed |-> {}, made |-> {}]]
    /\ clock' = clock + 1
    /\ UNCHANGED <<tables, saves, overlapped, entries, ruleVars, runVars>>

\* The INSERT of a first row meets one that was committed meanwhile.
SaveFail(c) ==
  /\ save[c].stage = "read"
  /\ ~RowLocked
  /\ save[c].seen = NoRow /\ row # NoRow
  /\ save' = [save EXCEPT ![c] = NoSave]
  /\ UNCHANGED <<tables, clock, saves, overlapped, entries, ruleVars, runVars>>

\* Mutant: synth_property_facts inserts and deletes nothing first.
DoomedNever == {}

\* synth_property_facts deletes the derived facts that its statement sees.
Doomed == derived

SaveDelete(c) ==
  /\ save[c].stage = "flushed"
  /\ save' = [save EXCEPT
       ![c] = [@ EXCEPT !.stage = "deleting", !.doomed = Doomed]]
  /\ UNCHANGED <<tables, clock, saves, overlapped, entries, ruleVars, runVars>>

\* The fresh facts, of the parcel of the row the session holds.
Made(s) == IF s.lot \in Lot THEN {[lot |-> s.lot, at |-> clock]} ELSE {}

\* The delete waits for another that took the same rows, whose end removes them.
SaveInsert(c) ==
  LET s == save[c] IN
    /\ s.stage = "deleting"
    /\ \A d \in Client :
         save[d].stage = "inserted" => save[d].doomed \cap s.doomed = {}
    /\ save' = [save EXCEPT
         ![c] = [s EXCEPT !.stage = "inserted", !.made = Made(s)]]
    /\ clock' = clock + 1
    /\ UNCHANGED <<tables, saves, overlapped, entries, ruleVars, runVars>>

SaveCommit(c) ==
  LET s == save[c] IN
    /\ s.stage = "inserted"
    /\ row' = IF s.writes THEN s.wrote ELSE row
    /\ derived' = (derived \ s.doomed) \cup s.made
    /\ live' = live \cup s.live
    /\ entered' = entered \cup s.entered
    /\ save' = [save EXCEPT ![c] = NoSave]
    /\ UNCHANGED <<clock, saves, overlapped, entries, ruleVars, runVars>>

-----------------------------------------------------------------------------
(* override_fact, and reviews of rules                                     *)

Newest(facts) == {x \in facts : \A y \in facts : y.at <= x.at}

\* A later override of a type updates the newest row there is, which keeps its
\* created_at.  Two first ones at once only leave an older row behind.
Enter(e) ==
  LET old == Newest({x \in entered : x.entry.type = e.type}) IN
    /\ entries < MaxEntries
    /\ entries' = entries + 1
    /\ entered' = IF old = {} THEN entered \cup {[entry |-> e, at |-> clock]}
                  ELSE (entered \ old) \cup
                         {[entry |-> e, at |-> x.at] : x \in old}
    /\ clock' = IF old = {} THEN clock + 1 ELSE clock
    /\ UNCHANGED <<row, derived, live, saveVars, ruleVars, runVars>>

Review(r) ==
  /\ reviews < MaxReviews
  /\ reviews' = reviews + 1
  /\ approved' = IF r \in approved THEN approved \ {r} ELSE approved \cup {r}
  /\ UNCHANGED <<tables, clock, saveVars, entries, runVars>>

-----------------------------------------------------------------------------
(* The engine's view of what a run read, e                                 *)

\* fact_by_type: the newest fact of each type, derived or entered.
FactOf(type, e) ==
  LET stated == IF type \in DerivedType
                  THEN {[value |-> Stated[b.lot][type], at |-> b.at] :
                          b \in e.derived} ELSE {}
      typed == {[value |-> x.entry.value, at |-> x.at] :
                  x \in {y \in e.entered : y.entry.type = type}}
  IN {x.value : x \in Newest(stated \cup typed)}

\* _resolve_council_scope: a fact called council goes before the parcel's.
CouncilScope(e) ==
  IF FactOf("council", e) # {} THEN FactOf("council", e)
    ELSE IF FactOf("local_government", e) # {}
      THEN FactOf("local_government", e) ELSE ProjectCouncil

Codes(e) == {Stated[b.lot].r_code : b \in e.derived}

\* A layer in which the live service differs gives no scope.
Plans(e) ==
  IF \E v \in e.live : "structure_plan" \in v.differs THEN {}
    ELSE UNION {Stated[b.lot].structure_plan : b \in e.derived}

\* Mutant: a scoped source without a reference is taken for one without scope.
InScopeWhenUnmapped(r, e) ==
  r.scoped /\ r.plans # {} => r.plans \cap Plans(e) # {}

\* _source_applies_to_spatial_facts: a scoped source without a reference that
\* can be mapped applies nowhere.
InScope(r, e) == r.scoped => r.plans \cap Plans(e) # {}

\* A filter whose facts are missing is not applied.
Applies(r, e) ==
  /\ CouncilScope(e) = {} \/ r.council \in CouncilScope(e) \cup {Anywhere}
  /\ Codes(e) = {} \/ r.r_code \in Codes(e) \cup {Anywhere}
  /\ InScope(r, e)
Applicable(e) == {r \in approved : Applies(r, e)}

\* _condition_rank: a bound is an upper one unless its label says over; a
\* condition on what is not known leaves the rule undecided.
Undecided(r, e) ==
  \/ r.condition = "unsupported"
  \/ r.condition \in {"up to", "over"} /\ FactOf(Wall, e) = {}
Holds(r, e) ==
  \/ r.condition = "none"
  \/ r.condition = "up to" /\ \E w \in FactOf(Wall, e) : w <= r.bound
  \/ r.condition = "over" /\ \E w \in FactOf(Wall, e) : w > r.bound
Nearness(r, e) ==
  CASE r.condition = "up to" -> -(r.bound - CHOOSE w \in FactOf(Wall, e) : TRUE)
    [] r.condition = "over" -> -((CHOOSE w \in FactOf(Wall, e) : TRUE) - r.bound)
    [] OTHER -> 0

Flag(b) == IF b THEN 1 ELSE 0
Rank(r, e) ==
  <<Flag(r.threshold # {}),
    IF r.r_code = Anywhere THEN 1 ELSE 2 * Flag(r.r_code \in Codes(e)),
    Flag(r.condition # "none"), Nearness(r, e), r.age>>
Above(p, q) ==
  \E i \in DOMAIN p : p[i] > q[i] /\ \A j \in 1 .. (i - 1) : p[j] = q[j]

OfCheck(k, e) == {r \in e.rules : r.check = k}

\* Some rule of the check has conditions that the facts leave open, or all that
\* have conditions are ruled out: the check waits for more evidence.
Waits(k, e) ==
  \/ \E r \in OfCheck(k, e) : Undecided(r, e)
  \/ /\ \E r \in OfCheck(k, e) : r.condition # "none"
     /\ \A r \in OfCheck(k, e) : r.condition # "none" => ~Holds(r, e)

\* _select_rule_with_context
Selected(k, e) ==
  IF Waits(k, e) THEN {} ELSE
    LET able == {r \in OfCheck(k, e) : Holds(r, e)} IN
      {r \in able : \A s \in able \ {r} : Above(Rank(r, e), Rank(s, e))}

Disagrees(e) == \E v \in e.live : v.differs # {}

Verdict(k, r, e) ==
  LET measured == FactOf(Measures[k], e) IN
    IF \/ measured = {} \/ r.threshold = {}
       \/ r.operator \notin {">=", "<="} \/ Disagrees(e)
      THEN "needs_more_info"
      ELSE IF \E m \in measured, t \in r.threshold :
                IF r.operator = ">=" THEN m >= t ELSE m <= t
        THEN "likely_pass" ELSE "likely_fail"

\* A check without a rule has no row.
Results(e) ==
  UNION {{[check |-> k, rule |-> r, status |-> Verdict(k, r, e)] :
            r \in Selected(k, e)} : k \in Check}

Advisory(rules) == {r \in rules : r.check \notin Check}

Overall(e, advice) ==
  IF \E x \in Results(e) : x.status = "likely_fail" THEN "has_likely_failures"
    ELSE IF \/ \E x \in Results(e) : x.status = "needs_more_info"
            \/ \E k \in Check : Waits(k, e)
            \/ advice # {}
      THEN "incomplete" ELSE "likely_compliant"

-----------------------------------------------------------------------------
(* run_check                                                               *)

RunFacts ==
  /\ run = NoRun
  /\ Len(runs) < MaxRuns
  /\ run' = [stage |-> "facts", overlapped |-> overlapped,
             read |-> [derived |-> derived, entered |-> entered,
                       live |-> {}, rules |-> {}]]
  /\ UNCHANGED <<tables, clock, saveVars, entries, ruleVars, runs>>

\* Mutant: the verifications are ordered the other way.
VerificationOldest == {x \in live : \A y \in live : x.at <= y.at}

Verification == Newest(live)

RunLive ==
  /\ run.stage = "facts"
  /\ run' = [stage |-> "live", overlapped |-> run.overlapped,
             read |-> [run.read EXCEPT !.live = Verification]]
  /\ UNCHANGED <<tables, clock, saveVars, entries, ruleVars, runs>>

RunRules ==
  /\ run.stage = "live"
  /\ run' = [stage |-> "rules", overlapped |-> run.overlapped,
             read |-> [run.read EXCEPT !.rules = Applicable(run.read)]]
  /\ UNCHANGED <<tables, clock, saveVars, entries, ruleVars, runs>>

\* The advisory rules are read once more; they count and are not stored.
RunCommit ==
  /\ run.stage = "rules"
  /\ runs' = Append(runs,
       [read |-> run.read, overlapped |-> run.overlapped,
        results |-> Results(run.read),
        status |-> Overall(run.read, Advisory(Applicable(run.read)))])
  /\ run' = NoRun
  /\ UNCHANGED <<tables, clock, saveVars, entries, ruleVars>>

Next ==
  \/ \E c \in Client :
       \/ \E p \in Profile, differs \in Layers : SaveRead(c, p, differs)
       \/ SaveFlush(c) \/ SaveFail(c) \/ SaveDelete(c) \/ SaveInsert(c)
       \/ SaveCommit(c)
  \/ \E e \in Entry : Enter(e)
  \/ \E r \in Rule : Review(r)
  \/ RunFacts \/ RunLive \/ RunRules \/ RunCommit

Spec == Init /\ [][Next]_vars

-----------------------------------------------------------------------------
(* Properties                                                              *)

\* As long as no two address requests overlap, the derived facts are those of
\* the property's parcel, each once: none of a parcel the project left, and no
\* duplicates after a second request (synth_property_facts is idempotent).
FactsFollowTheRow ==
  ~overlapped =>
    \/ row = NoRow /\ derived = {}
    \/ row # NoRow /\ row.lot = NoLot /\ derived = {}
    \/ row # NoRow /\ \E b \in derived : b.lot = row.lot /\ derived = {b}

Verdicts(x) == {y \in x.results : y.status \in {"likely_pass", "likely_fail"}}

\* A verdict rests on a live verification in which nothing differs, of the
\* parcel whose facts were read, unless it was made after those facts: facts and
\* verification are read by two statements, between which a save may commit, and
\* the verifications of parcels that the project left before are kept.
VerificationKeepsUp ==
  \A i \in DOMAIN runs :
    LET x == runs[i] IN
      ~x.overlapped /\ Verdicts(x) # {} /\ x.read.derived # {} =>
        /\ LiveVerify => x.read.live # {}
        /\ \A v \in x.read.live :
             /\ v.differs = {}
             /\ \A b \in x.read.derived : v.lot = b.lot \/ v.at > b.at

\* The rule behind a verdict is one for the parcel that was measured: of its
\* council, unless a user entered another, also when overlapping requests left
\* facts of two parcels; of its R-code and structure plan when they did not.
RuleFitsLot ==
  \A i \in DOMAIN runs :
    LET x == runs[i] IN
      \A y \in Verdicts(x), b \in Newest(x.read.derived) :
        /\ \/ y.rule.council \in {Anywhere, Stated[b.lot].local_government}
           \/ \E h \in x.read.entered :
                h.entry.type \in {"council", "local_government"}
        /\ ~x.overlapped =>
             /\ y.rule.r_code \in {Anywhere, Stated[b.lot].r_code}
             /\ y.rule.scoped =>
                  y.rule.plans \cap Stated[b.lot].structure_plan # {}

\* A property whose address has no parcel has no derived facts: written is 0
\* when the project has no resolved parcel (synth_property_facts).
UnresolvedHasNoFacts == row.status = "missing_info" => derived = {}
=============================================================================
