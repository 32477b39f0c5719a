------------------------ MODULE ProjectChecksProofs ------------------------
(***************************************************************************)
(* Theorems of the property and its checks, for any parcels, profiles,     *)
(* rules and bounds, and any number of concurrent address requests; and of *)
(* the compliance panel, for any number of panels and requests.            *)
(***************************************************************************)
EXTENDS ProjectChecks, CompliancePanel, WellFoundedInduction, TLAPS

-----------------------------------------------------------------------------
(* Types                                                                   *)

LEMMA Stages ==
  /\ NoSave.stage = "idle" /\ NoRun.stage = "idle"
  /\ \A s \in ReadSave : s.stage = "read"
  /\ \A s \in OpenSave : s.stage \in Writing
  /\ \A x \in OpenRun : x.stage \in {"facts", "live", "rules"}
  BY DEF NoSave, NoRun, ReadSave, OpenSave, OpenRun

LEMMA SavesByStage ==
  ASSUME TypeOK, NEW c \in Client
  PROVE  /\ save[c].stage = "read" => save[c] \in ReadSave
         /\ save[c].stage \in Writing => save[c] \in OpenSave
         /\ save[c].stage = "idle" => save[c] = NoSave
<1>1. save[c] \in {NoSave} \cup ReadSave \cup OpenSave
  BY DEF TypeOK
<1> QED
  BY <1>1, Stages DEF Writing

LEMMA RunsByStage ==
  ASSUME TypeOK
  PROVE  run # NoRun => run \in OpenRun
  BY DEF TypeOK

LEMMA RowsApart == \A r \in Row : r # NoRow
  BY DEF Row, NoRow, Status

LEMMA WantedTyped ==
  ASSUME NEW s \in ReadSave
  PROVE  Wanted(s) \in Row /\ LotHeld(s) \in Lot \cup {NoLot}
<1>1. s.profile \in Profile /\ s.seen \in Row \cup {NoRow}
  BY DEF ReadSave
<1>2. LotHeld(s) \in Lot \cup {NoLot}
  BY <1>1 DEF LotHeld, Row
<1>3. StatusOf(s.profile, s.differs) \in Status
  BY <1>1, ProfileAssumption DEF StatusOf, Status
<1>4. s.profile.address \in Address /\ s.profile.sourced \in BOOLEAN
  BY <1>1, ProfileAssumption DEF Address
<1> QED
  BY <1>2, <1>3, <1>4 DEF Wanted, Row

LEMMA MergedTyped ==
  ASSUME TypeOK, NEW s \in ReadSave, s.seen = NoRow \/ row # NoRow
  PROVE  Merged(s) \in Row
<1>1. Wanted(s) \in Row
  BY WantedTyped
<1>2. CASE s.seen = NoRow
  BY <1>1, <1>2 DEF Merged
<1>3. CASE s.seen # NoRow
  <2>1. row \in Row
    BY <1>3 DEF TypeOK
  <2> DEFINE w == Wanted(s)
             a == Column(w.address, s.seen.address, row.address)
             t == Column(w.status, s.seen.status, row.status)
             l == Column(w.lot, s.seen.lot, row.lot)
             o == Column(w.sourced, s.seen.sourced, row.sourced)
  <2>2. a \in Address /\ t \in Status /\ l \in Lot \cup {NoLot} /\ o \in BOOLEAN
    BY <1>1, <2>1 DEF Column, Row
  <2>3. Merged(s) = [address |-> a, status |-> t, lot |-> l, sourced |-> o]
    BY <1>3 DEF Merged
  <2> QED
    BY <2>2, <2>3 DEF Row
<1> QED
  BY <1>2, <1>3

LEMMA VerifiedTyped ==
  ASSUME clock \in Nat, NEW s \in ReadSave
  PROVE  /\ Verified(s.profile, s.differs) \in SUBSET Live
         /\ {[entry |-> e, at |-> clock] : e \in s.profile.manual} \in SUBSET Hand
<1>1. s.profile \in Profile /\ s.differs \in Layers
  BY DEF ReadSave
<1>2. s.profile.manual \subseteq Entry
  BY <1>1, ProfileAssumption
<1> QED
  BY <1>1, <1>2 DEF Verified, Live, Hand

LEMMA FlushedTyped ==
  ASSUME TypeOK, NEW s \in ReadSave, s.seen = NoRow \/ row # NoRow
  PROVE  [stage |-> "flushed", lot |-> LotHeld(s), writes |-> Writes(s),
          wrote |-> Merged(s), live |-> Verified(s.profile, s.differs),
          entered |-> {[entry |-> e, at |-> clock] : e \in s.profile.manual},
          doomed |-> {}, made |-> {}] \in OpenSave
<1>1. Writes(s) \in BOOLEAN
  BY ProfileAssumption DEF Writes, ReadSave
<1>2. clock \in Nat
  BY DEF TypeOK
<1> QED
  BY <1>1, <1>2, WantedTyped, MergedTyped, VerifiedTyped DEF OpenSave, Writing

LEMMA MadeTyped ==
  ASSUME clock \in Nat, NEW s \in OpenSave
  PROVE  Made(s) \in SUBSET Batch
  BY DEF Made, Batch

LEMMA DeletingTyped ==
  ASSUME NEW s \in OpenSave, NEW D \in SUBSET Batch
  PROVE  [s EXCEPT !.stage = "deleting", !.doomed = D] \in OpenSave
  BY DEF OpenSave, Writing

LEMMA InsertedTyped ==
  ASSUME NEW s \in OpenSave, NEW M \in SUBSET Batch
  PROVE  [s EXCEPT !.stage = "inserted", !.made = M] \in OpenSave
  BY DEF OpenSave, Writing

LEMMA ResultsTyped ==
  ASSUME NEW e \in Evidence
  PROVE  Results(e) \in SUBSET Result
<1>1. ASSUME NEW k \in Check, NEW r \in Selected(k, e)
      PROVE  [check |-> k, rule |-> r, status |-> Verdict(k, r, e)] \in Result
  <2>1. r \in Rule
    BY <1>1 DEF Selected, OfCheck, Evidence
  <2>2. Verdict(k, r, e) \in {"likely_pass", "likely_fail", "needs_more_info"}
    BY DEF Verdict
  <2> QED
    BY <2>1, <2>2 DEF Result
<1> QED
  BY <1>1 DEF Results

LEMMA OverallTyped == \A e, a : Overall(e, a) \in RunStatus
  BY DEF Overall, RunStatus

LEMMA ApplicableTyped == ASSUME TypeOK, NEW e PROVE Applicable(e) \in SUBSET Rule
  BY DEF Applicable, TypeOK

-----------------------------------------------------------------------------

\* A property that a save has loaded stays.
RowStays ==
  \A c \in Client :
    save[c].stage = "read" /\ save[c].seen # NoRow => row # NoRow

TInv == TypeOK /\ RowStays

LEMMA TypeInit == Init => TInv
<1> SUFFICES ASSUME Init PROVE TInv
  OBVIOUS
<1>1. runs \in Seq(DoneRun)
  BY DEF Init
<1>2. save \in [Client -> {NoSave} \cup ReadSave \cup OpenSave]
  BY DEF Init
<1>3. 0 \in 0 .. MaxSaves /\ 0 \in 0 .. MaxEntries /\ 0 \in 0 .. MaxReviews
  BY BoundAssumption
<1>4. TypeOK
  BY <1>1, <1>2, <1>3 DEF Init, TypeOK
<1>5. RowStays
  BY DEF Init, RowStays, NoSave
<1> QED
  BY <1>4, <1>5 DEF TInv

\* Types of the requests, and of the runs.
SaveTypes ==
  /\ save \in [Client -> {NoSave} \cup ReadSave \cup OpenSave]
  /\ saves \in 0 .. MaxSaves
  /\ overlapped \in BOOLEAN
RunTypes == run \in {NoRun} \cup OpenRun /\ runs \in Seq(DoneRun)
TableTypes ==
  /\ row \in Row \cup {NoRow}
  /\ derived \in SUBSET Batch
  /\ live \in SUBSET Live
  /\ entered \in SUBSET Hand

LEMMA TypeParts ==
  TypeOK <=> /\ TableTypes /\ SaveTypes /\ RunTypes /\ clock \in Nat
             /\ entries \in 0 .. MaxEntries /\ approved \in SUBSET Rule
             /\ reviews \in 0 .. MaxReviews
  BY DEF TypeOK, TableTypes, SaveTypes, RunTypes

\* A step that changes the request of one client only.
LEMMA OneSave ==
  ASSUME TInv, NEW c \in Client, NEW s \in {NoSave} \cup ReadSave \cup OpenSave,
         save' = [save EXCEPT ![c] = s],
         s.stage = "read" => s.seen = row,
         row' # NoRow \/ row' = row
  PROVE  /\ save' \in [Client -> {NoSave} \cup ReadSave \cup OpenSave]
         /\ RowStays'
<1>1. save' \in [Client -> {NoSave} \cup ReadSave \cup OpenSave]
  BY DEF TInv, TypeOK
<1>2. ASSUME NEW d \in Client, save'[d].stage = "read", save'[d].seen # NoRow
      PROVE  row' # NoRow
  <2>1. CASE d = c
    BY <1>2, <2>1 DEF TInv, TypeOK
  <2>2. CASE d # c
    BY <1>2, <2>2 DEF TInv, TypeOK, RowStays
  <2> QED
    BY <2>1, <2>2
<1> QED
  BY <1>1, <1>2 DEF RowStays

LEMMA TypeSave ==
  ASSUME TInv, NEW c \in Client,
         \/ \E p \in Profile, differs \in Layers : SaveRead(c, p, differs)
         \/ SaveFlush(c) \/ SaveFail(c) \/ SaveDelete(c) \/ SaveInsert(c)
         \/ SaveCommit(c)
  PROVE  TInv'
<1>a. TypeOK /\ TableTypes /\ SaveTypes /\ RunTypes /\ clock \in Nat
  BY TypeParts DEF TInv
<1>1. ASSUME NEW p \in Profile, NEW differs \in Layers, SaveRead(c, p, differs)
      PROVE  TInv'
  <2> DEFINE s == [stage |-> "read", profile |-> p, differs |-> differs,
                   seen |-> row]
  <2>1. s \in ReadSave /\ s.seen = row
    BY <1>a DEF ReadSave, TableTypes
  <2>2. save' = [save EXCEPT ![c] = s] /\ row' = row
    BY <1>1 DEF SaveRead, tables
  <2> HIDE DEF s
  <2>3. save' \in [Client -> {NoSave} \cup ReadSave \cup OpenSave] /\ RowStays'
    BY <2>1, <2>2, OneSave
  <2>4. saves' \in 0 .. MaxSaves /\ overlapped' \in BOOLEAN
    BY <1>1, <1>a, BoundAssumption DEF SaveRead, SaveTypes
  <2> QED
    BY <1>1, <1>a, <2>3, <2>4
    DEF TInv, SaveRead, TypeOK, tables, ruleVars, runVars
<1>2. ASSUME SaveFlush(c) PROVE TInv'
  <2>1. save[c] \in ReadSave /\ (save[c].seen = NoRow \/ row # NoRow)
    BY <1>2, <1>a, SavesByStage DEF SaveFlush, TInv, RowStays
  <2> DEFINE s == [stage |-> "flushed", lot |-> LotHeld(save[c]),
                   writes |-> Writes(save[c]), wrote |-> Merged(save[c]),
                   live |-> Verified(save[c].profile, save[c].differs),
                   entered |-> {[entry |-> e, at |-> clock] :
                                  e \in save[c].profile.manual},
                   doomed |-> {}, made |-> {}]
  <2>2. s \in OpenSave
    BY <1>a, <2>1, FlushedTyped
  <2>3. save' = [save EXCEPT ![c] = s] /\ s.stage # "read" /\ row' = row
    BY <1>2 DEF SaveFlush, tables
  <2> HIDE DEF s
  <2>4. SaveTypes' /\ RowStays'
    BY <1>2, <1>a, <2>2, <2>3, OneSave DEF SaveFlush, SaveTypes
  <2> QED
    BY <1>2, <1>a, <2>4, TypeParts
    DEF TInv, SaveFlush, TypeOK, SaveTypes, tables, ruleVars, runVars
<1>3. ASSUME SaveFail(c) PROVE TInv'
  <2>1. NoSave.stage # "read"
    BY DEF NoSave
  <2>2. SaveTypes' /\ RowStays'
    BY <1>3, <1>a, <2>1, OneSave DEF SaveFail, SaveTypes, tables
  <2> QED
    BY <1>3, <1>a, <2>2, TypeParts
    DEF TInv, SaveFail, TypeOK, SaveTypes, tables, ruleVars, runVars
<1>4. ASSUME SaveDelete(c) PROVE TInv'
  <2> DEFINE s == [save[c] EXCEPT !.stage = "deleting", !.doomed = Doomed]
  <2>1. save[c] \in OpenSave
    BY <1>4, <1>a, SavesByStage DEF SaveDelete, Writing
  <2>2. s \in OpenSave
    BY <1>a, <2>1, DeletingTyped DEF Doomed, TableTypes
  <2>3. save' = [save EXCEPT ![c] = s] /\ s.stage # "read" /\ row' = row
    BY <1>4, <1>a, <2>2, Stages DEF SaveDelete, tables, SaveTypes, Writing
  <2> HIDE DEF s
  <2>4. SaveTypes' /\ RowStays'
    BY <1>4, <1>a, <2>2, <2>3, OneSave DEF SaveDelete, SaveTypes
  <2> QED
    BY <1>4, <1>a, <2>4, TypeParts
    DEF TInv, SaveDelete, TypeOK, SaveTypes, tables, ruleVars, runVars
<1>5. ASSUME SaveInsert(c) PROVE TInv'
  <2> DEFINE s == [save[c] EXCEPT !.stage = "inserted", !.made = Made(save[c])]
  <2>1. save[c] \in OpenSave
    BY <1>5, <1>a, SavesByStage DEF SaveInsert, Writing
  <2>2. s \in OpenSave
    BY <1>a, <2>1, MadeTyped, InsertedTyped
  <2>3. save' = [save EXCEPT ![c] = s] /\ s.stage # "read" /\ row' = row
    BY <1>5, <2>2, Stages DEF SaveInsert, tables, Writing
  <2> HIDE DEF s
  <2>4. SaveTypes' /\ RowStays'
    BY <1>5, <1>a, <2>2, <2>3, OneSave DEF SaveInsert, SaveTypes
  <2> QED
    BY <1>5, <1>a, <2>4, TypeParts
    DEF TInv, SaveInsert, TypeOK, SaveTypes, tables, ruleVars, runVars
<1>6. ASSUME SaveCommit(c) PROVE TInv'
  <2>1. save[c] \in OpenSave
    BY <1>6, <1>a, SavesByStage DEF SaveCommit, Writing
  <2>2. TableTypes' /\ (row' # NoRow \/ row' = row)
    BY <1>6, <1>a, <2>1, RowsApart DEF SaveCommit, TableTypes, OpenSave
  <2>3. SaveTypes' /\ RowStays'
    BY <1>6, <1>a, <2>2, OneSave DEF SaveCommit, SaveTypes, NoSave
  <2>4. RunTypes'
    BY <1>6, <1>a DEF SaveCommit, RunTypes, runVars
  <2> QED
    BY <1>6, <1>a, <2>2, <2>3, <2>4
    DEF TInv, SaveCommit, TypeOK, TableTypes, SaveTypes, RunTypes, ruleVars
<1> QED
  BY <1>1, <1>2, <1>3, <1>4, <1>5, <1>6

LEMMA TypeOther ==
  ASSUME TInv,
         \/ \E e \in Entry : Enter(e)
         \/ \E r \in Rule : Review(r)
         \/ RunFacts \/ RunLive \/ RunRules \/ RunCommit
         \/ UNCHANGED vars
  PROVE  TInv'
<1>a. TypeOK /\ TableTypes /\ SaveTypes /\ RunTypes /\ clock \in Nat
      /\ approved \in SUBSET Rule
  BY TypeParts DEF TInv
<1>1. ASSUME NEW e \in Entry, Enter(e) PROVE TInv'
  <2> DEFINE old == Newest({x \in entered : x.entry.type = e.type})
  <2>1. old \in SUBSET Hand
    BY <1>a DEF Newest, TableTypes
  <2>2. entered' \in SUBSET Hand /\ clock' \in Nat
    BY <1>1, <1>a, <2>1 DEF Enter, Hand, TableTypes
  <2>3. entries' \in 0 .. MaxEntries
    BY <1>1, <1>a, BoundAssumption DEF Enter, TypeOK
  <2> QED
    BY <1>1, <1>a, <2>2, <2>3
    DEF TInv, Enter, TypeOK, saveVars, ruleVars, runVars, RowStays
<1>2. ASSUME NEW r \in Rule, Review(r) PROVE TInv'
  <2>1. approved' \in SUBSET Rule /\ reviews' \in 0 .. MaxReviews
    BY <1>2, <1>a, BoundAssumption DEF Review, TypeOK
  <2> QED
    BY <1>2, <1>a, <2>1 DEF TInv, Review, TypeOK, tables, saveVars, runVars, RowStays
<1>3. ASSUME RunFacts PROVE TInv'
  <2>1. RunTypes'
    BY <1>3, <1>a DEF RunFacts, RunTypes, OpenRun, Evidence, TableTypes, SaveTypes
  <2> QED
    BY <1>3, <1>a, <2>1
    DEF TInv, TableTypes, SaveTypes, RunTypes, RunFacts, TypeOK, tables, saveVars, ruleVars, RowStays
<1>4. ASSUME RunLive PROVE TInv'
  <2>1. run \in OpenRun
    BY <1>4, <1>a, Stages DEF RunLive, RunTypes
  <2>2. Verification \in SUBSET Live
    BY <1>a DEF Verification, Newest, TableTypes
  <2>3. RunTypes'
    BY <1>4, <1>a, <2>1, <2>2 DEF RunLive, RunTypes, OpenRun, Evidence
  <2> QED
    BY <1>4, <1>a, <2>3
    DEF TInv, TableTypes, SaveTypes, RunTypes, RunLive, TypeOK, tables, saveVars, ruleVars, RowStays
<1>5. ASSUME RunRules PROVE TInv'
  <2>1. run \in OpenRun
    BY <1>5, <1>a, Stages DEF RunRules, RunTypes
  <2>2. Applicable(run.read) \in SUBSET Rule
    BY <1>a, ApplicableTyped
  <2>3. RunTypes'
    BY <1>5, <1>a, <2>1, <2>2 DEF RunRules, RunTypes, OpenRun, Evidence
  <2> QED
    BY <1>5, <1>a, <2>3
    DEF TInv, TableTypes, SaveTypes, RunTypes, RunRules, TypeOK, tables, saveVars, ruleVars, RowStays
<1>6. ASSUME RunCommit PROVE TInv'
  <2>1. run \in OpenRun
    BY <1>6, <1>a, Stages DEF RunCommit, RunTypes
  <2>2. run.read \in Evidence /\ run.overlapped \in BOOLEAN
    BY <2>1 DEF OpenRun
  <2> DEFINE done == [read |-> run.read, overlapped |-> run.overlapped,
                      results |-> Results(run.read),
                      status |-> Overall(run.read, Advisory(Applicable(run.read)))]
  <2>3. done \in DoneRun
    BY <2>2, ResultsTyped, OverallTyped DEF DoneRun
  <2>4. runs' = Append(runs, done) /\ run' = NoRun
    BY <1>6 DEF RunCommit
  <2> HIDE DEF done
  <2>5. RunTypes'
    BY <1>a, <2>3, <2>4 DEF RunTypes
  <2> QED
    BY <1>6, <1>a, <2>5
    DEF TInv, TableTypes, SaveTypes, RunTypes, RunCommit, TypeOK, tables, saveVars, ruleVars, RowStays
<1>7. ASSUME UNCHANGED vars PROVE TInv'
  BY <1>7, <1>a
  DEF TInv, vars, tables, saveVars, ruleVars, runVars, TypeOK, RowStays
<1> QED
  BY <1>1, <1>2, <1>3, <1>4, <1>5, <1>6, <1>7

LEMMA TypeNext == TInv /\ [Next]_vars => TInv'
  BY TypeSave, TypeOther DEF Next

\* Every request, entry, review and check run leaves the tables and the open
\* transactions well formed; a row that a save loaded is still there when the
\* save writes the columns that differ.
THEOREM ProjectTyping == Spec => []TypeOK
<1>1. Spec => []TInv
  BY TypeInit, TypeNext, PTL DEF Spec
<1> QED
  BY <1>1, PTL DEF TInv

-----------------------------------------------------------------------------
(* One request at a time                                                   *)

AlwaysOne == \A c, d \in Client : save[c] # NoSave /\ save[d] # NoSave => c = d

\* The batches of a save are those of the parcel it holds.
OfLot(s) ==
  \/ s.lot = NoLot /\ s.made = {}
  \/ s.lot \in Lot /\ \E b \in s.made : b.lot = s.lot /\ s.made = {b}

\* What an open request holds is what is stored.
Current(s) ==
  /\ s.stage = "read" => s.seen = row
  /\ s.stage \in Writing =>
       /\ s.wrote.lot = s.lot
       /\ ~s.writes => row # NoRow /\ row.lot = s.lot
  /\ s.stage \in {"deleting", "inserted"} => s.doomed = derived
  /\ s.stage = "inserted" => OfLot(s)

Following ==
  \/ row = NoRow /\ derived = {}
  \/ row # NoRow /\ row.lot = NoLot /\ derived = {}
  \/ row # NoRow /\ \E b \in derived : b.lot = row.lot /\ derived = {b}

Serial == ~overlapped => AlwaysOne /\ Following /\ \A c \in Client : Current(save[c])

LEMMA SerialInit == Init => Serial
  BY DEF Init, Serial, AlwaysOne, Following, Current, NoSave, Writing

\* The merged row of a save that nothing came between has the parcel it holds.
LEMMA MergedLot ==
  ASSUME TypeOK, NEW s \in ReadSave, s.seen = row
  PROVE  /\ Merged(s).lot = LotHeld(s)
         /\ ~Writes(s) => row # NoRow /\ row.lot = LotHeld(s)
<1>1. Wanted(s).lot = LotHeld(s) /\ Wanted(s) # NoRow
  BY WantedTyped, RowsApart DEF Wanted
<1>2. Merged(s).lot = LotHeld(s)
  BY <1>1 DEF Merged, Column
<1>3. ~Writes(s) => row = Wanted(s)
  BY DEF Writes
<1> QED
  BY <1>1, <1>2, <1>3

LEMMA SerialSave ==
  ASSUME TInv, Serial, NEW c \in Client,
         \/ \E p \in Profile, differs \in Layers : SaveRead(c, p, differs)
         \/ SaveFlush(c) \/ SaveFail(c) \/ SaveDelete(c) \/ SaveInsert(c)
         \/ SaveCommit(c)
  PROVE  Serial'
<1> SUFFICES ASSUME ~overlapped' PROVE (AlwaysOne /\ Following)'
                                       /\ \A d \in Client : Current(save[d])'
  BY DEF Serial
<1>0. ~overlapped
  BY DEF SaveRead, SaveFlush, SaveFail, SaveDelete, SaveInsert, SaveCommit
<1>a. AlwaysOne /\ Following /\ \A d \in Client : Current(save[d])
  BY <1>0 DEF Serial
<1>b. save \in [Client -> {NoSave} \cup ReadSave \cup OpenSave] /\ TypeOK
  BY DEF TInv, TypeOK
<1>c. NoSave.stage = "idle" /\ Current(NoSave) /\ Current(NoSave)'
  BY DEF NoSave, Current, Writing
<1>1. ASSUME NEW p \in Profile, NEW differs \in Layers, SaveRead(c, p, differs)
      PROVE  (AlwaysOne /\ Following)' /\ \A d \in Client : Current(save[d])'
  <2>1. \A d \in Client : save[d] = NoSave
    BY <1>1, <1>0 DEF SaveRead
  <2>2. \A d \in Client : d # c => save'[d] = NoSave
    BY <1>1, <1>b, <2>1 DEF SaveRead
  <2>3. save'[c].stage = "read" /\ save'[c].seen = row'
    BY <1>1, <1>b DEF SaveRead, tables
  <2>4. Current(save[c])'
    BY <2>3 DEF Current, Writing
  <2> QED
    BY <1>1, <1>a, <1>c, <2>2, <2>4 DEF SaveRead, AlwaysOne, Following, Current, tables
<1>2. ASSUME save[c] # NoSave PROVE \A d \in Client : d # c => save[d] = NoSave
  BY <1>2, <1>a DEF AlwaysOne
<1>3. ASSUME SaveFlush(c)
      PROVE  (AlwaysOne /\ Following)' /\ \A d \in Client : Current(save[d])'
  <2>1. save[c] \in ReadSave /\ save[c] # NoSave /\ save[c].seen = row
    BY <1>3, <1>a, <1>b, <1>c, SavesByStage DEF SaveFlush, Current
  <2>2. \A d \in Client : d # c => save'[d] = NoSave
    BY <1>2, <1>3, <1>b, <2>1 DEF SaveFlush
  <2>3. /\ save'[c].stage = "flushed" /\ save'[c].lot = LotHeld(save[c])
        /\ save'[c].writes = Writes(save[c]) /\ save'[c].wrote = Merged(save[c])
    BY <1>3, <1>b DEF SaveFlush
  <2>4. row' = row /\ derived' = derived
    BY <1>3 DEF SaveFlush, tables
  <2>5. Current(save[c])'
    BY <1>b, <2>1, <2>3, <2>4, MergedLot DEF Current, Writing
  <2> QED
    BY <1>a, <1>c, <2>2, <2>4, <2>5 DEF AlwaysOne, Following
<1>4. ASSUME SaveFail(c)
      PROVE  (AlwaysOne /\ Following)' /\ \A d \in Client : Current(save[d])'
  <2>1. save[c].seen = row
    BY <1>4, <1>a DEF SaveFail, Current
  <2> QED
    BY <1>4, <2>1 DEF SaveFail
<1>5. ASSUME SaveDelete(c)
      PROVE  (AlwaysOne /\ Following)' /\ \A d \in Client : Current(save[d])'
  <2>1. save[c] \in OpenSave /\ save[c] # NoSave
    BY <1>5, <1>b, <1>c, SavesByStage DEF SaveDelete, Writing
  <2>2. \A d \in Client : d # c => save'[d] = NoSave
    BY <1>2, <1>5, <1>b, <2>1 DEF SaveDelete
  <2>3. save'[c] = [save[c] EXCEPT !.stage = "deleting", !.doomed = derived]
    BY <1>5, <1>b DEF SaveDelete, Doomed
  <2>4. /\ save'[c].stage = "deleting" /\ save'[c].lot = save[c].lot
        /\ save'[c].writes = save[c].writes /\ save'[c].wrote = save[c].wrote
        /\ save'[c].doomed = derived
    BY <2>1, <2>3 DEF OpenSave
  <2>5. row' = row /\ derived' = derived
    BY <1>5 DEF SaveDelete, tables
  <2>6. Current(save[c])'
    BY <1>5, <1>a, <2>4, <2>5 DEF Current, Writing, SaveDelete
  <2> QED
    BY <1>a, <1>c, <2>2, <2>5, <2>6 DEF AlwaysOne, Following
<1>6. ASSUME SaveInsert(c)
      PROVE  (AlwaysOne /\ Following)' /\ \A d \in Client : Current(save[d])'
  <2>1. save[c] \in OpenSave /\ save[c] # NoSave
    BY <1>6, <1>b, <1>c, SavesByStage DEF SaveInsert, Writing
  <2>2. \A d \in Client : d # c => save'[d] = NoSave
    BY <1>2, <1>6, <1>b, <2>1 DEF SaveInsert
  <2>3. save'[c] = [save[c] EXCEPT !.stage = "inserted", !.made = Made(save[c])]
    BY <1>6, <1>b DEF SaveInsert
  <2>4. /\ save'[c].stage = "inserted" /\ save'[c].lot = save[c].lot
        /\ save'[c].writes = save[c].writes /\ save'[c].wrote = save[c].wrote
        /\ save'[c].doomed = save[c].doomed /\ save'[c].made = Made(save[c])
    BY <2>1, <2>3 DEF OpenSave
  <2>5. row' = row /\ derived' = derived
    BY <1>6 DEF SaveInsert, tables
  <2>6. OfLot(save'[c])
    BY <2>1, <2>4, LotAssumption DEF OfLot, Made, OpenSave
  <2>7. Current(save[c])'
    BY <1>6, <1>a, <2>4, <2>5, <2>6 DEF Current, Writing, SaveInsert, OfLot
  <2> QED
    BY <1>a, <1>c, <2>2, <2>5, <2>7 DEF AlwaysOne, Following
<1>7. ASSUME SaveCommit(c)
      PROVE  (AlwaysOne /\ Following)' /\ \A d \in Client : Current(save[d])'
  <2>1. save[c] \in OpenSave /\ save[c] # NoSave
    BY <1>7, <1>b, <1>c, SavesByStage DEF SaveCommit, Writing
  <2>2. \A d \in Client : save'[d] = NoSave
    BY <1>2, <1>7, <1>b, <2>1 DEF SaveCommit
  <2>3. /\ save[c].wrote.lot = save[c].lot /\ save[c].doomed = derived
        /\ ~save[c].writes => row # NoRow /\ row.lot = save[c].lot
        /\ OfLot(save[c]) /\ save[c].wrote \in Row
    BY <1>7, <1>a, <2>1 DEF Current, Writing, SaveCommit, OpenSave
  <2>4. row' # NoRow /\ row'.lot = save[c].lot
    BY <1>7, <2>3, RowsApart DEF SaveCommit
  <2>5. derived' = save[c].made
    BY <1>7, <2>3 DEF SaveCommit
  <2>6. Following'
    BY <2>3, <2>4, <2>5 DEF Following, OfLot
  <2> QED
    BY <1>c, <2>2, <2>6 DEF AlwaysOne
<1> QED
  BY <1>1, <1>3, <1>4, <1>5, <1>6, <1>7

LEMMA SerialOther ==
  ASSUME Serial,
         \/ \E e \in Entry : Enter(e)
         \/ \E r \in Rule : Review(r)
         \/ RunFacts \/ RunLive \/ RunRules \/ RunCommit
         \/ UNCHANGED vars
  PROVE  Serial'
<1>1. UNCHANGED <<row, derived, save, overlapped>>
  BY DEF Enter, Review, RunFacts, RunLive, RunRules, RunCommit, vars, tables, saveVars
<1> QED
  BY <1>1 DEF Serial, AlwaysOne, Following, Current, OfLot

LEMMA SerialNext == TInv /\ Serial /\ [Next]_vars => Serial'
  BY SerialSave, SerialOther DEF Next

\* However many address requests there were, as long as no two overlapped the
\* derived facts are those of the property's parcel, each once.
THEOREM FactsAreTheParcels == Spec => []FactsFollowTheRow
<1>1. TInv /\ Serial => FactsFollowTheRow
  BY DEF Serial, Following, FactsFollowTheRow
<1>2. Init => TInv /\ Serial
  BY TypeInit, SerialInit
<1>3. TInv /\ Serial /\ [Next]_vars => (TInv /\ Serial)'
  BY TypeNext, SerialNext
<1> QED
  BY <1>1, <1>2, <1>3, PTL DEF Spec

-----------------------------------------------------------------------------
(* The greatest of some numbers                                            *)

LEMMA HasLeast ==
  ASSUME NEW S \in SUBSET Nat, S # {}
  PROVE  \E x \in S : \A y \in S : x <= y
<1> DEFINE R == {ss \in Nat \X Nat : ss[1] < ss[2]}
<1>1. IsWellFoundedOn(R, Nat)
  BY NatLessThanWellFounded DEF OpToRel
<1> HIDE DEF R
<1>2. PICK x \in S : \A y \in S : ~(<<y, x>> \in R)
  BY <1>1, WFMin
<1>3. \A y \in Nat : y < x => <<y, x>> \in R
  BY DEF R
<1>4. \A y \in S : ~(y < x)
  BY <1>2, <1>3
<1> QED
  BY <1>4

LEMMA HasGreatest ==
  ASSUME NEW n \in Nat, NEW S \in SUBSET (0 .. n), S # {}
  PROVE  \E x \in S : \A y \in S : y <= x
<1> DEFINE T == {n - x : x \in S}
<1>1. T \in SUBSET Nat /\ T # {}
  <2>1. \A x \in S : x \in 0 .. n /\ n - x \in Nat
    OBVIOUS
  <2>2. \A t \in T : t \in Nat
    BY <2>1
  <2>3. T # {}
    OBVIOUS
  <2> QED
    BY <2>2, <2>3
<1>2. PICK t \in T : \A u \in T : t <= u
  BY <1>1, HasLeast
<1>3. PICK x \in S : t = n - x
  OBVIOUS
<1>4. \A y \in S : y \in Int /\ n - x <= n - y
  BY <1>2, <1>3
<1> QED
  BY <1>4

-----------------------------------------------------------------------------
(* What a verdict rests on                                                 *)

Dated(S) == \A b, d \in S : b.at = d.at => b = d
AtMostOne(S) == \A b, d \in S : b = d

\* The verifications V are of the parcel whose facts D are.
LotVerified(D, V) ==
  D # {} => /\ LiveVerify => V # {}
            /\ \A v \in V, b \in D : b.lot = v.lot

\* Of the verifications V, those of another parcel are later than the facts D.
KeptUp(D, V) ==
  D # {} => /\ LiveVerify => V # {}
            /\ \A v \in V, b \in D : v.lot = b.lot \/ v.at > b.at

\* What a run has read and selected from holds together.
Founded(e, crossed) ==
  /\ Dated(e.derived)
  /\ ~crossed => AtMostOne(e.derived) /\ KeptUp(e.derived, e.live)
  /\ \A r \in e.rules : Applies(r, e)

Done(x) == Founded(x.read, x.overlapped) /\ x.results = Results(x.read)

LEMMA SameLotKeepsUp == \A D, V : LotVerified(D, V) => KeptUp(D, V)
  BY DEF LotVerified, KeptUp

\* Verifications made before some time have a newest.
LEMMA SomeNewest ==
  ASSUME NEW n \in Nat, NEW V \in SUBSET Live, V # {}, \A v \in V : v.at < n
  PROVE  Newest(V) # {}
<1> DEFINE T == {v.at : v \in V}
<1>1. \A v \in V : v.at \in 0 .. n
  BY DEF Live
<1>2. T \in SUBSET (0 .. n) /\ T # {}
  BY <1>1
<1>3. PICK x \in T : \A y \in T : y <= x
  BY <1>2, HasGreatest
<1>4. PICK v \in V : x = v.at
  OBVIOUS
<1>5. \A w \in V : w.at <= v.at
  BY <1>3, <1>4
<1> QED
  BY <1>5 DEF Newest

LEMMA VerdictRests ==
  ASSUME NEW e, NEW y \in Results(e), y.status \in {"likely_pass", "likely_fail"}
  PROVE  y.rule \in e.rules /\ ~Disagrees(e)
<1>1. PICK k \in Check : \E r \in Selected(k, e) :
        y = [check |-> k, rule |-> r, status |-> Verdict(k, r, e)]
  BY DEF Results
<1> PICK r \in Selected(k, e) :
        y = [check |-> k, rule |-> r, status |-> Verdict(k, r, e)]
  BY <1>1
<1>2. r \in e.rules
  BY DEF Selected, OfCheck
<1>3. Verdict(k, r, e) # "needs_more_info"
  OBVIOUS
<1>4. ~Disagrees(e)
  BY <1>3 DEF Verdict
<1> QED
  BY <1>2, <1>4

LEMMA CouncilOfLot ==
  ASSUME NEW e \in Evidence, Dated(e.derived), NEW b \in Newest(e.derived),
         \A h \in e.entered : h.entry.type \notin {"council", "local_government"}
  PROVE  CouncilScope(e) = {Stated[b.lot].local_government}
<1>1. FactOf("council", e) = {}
  BY DEF FactOf, DerivedType, Newest
<1> DEFINE stated == {[value |-> Stated[d.lot]["local_government"], at |-> d.at] :
                        d \in e.derived}
           own == [value |-> Stated[b.lot]["local_government"], at |-> b.at]
<1>2. FactOf("local_government", e) = {x.value : x \in Newest(stated)}
  <2>1. {y \in e.entered : y.entry.type = "local_government"} = {}
    OBVIOUS
  <2>2. {[value |-> x.entry.value, at |-> x.at] :
           x \in {y \in e.entered : y.entry.type = "local_government"}} = {}
    BY <2>1
  <2> QED
    BY <2>2 DEF FactOf, DerivedType
<1>3. Newest(stated) = {own}
  <2>1. own \in Newest(stated)
    BY DEF Newest
  <2>2. ASSUME NEW x \in Newest(stated) PROVE x = own
    <3>1. PICK d \in e.derived :
            x = [value |-> Stated[d.lot]["local_government"], at |-> d.at]
      BY <2>2 DEF Newest
    <3>2. own \in stated /\ x.at = d.at /\ own.at = b.at
      BY <3>1 DEF Newest
    <3>3. b.at <= d.at /\ d.at <= b.at
      BY <2>2, <3>1, <3>2 DEF Newest
    <3>4. b \in e.derived /\ b.at \in Nat /\ d.at \in Nat
      BY <3>1 DEF Newest, Evidence, Batch
    <3>5. b.at = d.at
      BY <3>3, <3>4
    <3> QED
      BY <3>1, <3>4, <3>5 DEF Dated
  <2> QED
    BY <2>1, <2>2
<1>4. FactOf("local_government", e) = {Stated[b.lot].local_government}
  <2>1. {x.value : x \in {own}} = {Stated[b.lot].local_government}
    OBVIOUS
  <2> HIDE DEF own, stated
  <2> QED
    BY <1>2, <1>3, <2>1
<1> QED
  BY <1>1, <1>4 DEF CouncilScope

LEMMA DoneFits ==
  ASSUME NEW x \in DoneRun, Done(x), NEW y \in Verdicts(x)
  PROVE  /\ \A b \in Newest(x.read.derived) :
              /\ \/ y.rule.council \in {Anywhere, Stated[b.lot].local_government}
                 \/ \E h \in x.read.entered :
                      h.entry.type \in {"council", "local_government"}
              /\ ~x.overlapped =>
                   /\ y.rule.r_code \in {Anywhere, Stated[b.lot].r_code}
                   /\ y.rule.scoped =>
                        y.rule.plans \cap Stated[b.lot].structure_plan # {}
         /\ ~x.overlapped /\ x.read.derived # {} =>
              /\ LiveVerify => x.read.live # {}
              /\ \A v \in x.read.live :
                   /\ v.differs = {}
                   /\ \A b \in x.read.derived : v.lot = b.lot \/ v.at > b.at
<1> DEFINE e == x.read
           r == y.rule
<1>1. r \in e.rules /\ ~Disagrees(e)
  BY VerdictRests DEF Verdicts, Done
<1>2. Applies(r, e) /\ Dated(e.derived)
      /\ (~x.overlapped => AtMostOne(e.derived) /\ KeptUp(e.derived, e.live))
  BY <1>1 DEF Done, Founded
<1>e. e \in Evidence
  BY DEF DoneRun
<1> HIDE DEF e, r
<1>3. ASSUME NEW b \in Newest(e.derived),
             \A h \in e.entered : h.entry.type \notin {"council", "local_government"}
      PROVE  r.council \in {Anywhere, Stated[b.lot].local_government}
  BY <1>2, <1>3, <1>e, CouncilOfLot DEF Applies
<1>4. ASSUME NEW b \in Newest(e.derived), ~x.overlapped
      PROVE  /\ r.r_code \in {Anywhere, Stated[b.lot].r_code}
             /\ r.scoped => r.plans \cap Stated[b.lot].structure_plan # {}
  <2>1. e.derived = {b}
    BY <1>2, <1>4 DEF AtMostOne, Newest
  <2>2. Codes(e) = {Stated[b.lot].r_code}
    BY <2>1 DEF Codes
  <2>3. Plans(e) \subseteq Stated[b.lot].structure_plan
    BY <2>1 DEF Plans
  <2>4. r.r_code \in {Anywhere, Stated[b.lot].r_code}
    BY <1>2, <2>2 DEF Applies
  <2>5. r.scoped => r.plans \cap Stated[b.lot].structure_plan # {}
    BY <1>2, <2>3 DEF Applies, InScope
  <2> QED
    BY <2>4, <2>5
<1>5. ASSUME ~x.overlapped, e.derived # {}
      PROVE  /\ LiveVerify => e.live # {}
             /\ \A v \in e.live :
                  /\ v.differs = {}
                  /\ \A b \in e.derived : v.lot = b.lot \/ v.at > b.at
  BY <1>1, <1>2, <1>5 DEF KeptUp, Disagrees
<1> QED
  BY <1>3, <1>4, <1>5 DEF e, r

-----------------------------------------------------------------------------
(* Times of facts, and verifications while requests run one at a time      *)

MadeBy(s) == IF s.stage \in Writing THEN s.made ELSE {}
Batches == derived \cup UNION {MadeBy(save[c]) : c \in Client}

Times ==
  /\ Dated(Batches)
  /\ \A b \in Batches : b.at < clock
  /\ \A v \in live : v.at < clock
  /\ \A c \in Client : save[c].stage \in Writing =>
       \A v \in save[c].live : v.at < clock

Unverified ==
  ~LiveVerify =>
    live = {} /\ \A c \in Client : save[c].stage \in Writing => save[c].live = {}

\* A save brings the newest verification with its parcel, or keeps the parcel.
Fresh(s) ==
  \/ ~LiveVerify
  \/ s.live = {} /\ (s.lot = NoLot \/ (row # NoRow /\ s.lot = row.lot))
  \/ \E v \in s.live : /\ s.live = {v} /\ v.lot = s.lot
                       /\ \A w \in live : w.at < v.at

SerialLive ==
  ~overlapped =>
    /\ LotVerified(derived, Newest(live))
    /\ \A c \in Client : save[c].stage \in Writing => Fresh(save[c])

\* What open requests verified is later than the facts D.
Ahead(D) ==
  /\ \A b \in D : b.at < clock
  /\ \A c \in Client : save[c].stage \in Writing =>
       \A v \in save[c].live, b \in D : v.at > b.at

\* Neither a save that was open when a run read the facts, nor one that began
\* later, can bring a verification from before those facts.
AheadOfFacts ==
  /\ ~overlapped => Ahead(derived)
  /\ run.stage = "facts" /\ ~run.overlapped => Ahead(run.read.derived)

RunFounded ==
  run # NoRun =>
    /\ Dated(run.read.derived)
    /\ ~run.overlapped =>
         /\ AtMostOne(run.read.derived)
         /\ KeptUp(run.read.derived,
                   IF run.stage = "facts" THEN Newest(live) ELSE run.read.live)
    /\ run.stage = "rules" => \A r \in run.read.rules : Applies(r, run.read)

AllDone == \A i \in DOMAIN runs : Done(runs[i])

IInv ==
  /\ TInv /\ Serial /\ Times /\ Unverified /\ SerialLive
  /\ AheadOfFacts /\ RunFounded /\ AllDone

LEMMA InvInit == Init => IInv
<1> SUFFICES ASSUME Init PROVE IInv
  OBVIOUS
<1>1. TInv /\ Serial
  BY TypeInit, SerialInit
<1>2. \A c \in Client : save[c].stage \notin Writing
  BY DEF Init, NoSave, Writing
<1>3. Batches = {}
  BY <1>2 DEF Batches, MadeBy, Init
<1>4. Times /\ Unverified /\ SerialLive
  BY <1>2, <1>3 DEF Times, Dated, Unverified, SerialLive, LotVerified, Init
<1>5. RunFounded /\ AllDone
  BY DEF RunFounded, AllDone, Init
<1>6. AheadOfFacts
  BY <1>2, Stages DEF AheadOfFacts, Ahead, Init
<1> QED
  BY <1>1, <1>4, <1>5, <1>6 DEF IInv

LEMMA AppliesOfRead ==
  ASSUME NEW e \in Evidence, NEW R \in SUBSET Rule, NEW r
  PROVE  Applies(r, [e EXCEPT !.rules = R]) <=> Applies(r, e)
<1> DEFINE f == [e EXCEPT !.rules = R]
<1>1. f.derived = e.derived /\ f.entered = e.entered /\ f.live = e.live
  BY DEF Evidence
<1> HIDE DEF f
<1>2. /\ FactOf("council", f) = FactOf("council", e)
      /\ FactOf("local_government", f) = FactOf("local_government", e)
  BY <1>1 DEF FactOf
<1>3. CouncilScope(f) = CouncilScope(e)
  BY <1>2 DEF CouncilScope
<1>4. Codes(f) = Codes(e) /\ Plans(f) = Plans(e)
  BY <1>1 DEF Codes, Plans
<1>5. Applies(r, f) <=> Applies(r, e)
  BY <1>3, <1>4 DEF Applies, InScope
<1> QED
  BY <1>5 DEF f

\* What the tables of facts and the open requests hold of times.
LEMMA TimesKept ==
  ASSUME Times, clock \in Nat, clock' \in Nat, clock <= clock',
         Batches' \subseteq Batches, Batches \subseteq Batch, live \subseteq Live,
         live' = live,
         \A c \in Client : save'[c].stage \in Writing =>
           \/ save[c].stage \in Writing /\ save'[c].live = save[c].live
           \/ \A v \in save'[c].live : v.at < clock',
         \A c \in Client : save[c].stage \in Writing => save[c].live \subseteq Live
  PROVE  Times'
<1>1. Dated(Batches')
  BY DEF Times, Dated
<1>2. ASSUME NEW b \in Batches' PROVE b.at < clock'
  <2>1. b.at < clock /\ b.at \in Nat
    BY DEF Times, Batch
  <2> QED
    BY <2>1
<1>3. ASSUME NEW v \in live' PROVE v.at < clock'
  <2>1. v.at < clock /\ v.at \in Nat
    BY DEF Times, Live
  <2> QED
    BY <2>1
<1>4. ASSUME NEW c \in Client, save'[c].stage \in Writing, NEW v \in save'[c].live
      PROVE  v.at < clock'
  <2>1. CASE save[c].stage \in Writing /\ save'[c].live = save[c].live
    <3>1. v.at < clock /\ v.at \in Nat
      BY <1>4, <2>1 DEF Times, Live
    <3> QED
      BY <3>1
  <2>2. CASE \A w \in save'[c].live : w.at < clock'
    BY <1>4, <2>2
  <2> QED
    BY <1>4, <2>1, <2>2
<1>5. Dated(Batches)'
  BY <1>1 DEF Dated
<1> QED
  BY <1>2, <1>3, <1>4, <1>5 DEF Times

LEMMA BatchesTyped ==
  ASSUME TypeOK
  PROVE  /\ Batches \subseteq Batch /\ live \subseteq Live
         /\ \A c \in Client : save[c].stage \in Writing => save[c].live \subseteq Live
<1>1. \A c \in Client : save[c].stage \in Writing =>
        save[c].made \subseteq Batch /\ save[c].live \subseteq Live
  BY SavesByStage DEF OpenSave
<1>2. derived \subseteq Batch /\ live \subseteq Live
  BY DEF TypeOK
<1> QED
  BY <1>1, <1>2 DEF Batches, MadeBy

LEMMA TimesSave ==
  ASSUME TInv, TInv', Times, NEW c \in Client,
         \/ \E p \in Profile, differs \in Layers : SaveRead(c, p, differs)
         \/ SaveFlush(c) \/ SaveFail(c) \/ SaveDelete(c)
  PROVE  Times'
<1>a. /\ save \in [Client -> {NoSave} \cup ReadSave \cup OpenSave]
      /\ clock \in Nat /\ clock' \in Nat /\ TypeOK
  BY DEF TInv, TypeOK
<1>1. UNCHANGED <<derived, live>> /\ clock <= clock'
  BY <1>a DEF SaveRead, SaveFlush, SaveFail, SaveDelete, tables
<1>2. \A d \in Client : d # c => save'[d] = save[d]
  BY <1>a DEF SaveRead, SaveFlush, SaveFail, SaveDelete
<1>3. MadeBy(save'[c]) \subseteq MadeBy(save[c])
      /\ (save'[c].stage \in Writing =>
            \/ save[c].stage \in Writing /\ save'[c].live = save[c].live
            \/ \A v \in save'[c].live : v.at < clock')
  <2>1. CASE \E p \in Profile, differs \in Layers : SaveRead(c, p, differs)
    BY <1>a, <2>1 DEF SaveRead, MadeBy, Writing
  <2>2. CASE SaveFlush(c)
    <3>1. save'[c].made = {} /\ save'[c].stage = "flushed"
          /\ save'[c].live = Verified(save[c].profile, save[c].differs)
          /\ clock' = clock + 1
      BY <1>a, <2>2 DEF SaveFlush
    <3>2. \A v \in Verified(save[c].profile, save[c].differs) : v.at = clock
      BY DEF Verified
    <3> QED
      BY <1>a, <3>1, <3>2 DEF MadeBy
  <2>3. CASE SaveFail(c)
    BY <1>a, <2>3 DEF SaveFail, NoSave, MadeBy, Writing
  <2>4. CASE SaveDelete(c)
    <3>1. save[c] \in OpenSave
      BY <2>4, <1>a, SavesByStage DEF SaveDelete, Writing
    <3>2. save'[c] = [save[c] EXCEPT !.stage = "deleting", !.doomed = Doomed]
      BY <1>a, <2>4 DEF SaveDelete
    <3>3. save'[c].made = save[c].made /\ save'[c].live = save[c].live
      BY <3>1, <3>2 DEF OpenSave
    <3> QED
      BY <2>4, <3>3 DEF MadeBy, SaveDelete, Writing
  <2> QED
    BY <2>1, <2>2, <2>3, <2>4
<1>4. Batches' \subseteq Batches
  BY <1>1, <1>2, <1>3 DEF Batches, MadeBy
<1> QED
  BY <1>a, <1>1, <1>2, <1>3, <1>4, BatchesTyped, TimesKept

LEMMA TimesInsert ==
  ASSUME TInv, TInv', Times, NEW c \in Client, SaveInsert(c)
  PROVE  Times'
<1>a. /\ save \in [Client -> {NoSave} \cup ReadSave \cup OpenSave]
      /\ clock \in Nat /\ clock' = clock + 1 /\ TypeOK
  BY DEF TInv, TypeOK, SaveInsert
<1>1. UNCHANGED <<derived, live>>
  BY DEF SaveInsert, tables
<1>2. save[c] \in OpenSave
  BY <1>a, SavesByStage DEF SaveInsert, Writing
<1>3. save'[c] = [save[c] EXCEPT !.stage = "inserted", !.made = Made(save[c])]
      /\ \A d \in Client : d # c => save'[d] = save[d]
  BY <1>a DEF SaveInsert
<1>4. save'[c].made = Made(save[c]) /\ save'[c].live = save[c].live
  BY <1>2, <1>3 DEF OpenSave
<1>5. Batches' \subseteq Batches \cup Made(save[c])
  BY <1>1, <1>3, <1>4 DEF Batches, MadeBy
<1>6. \A b, d \in Made(save[c]) : b = d /\ b.at = clock
  BY DEF Made
<1>7. \A b \in Batches : b.at < clock /\ b.at \in Nat
  BY <1>a, BatchesTyped DEF Times, Batch
<1>8. Dated(Batches)'
  <2> SUFFICES ASSUME NEW b \in Batches', NEW d \in Batches', b.at = d.at
               PROVE  b = d
    BY DEF Dated
  <2>1. CASE b \in Batches /\ d \in Batches
    BY <2>1 DEF Times, Dated
  <2>2. CASE b \in Made(save[c]) /\ d \in Made(save[c])
    BY <1>6, <2>2
  <2>3. CASE b \in Batches /\ d \in Made(save[c])
    BY <1>a, <1>6, <1>7, <2>3
  <2>4. CASE b \in Made(save[c]) /\ d \in Batches
    BY <1>a, <1>6, <1>7, <2>4
  <2> QED
    BY <1>5, <2>1, <2>2, <2>3, <2>4
<1>9. \A b \in Batches' : b.at < clock'
  BY <1>a, <1>5, <1>6, <1>7
<1>10. \A v \in Live : v.at \in Nat
  BY DEF Live
<1>11. \A v \in live' : v.at < clock'
  BY <1>a, <1>1, <1>10, BatchesTyped DEF Times
<1>12. \A d \in Client : save'[d].stage \in Writing =>
         \A v \in save'[d].live : v.at < clock'
  <2> SUFFICES ASSUME NEW d \in Client, save'[d].stage \in Writing,
                      NEW v \in save'[d].live
               PROVE  v.at < clock'
    OBVIOUS
  <2>1. save[d].stage \in Writing /\ v \in save[d].live
    BY <1>3, <1>4 DEF SaveInsert, Writing
  <2>2. v.at < clock /\ v.at \in Nat
    BY <1>a, <1>10, <2>1, BatchesTyped DEF Times
  <2> QED
    BY <1>a, <2>2
<1> QED
  BY <1>8, <1>9, <1>11, <1>12 DEF Times

LEMMA TimesCommit ==
  ASSUME TInv, Times, NEW c \in Client, SaveCommit(c)
  PROVE  Times'
<1>a. save \in [Client -> {NoSave} \cup ReadSave \cup OpenSave] /\ clock' = clock
  BY DEF TInv, TypeOK, SaveCommit
<1>1. save[c].stage = "inserted" /\ derived' \subseteq derived \cup save[c].made
      /\ live' = live \cup save[c].live
  BY DEF SaveCommit
<1>2. save'[c].stage = "idle" /\ \A d \in Client : d # c => save'[d] = save[d]
  BY <1>a DEF SaveCommit, NoSave
<1>3. Batches' \subseteq Batches
  BY <1>1, <1>2 DEF Batches, MadeBy, Writing
<1>4. Dated(Batches)' /\ \A b \in Batches' : b.at < clock'
  BY <1>a, <1>3 DEF Times, Dated
<1>5. \A v \in live' : v.at < clock'
  BY <1>a, <1>1 DEF Times, Writing
<1>6. \A d \in Client : save'[d].stage \in Writing =>
        \A v \in save'[d].live : v.at < clock'
  BY <1>a, <1>2 DEF Times, Writing
<1> QED
  BY <1>4, <1>5, <1>6 DEF Times

LEMMA TimesOther ==
  ASSUME TInv, TInv', Times,
         \/ \E e \in Entry : Enter(e)
         \/ \E r \in Rule : Review(r)
         \/ RunFacts \/ RunLive \/ RunRules \/ RunCommit
         \/ UNCHANGED vars
  PROVE  Times'
<1>1. clock \in Nat /\ clock' \in Nat /\ TypeOK
  BY DEF TInv, TypeOK
<1>2. UNCHANGED <<derived, live, save>> /\ clock <= clock'
  BY <1>1 DEF Enter, Review, RunFacts, RunLive, RunRules, RunCommit, vars, tables, saveVars
<1>3. Batches' \subseteq Batches
  BY <1>2 DEF Batches
<1> QED
  BY <1>1, <1>2, <1>3, BatchesTyped, TimesKept

LEMMA TimesNext == TInv /\ TInv' /\ Times /\ [Next]_vars => Times'
  BY TimesSave, TimesInsert, TimesCommit, TimesOther DEF Next

\* What a step does to the verification that an open request holds.
LEMMA LiveOfSaves ==
  ASSUME TInv, [Next]_vars, NEW d \in Client, save'[d].stage \in Writing
  PROVE  \/ /\ save[d].stage \in Writing
            /\ save'[d].live = save[d].live /\ save'[d].lot = save[d].lot
         \/ SaveFlush(d)
<1>a. save \in [Client -> {NoSave} \cup ReadSave \cup OpenSave] /\ TypeOK
  BY DEF TInv, TypeOK
<1>1. CASE save'[d] = save[d]
  BY <1>1
<1>2. ASSUME NEW c \in Client,
             \/ \E p \in Profile, differs \in Layers : SaveRead(c, p, differs)
             \/ SaveFail(c) \/ SaveCommit(c)
      PROVE  save'[d] = save[d]
  <2>1. save'[c].stage \notin Writing /\ (d # c => save'[d] = save[d])
    BY <1>a, <1>2 DEF SaveRead, SaveFail, SaveCommit, NoSave, Writing
  <2> QED
    BY <2>1
<1>3. ASSUME NEW c \in Client, SaveDelete(c) \/ SaveInsert(c)
      PROVE  /\ save[d].stage \in Writing
             /\ save'[d].live = save[d].live /\ save'[d].lot = save[d].lot
  <2>1. CASE d # c
    BY <1>a, <1>3, <2>1 DEF SaveDelete, SaveInsert
  <2>2. CASE d = c
    <3>1. save[d] \in OpenSave /\ save[d].stage \in Writing
      BY <1>a, <1>3, <2>2, SavesByStage DEF SaveDelete, SaveInsert, Writing
    <3>2. \/ save'[d] = [save[d] EXCEPT !.stage = "deleting", !.doomed = Doomed]
          \/ save'[d] = [save[d] EXCEPT !.stage = "inserted", !.made = Made(save[d])]
      BY <1>a, <1>3, <2>2 DEF SaveDelete, SaveInsert
    <3> QED
      BY <3>1, <3>2 DEF OpenSave
  <2> QED
    BY <2>1, <2>2
<1>4. ASSUME NEW c \in Client, SaveFlush(c)
      PROVE  save'[d] = save[d] \/ SaveFlush(d)
  BY <1>a, <1>4 DEF SaveFlush
<1>5. ASSUME \/ \E e \in Entry : Enter(e)
             \/ \E r \in Rule : Review(r)
             \/ RunFacts \/ RunLive \/ RunRules \/ RunCommit
             \/ UNCHANGED vars
      PROVE  save' = save
  BY <1>5 DEF Enter, Review, RunFacts, RunLive, RunRules, RunCommit, vars, saveVars
<1> QED
  BY <1>1, <1>2, <1>3, <1>4, <1>5 DEF Next

\* A step that is no commit changes no verification and no row.
LEMMA TablesStay ==
  ASSUME [Next]_vars, \A c \in Client : ~SaveCommit(c)
  PROVE  UNCHANGED <<row, derived, live>>
<1>1. ASSUME NEW c \in Client,
             \/ \E p \in Profile, differs \in Layers : SaveRead(c, p, differs)
             \/ SaveFlush(c) \/ SaveFail(c) \/ SaveDelete(c) \/ SaveInsert(c)
      PROVE  UNCHANGED <<row, derived, live>>
  BY <1>1 DEF SaveRead, SaveFlush, SaveFail, SaveDelete, SaveInsert, tables
<1>2. ASSUME \/ \E e \in Entry : Enter(e)
             \/ \E r \in Rule : Review(r)
             \/ RunFacts \/ RunLive \/ RunRules \/ RunCommit
             \/ UNCHANGED vars
      PROVE  UNCHANGED <<row, derived, live>>
  BY <1>2 DEF Enter, Review, RunFacts, RunLive, RunRules, RunCommit, vars, tables
<1> QED
  BY <1>1, <1>2 DEF Next

LEMMA FlushedSave ==
  ASSUME TInv, NEW d \in Client, SaveFlush(d)
  PROVE  /\ save'[d].live = Verified(save[d].profile, save[d].differs)
         /\ save'[d].lot = LotHeld(save[d])
         /\ save[d] \in ReadSave
<1>1. save \in [Client -> {NoSave} \cup ReadSave \cup OpenSave] /\ TypeOK
  BY DEF TInv, TypeOK
<1> QED
  BY <1>1, SavesByStage DEF SaveFlush

LEMMA UnverifiedNext ==
  ASSUME TInv, Unverified, [Next]_vars
  PROVE  Unverified'
<1> SUFFICES ASSUME ~LiveVerify
             PROVE  /\ live' = {}
                    /\ \A d \in Client :
                         save'[d].stage \in Writing => save'[d].live = {}
  BY DEF Unverified
<1>1. live' = {}
  <2>1. ASSUME NEW c \in Client, SaveCommit(c) PROVE live' = {}
    BY <2>1 DEF SaveCommit, Unverified, Writing
  <2> QED
    BY <2>1, TablesStay DEF Unverified
<1>2. ASSUME NEW d \in Client, save'[d].stage \in Writing
      PROVE  save'[d].live = {}
  <2>1. CASE save[d].stage \in Writing /\ save'[d].live = save[d].live
    BY <2>1 DEF Unverified
  <2>2. CASE SaveFlush(d)
    BY <2>2, FlushedSave DEF Verified
  <2> QED
    BY <1>2, <2>1, <2>2, LiveOfSaves
<1> QED
  BY <1>1, <1>2

\* The parcel of a request that was alone since it began.
LEMMA FlushedFresh ==
  ASSUME TInv, Serial, Times, ~overlapped, NEW d \in Client, SaveFlush(d)
  PROVE  Fresh(save[d])'
<1>1. /\ save'[d].live = Verified(save[d].profile, save[d].differs)
      /\ save'[d].lot = LotHeld(save[d]) /\ save[d] \in ReadSave
      /\ save[d].seen = row /\ UNCHANGED <<row, live>>
  BY FlushedSave DEF Serial, Current, SaveFlush, tables
<1>2. CASE LiveVerify /\ save[d].profile.lot \in Lot
  <2> DEFINE v == [lot |-> save[d].profile.lot, differs |-> save[d].differs,
                   at |-> clock]
  <2>1. save'[d].live = {v} /\ v.lot = save'[d].lot /\ v.at = clock
    BY <1>1, <1>2 DEF Verified, LotHeld
  <2>2. \A w \in live' : w.at < v.at
    BY <1>1, <2>1 DEF Times
  <2> HIDE DEF v
  <2> QED
    BY <2>1, <2>2 DEF Fresh
<1>3. CASE ~(LiveVerify /\ save[d].profile.lot \in Lot)
  <2>1. save'[d].live = {}
    BY <1>1, <1>3 DEF Verified
  <2>2. \/ ~LiveVerify
        \/ save'[d].lot = NoLot
        \/ row' # NoRow /\ save'[d].lot = row'.lot
    <3>1. ~LiveVerify \/ save'[d].lot = IF row = NoRow THEN NoLot ELSE row.lot
      BY <1>1, <1>3 DEF LotHeld
    <3>2. row' = row /\ NoRow' = NoRow
      BY <1>1 DEF NoRow
    <3> QED
      BY <3>1, <3>2
  <2> QED
    BY <2>1, <2>2 DEF Fresh
<1> QED
  BY <1>2, <1>3

LEMMA CommittedVerified ==
  ASSUME TInv, Serial, Times, Unverified, SerialLive, ~overlapped,
         NEW c \in Client, SaveCommit(c)
  PROVE  LotVerified(derived', Newest(live'))
<1>a. TypeOK /\ save[c].stage \in Writing /\ save[c].stage = "inserted"
  BY DEF TInv, SaveCommit, Writing
<1>1. /\ OfLot(save[c]) /\ Following /\ Fresh(save[c])
      /\ LotVerified(derived, Newest(live)) /\ save[c].doomed = derived
  BY <1>a DEF Serial, Current, SerialLive
<1>2. derived' = save[c].made /\ live' = live \cup save[c].live
  BY <1>1 DEF SaveCommit
<1> SUFFICES ASSUME derived' # {} PROVE LotVerified(derived', Newest(live'))
  BY DEF LotVerified
<1>3. save[c].lot \in Lot /\ \A b \in derived' : b.lot = save[c].lot
  BY <1>1, <1>2 DEF OfLot
<1>4. CASE ~LiveVerify
  BY <1>2, <1>4, <1>a DEF Unverified, LotVerified, Newest
<1>5. CASE save[c].live = {} /\ row # NoRow /\ save[c].lot = row.lot
  <2>1. \E b \in derived : b.lot = row.lot /\ derived = {b}
    BY <1>1, <1>3, <1>5, LotAssumption DEF Following
  <2>2. live' = live
    BY <1>2, <1>5
  <2> QED
    BY <1>1, <1>3, <1>5, <2>1, <2>2 DEF LotVerified
<1>6. ASSUME NEW v \in save[c].live, save[c].live = {v}, v.lot = save[c].lot,
             \A w \in live : w.at < v.at
      PROVE  LotVerified(derived', Newest(live'))
  <2>1. live' \subseteq Live
    BY <1>2, <1>a, BatchesTyped
  <2>2. \A w \in live' : w.at \in Nat
    BY <2>1 DEF Live
  <2>3. v \in live' /\ \A w \in live' : w = v \/ w.at < v.at
    BY <1>2, <1>6
  <2>4. \A w \in live' : w.at <= v.at
    BY <2>2, <2>3
  <2>5. ASSUME NEW w \in Newest(live') PROVE w = v
    <3>1. w \in live' /\ v.at <= w.at
      BY <2>3, <2>5 DEF Newest
    <3>2. ~(w.at < v.at)
      BY <2>2, <2>3, <3>1
    <3> QED
      BY <2>3, <3>1, <3>2
  <2>6. Newest(live') = {v}
    BY <2>3, <2>4, <2>5 DEF Newest
  <2> QED
    BY <1>3, <1>6, <2>6 DEF LotVerified
<1>7. save[c].lot # NoLot
  BY <1>3, LotAssumption
<1> QED
  BY <1>1, <1>4, <1>5, <1>6, <1>7 DEF Fresh

LEMMA LiveNext ==
  ASSUME TInv, Serial, Times, Unverified, SerialLive, [Next]_vars
  PROVE  SerialLive'
<1> SUFFICES ASSUME ~overlapped'
             PROVE  /\ LotVerified(derived', Newest(live'))
                    /\ \A d \in Client : save'[d].stage \in Writing =>
                         Fresh(save[d])'
  BY DEF SerialLive
<1>0. ~overlapped
  BY DEF Next, SaveRead, SaveFlush, SaveFail, SaveDelete, SaveInsert, SaveCommit,
         Enter, Review, RunFacts, RunLive, RunRules, RunCommit, vars, saveVars
<1>a. TypeOK /\ save \in [Client -> {NoSave} \cup ReadSave \cup OpenSave]
  BY DEF TInv, TypeOK
<1>1. ASSUME NEW c \in Client, SaveCommit(c)
      PROVE  /\ LotVerified(derived', Newest(live'))
             /\ \A d \in Client : save'[d].stage \notin Writing
  <2>1. NoSave.stage \notin Writing /\ save[c] # NoSave
    BY <1>1 DEF NoSave, SaveCommit, Writing
  <2>2. \A d \in Client : save'[d] = NoSave
    BY <1>0, <1>1, <1>a, <2>1 DEF SaveCommit, Serial, AlwaysOne
  <2> QED
    BY <1>0, <1>1, <2>1, <2>2, CommittedVerified
<1>2. ASSUME \A c \in Client : ~SaveCommit(c), NEW d \in Client,
             save'[d].stage \in Writing
      PROVE  Fresh(save[d])'
  <2>1. UNCHANGED <<row, derived, live>>
    BY <1>2, TablesStay
  <2>2. CASE /\ save[d].stage \in Writing
             /\ save'[d].live = save[d].live /\ save'[d].lot = save[d].lot
    BY <1>0, <2>1, <2>2 DEF SerialLive, Fresh
  <2>3. CASE SaveFlush(d)
    BY <1>0, <2>3, FlushedFresh
  <2> QED
    BY <1>2, <2>2, <2>3, LiveOfSaves
<1>3. ASSUME \A c \in Client : ~SaveCommit(c)
      PROVE  LotVerified(derived', Newest(live'))
  BY <1>0, <1>3, TablesStay DEF SerialLive
<1> QED
  BY <1>1, <1>2, <1>3

\* What is ahead of some facts stays ahead of them.
LEMMA AheadStep ==
  ASSUME TInv, [Next]_vars, NEW D \in SUBSET Batch, Ahead(D)
  PROVE  /\ \A b \in D : b.at < clock'
         /\ \A d \in Client : save'[d].stage \in Writing =>
              \A v \in save'[d].live, b \in D : v.at > b.at
<1>a. clock \in Nat /\ \A b \in D : b.at \in Nat /\ b.at < clock
  BY DEF TInv, TypeOK, Batch, Ahead
<1>1. clock' \in Nat /\ clock <= clock'
  <2>1. ASSUME NEW c \in Client,
               \/ \E p \in Profile, differs \in Layers : SaveRead(c, p, differs)
               \/ SaveFlush(c) \/ SaveFail(c) \/ SaveDelete(c) \/ SaveInsert(c)
               \/ SaveCommit(c)
        PROVE  clock' \in {clock, clock + 1}
    BY <2>1 DEF SaveRead, SaveFlush, SaveFail, SaveDelete, SaveInsert, SaveCommit
  <2>2. ASSUME \/ \E e \in Entry : Enter(e)
               \/ \E q \in Rule : Review(q)
               \/ RunFacts \/ RunLive \/ RunRules \/ RunCommit
               \/ UNCHANGED vars
        PROVE  clock' \in {clock, clock + 1}
    BY <2>2 DEF Enter, Review, RunFacts, RunLive, RunRules, RunCommit, vars
  <2>3. clock' \in {clock, clock + 1}
    BY <2>1, <2>2 DEF Next
  <2> QED
    BY <1>a, <2>3
<1>2. ASSUME NEW d \in Client, save'[d].stage \in Writing,
             NEW v \in save'[d].live, NEW b \in D
      PROVE  v.at > b.at
  <2>1. CASE save[d].stage \in Writing /\ save'[d].live = save[d].live
    BY <1>2, <2>1 DEF Ahead
  <2>2. CASE SaveFlush(d)
    <3>1. v \in Verified(save[d].profile, save[d].differs)
      BY <1>2, <2>2, FlushedSave
    <3>2. v.at = clock
      BY <3>1 DEF Verified
    <3> QED
      BY <1>a, <3>2
  <2> QED
    BY <1>2, <2>1, <2>2, LiveOfSaves
<1>3. ASSUME NEW b \in D PROVE b.at < clock'
  BY <1>a, <1>1
<1> QED
  BY <1>2, <1>3

LEMMA AheadNext ==
  ASSUME TInv, Serial, Times, AheadOfFacts, [Next]_vars
  PROVE  AheadOfFacts'
<1>a. /\ TypeOK /\ save \in [Client -> {NoSave} \cup ReadSave \cup OpenSave]
      /\ derived \in SUBSET Batch
  BY DEF TInv, TypeOK
<1>1. ASSUME ~overlapped' PROVE Ahead(derived)'
  <2>0. ~overlapped
    BY <1>1 DEF Next, SaveRead, SaveFlush, SaveFail, SaveDelete, SaveInsert, SaveCommit,
            Enter, Review, RunFacts, RunLive, RunRules, RunCommit, vars, saveVars
  <2>1. ASSUME NEW c \in Client, SaveCommit(c) PROVE Ahead(derived)'
    <3>1. NoSave.stage \notin Writing /\ save[c] # NoSave /\ save[c].stage \in Writing
      BY <2>1 DEF NoSave, SaveCommit, Writing
    <3>2. \A d \in Client : save'[d] = NoSave
      BY <2>0, <2>1, <1>a, <3>1 DEF SaveCommit, Serial, AlwaysOne
    <3>3. derived' \subseteq Batches /\ clock' = clock
      BY <2>1, <3>1 DEF SaveCommit, Batches, MadeBy
    <3>4. \A b \in derived' : b.at < clock'
      BY <3>3 DEF Times
    <3> QED
      BY <3>1, <3>2, <3>4 DEF Ahead
  <2>2. ASSUME \A c \in Client : ~SaveCommit(c) PROVE Ahead(derived)'
    <3>1. derived' = derived /\ Ahead(derived)
      BY <2>0, <2>2, TablesStay DEF AheadOfFacts
    <3> QED
      BY <1>a, <3>1, AheadStep DEF Ahead
  <2> QED
    BY <2>1, <2>2
<1>2. ASSUME run'.stage = "facts", ~run'.overlapped PROVE Ahead(run.read.derived)'
  <2>1. CASE RunFacts
    <3>1. run'.read.derived = derived /\ run'.overlapped = overlapped
      BY <2>1 DEF RunFacts
    <3>2. Ahead(derived)
      BY <1>2, <3>1 DEF AheadOfFacts
    <3> QED
      BY <1>a, <3>1, <3>2, AheadStep DEF Ahead
  <2>2. CASE run' = run
    <3>1. run \in OpenRun /\ Ahead(run.read.derived)
      BY <1>2, <1>a, <2>2, RunsByStage, Stages DEF AheadOfFacts
    <3>2. run.read.derived \in SUBSET Batch
      BY <3>1 DEF OpenRun, Evidence
    <3> QED
      BY <2>2, <3>1, <3>2, AheadStep DEF Ahead
  <2>3. CASE RunLive \/ RunRules \/ RunCommit
    BY <1>2, <2>3, Stages DEF RunLive, RunRules, RunCommit
  <2> QED
    BY <2>1, <2>2, <2>3
    DEF Next, SaveRead, SaveFlush, SaveFail, SaveDelete, SaveInsert, SaveCommit,
        Enter, Review, vars, runVars
<1> QED
  BY <1>1, <1>2 DEF AheadOfFacts

\* A save that commits between the two reads of a run brings a verification
\* that is later than the facts, or none.
LEMMA CommitKeepsUp ==
  ASSUME TInv, Times, AheadOfFacts, NEW c \in Client, SaveCommit(c),
         run.stage = "facts", ~run.overlapped,
         KeptUp(run.read.derived, Newest(live))
  PROVE  KeptUp(run.read.derived, Newest(live'))
<1> DEFINE D == run.read.derived
<1>a. TypeOK /\ clock \in Nat /\ save[c].stage \in Writing
  BY DEF TInv, TypeOK, SaveCommit, Writing
<1>1. live' = live \cup save[c].live /\ live' \in SUBSET Live
  BY <1>a, BatchesTyped DEF SaveCommit
<1>2. \A v \in live' : v.at < clock
  BY <1>a, <1>1 DEF Times
<1>3. \A v \in save[c].live, b \in D : v.at > b.at
  BY <1>a DEF AheadOfFacts, Ahead
<1>4. ASSUME D # {}, LiveVerify PROVE Newest(live') # {}
  <2>1. live' # {}
    BY <1>1, <1>4 DEF KeptUp, Newest
  <2> QED
    BY <1>a, <1>1, <1>2, <2>1, SomeNewest
<1>5. ASSUME D # {}, NEW v \in Newest(live'), NEW b \in D
      PROVE  v.lot = b.lot \/ v.at > b.at
  <2>1. CASE v \in live
    <3>1. v \in Newest(live)
      BY <1>1, <1>5, <2>1 DEF Newest
    <3> QED
      BY <1>5, <3>1 DEF KeptUp
  <2>2. CASE v \in save[c].live
    BY <1>3, <1>5, <2>2
  <2> QED
    BY <1>1, <1>5, <2>1, <2>2 DEF Newest
<1> QED
  BY <1>4, <1>5 DEF KeptUp

LEMMA FoundedNext ==
  ASSUME TInv, Serial, Times, SerialLive, AheadOfFacts, RunFounded, [Next]_vars
  PROVE  RunFounded'
<1>a. TypeOK /\ (run # NoRun => run \in OpenRun)
  BY RunsByStage DEF TInv
<1>1. ASSUME RunFacts PROVE RunFounded'
  <2>1. /\ run'.read.derived = derived /\ run'.overlapped = overlapped
        /\ run'.stage = "facts" /\ live' = live
    BY <1>1 DEF RunFacts, tables
  <2>2. Dated(derived)
    BY DEF Times, Dated, Batches
  <2>3. ~overlapped => AtMostOne(derived) /\ KeptUp(derived, Newest(live))
    BY SameLotKeepsUp DEF Serial, Following, AtMostOne, SerialLive
  <2> QED
    BY <2>1, <2>2, <2>3 DEF RunFounded
<1>2. ASSUME RunLive PROVE RunFounded'
  <2>1. run \in OpenRun /\ run # NoRun /\ run.stage = "facts"
    BY <1>2, <1>a, Stages DEF RunLive
  <2>2. /\ run'.read.derived = run.read.derived /\ run'.overlapped = run.overlapped
        /\ run'.stage = "live" /\ run'.read.live = Newest(live)
    BY <1>2, <2>1 DEF RunLive, OpenRun, Evidence, Verification
  <2> QED
    BY <2>1, <2>2 DEF RunFounded
<1>3. ASSUME RunRules PROVE RunFounded'
  <2>1. run \in OpenRun /\ run # NoRun /\ run.stage = "live"
    BY <1>3, <1>a, Stages DEF RunRules
  <2> DEFINE R == Applicable(run.read)
  <2>2. R \in SUBSET Rule /\ run.read \in Evidence
    BY <1>a, <2>1, ApplicableTyped DEF OpenRun
  <2>3. /\ run'.read = [run.read EXCEPT !.rules = R]
        /\ run'.overlapped = run.overlapped /\ run'.stage = "rules"
    BY <1>3 DEF RunRules
  <2>4. \A r \in R : Applies(r, run.read)
    BY DEF Applicable
  <2> HIDE DEF R
  <2>5. /\ run'.read.derived = run.read.derived /\ run'.read.live = run.read.live
        /\ run'.read.rules = R
    BY <2>2, <2>3 DEF Evidence
  <2>6. \A r \in run'.read.rules : Applies(r, run'.read)
    BY <2>2, <2>3, <2>4, <2>5, AppliesOfRead
  <2>7. (\A r \in run.read.rules : Applies(r, run.read))'
    BY <2>6 DEF Applies
  <2> QED
    BY <2>1, <2>3, <2>5, <2>7 DEF RunFounded
<1>4. ASSUME RunCommit PROVE RunFounded'
  BY <1>4 DEF RunCommit, RunFounded
<1>5. ASSUME NEW c \in Client, SaveCommit(c) PROVE RunFounded'
  <2>1. run' = run
    BY <1>5 DEF SaveCommit, runVars
  <2>2. run.stage = "facts" /\ ~run.overlapped /\ run # NoRun =>
          KeptUp(run.read.derived, Newest(live'))
    BY <1>5, CommitKeepsUp DEF RunFounded
  <2> QED
    BY <2>1, <2>2 DEF RunFounded
<1>6. ASSUME UNCHANGED <<run, live>> PROVE RunFounded'
  BY <1>6 DEF RunFounded
<1>7. ASSUME NEW c \in Client,
             \/ \E p \in Profile, differs \in Layers : SaveRead(c, p, differs)
             \/ SaveFlush(c) \/ SaveFail(c) \/ SaveDelete(c) \/ SaveInsert(c)
      PROVE  UNCHANGED <<run, live>>
  BY <1>7 DEF SaveRead, SaveFlush, SaveFail, SaveDelete, SaveInsert, tables, runVars
<1>8. ASSUME \/ \E e \in Entry : Enter(e)
             \/ \E r \in Rule : Review(r)
             \/ UNCHANGED vars
      PROVE  UNCHANGED <<run, live>>
  BY <1>8 DEF Enter, Review, vars, tables, runVars
<1> QED
  BY <1>1, <1>2, <1>3, <1>4, <1>5, <1>6, <1>7, <1>8 DEF Next

LEMMA DoneNext ==
  ASSUME TInv, RunFounded, AllDone, [Next]_vars
  PROVE  AllDone'
<1>a. TypeOK /\ runs \in Seq(DoneRun)
  BY DEF TInv, TypeOK
<1>1. ASSUME RunCommit PROVE AllDone'
  <2>1. run \in OpenRun /\ run.stage = "rules" /\ run # NoRun
    BY <1>1, <1>a, RunsByStage, Stages DEF RunCommit
  <2> DEFINE done == [read |-> run.read, overlapped |-> run.overlapped,
                      results |-> Results(run.read),
                      status |-> Overall(run.read, Advisory(Applicable(run.read)))]
  <2>2. /\ done.read = run.read /\ done.overlapped = run.overlapped
        /\ done.results = Results(run.read)
    OBVIOUS
  <2>3. Founded(run.read, run.overlapped)
    BY <2>1 DEF RunFounded, Founded
  <2>4. Done(done)
    BY <2>2, <2>3 DEF Done
  <2>5. runs' = Append(runs, done)
    BY <1>1 DEF RunCommit
  <2> HIDE DEF done
  <2>6. \A i \in DOMAIN runs' : runs'[i] = done \/ (i \in DOMAIN runs /\ runs'[i] = runs[i])
    BY <1>a, <2>5
  <2>7. \A i \in DOMAIN runs' : Done(runs'[i])
    BY <2>4, <2>6 DEF AllDone
  <2> QED
    BY <2>7 DEF AllDone
<1>2. ASSUME runs' = runs PROVE AllDone'
  BY <1>2 DEF AllDone
<1>3. ASSUME NEW c \in Client,
             \/ \E p \in Profile, differs \in Layers : SaveRead(c, p, differs)
             \/ SaveFlush(c) \/ SaveFail(c) \/ SaveDelete(c) \/ SaveInsert(c)
             \/ SaveCommit(c)
      PROVE  runs' = runs
  BY <1>3 DEF SaveRead, SaveFlush, SaveFail, SaveDelete, SaveInsert, SaveCommit, runVars
<1>4. ASSUME \/ \E e \in Entry : Enter(e)
             \/ \E r \in Rule : Review(r)
             \/ RunFacts \/ RunLive \/ RunRules
             \/ UNCHANGED vars
      PROVE  runs' = runs
  BY <1>4 DEF Enter, Review, RunFacts, RunLive, RunRules, vars, runVars
<1> QED
  BY <1>1, <1>2, <1>3, <1>4 DEF Next

LEMMA InvNext == IInv /\ [Next]_vars => IInv'
  BY TypeNext, SerialNext, TimesNext, UnverifiedNext, LiveNext, AheadNext, FoundedNext,
     DoneNext
  DEF IInv

LEMMA InvFits ==
  ASSUME IInv
  PROVE  VerificationKeepsUp /\ RuleFitsLot
<1>1. \A i \in DOMAIN runs : runs[i] \in DoneRun /\ Done(runs[i])
  BY DEF IInv, TInv, TypeOK, AllDone
<1>2. VerificationKeepsUp
  BY <1>1, DoneFits DEF VerificationKeepsUp
<1>3. RuleFitsLot
  BY <1>1, DoneFits DEF RuleFitsLot
<1> QED
  BY <1>2, <1>3

\* A verdict rests on a live verification of the parcel whose facts were read, or
\* on one made after those facts; the saves that commit between the two reads are
\* among the steps.
THEOREM VerificationsKeepUp == Spec => []VerificationKeepsUp
  BY InvInit, InvNext, InvFits, PTL DEF Spec

\* The rule behind every verdict is one of the parcel's council, also when
\* requests overlapped, and of its code and structure plan when they did not.
THEOREM RulesFitTheLot == Spec => []RuleFitsLot
  BY InvInit, InvNext, InvFits, PTL DEF Spec

-----------------------------------------------------------------------------
(* The compliance panel: its inductive invariant                           *)

Awaits(p) == \E q \in calls : q.panel = p

\* What is shown came for a version no older than any run shown before, and its
\* review is its own.
FineState(s, done) ==
  /\ s.fresh <= s.version
  /\ s.shown.via = "matrix" => s.shown.ver >= s.fresh
  /\ s.shown.mark # 0 => s.shown.mark = s.shown.run /\ s.shown.run \in done

FineCall(q) ==
  /\ q.ver <= panel[q.panel].version
  /\ q.stage \in {"started", "evaluated"} => q.run \in 1 .. starts

FineLoad(l, version, done) ==
  l # NoLoad =>
    /\ l.ver <= version
    /\ l.mark # 0 => l.mark = l.run /\ l.run \in done

FineNote(n) ==
  /\ n.run # 0
  /\ n.stage = "recorded" => n.run \in reviewed

\* A panel that awaits nothing, or only a load that was overtaken, has
\* something to show already.
Answered(s, l, awaited) ==
  s # Unmounted /\ ~awaited /\ (l = NoLoad \/ l.ver # s.version) =>
    s.shown.run # 0 \/ s.message \/ s.error

ViewInv ==
  /\ ViewTypeOK
  /\ \A q \in calls : FineCall(q)
  /\ \A n \in notes : FineNote(n)
  /\ \A p \in Panel :
       /\ FineState(panel[p], reviewed)
       /\ FineLoad(load[p], panel[p].version, reviewed)
       /\ Answered(panel[p], load[p], Awaits(p))

LEMMA UnmountedState == Unmounted \in State /\ Unmounted.shown.run = 0 /\ ~Unmounted.mounted
  BY ViewBoundAssumption DEF Unmounted, State, Nothing, Shown, Via

LEMMA ViewIInit == ViewInit => ViewInv
<1> SUFFICES ASSUME ViewInit PROVE ViewInv
  OBVIOUS
<1>1. \A p \in Panel : panel[p] = Unmounted /\ load[p] = NoLoad
  BY DEF ViewInit
<1>2. ViewTypeOK
  BY UnmountedState DEF ViewInit, ViewTypeOK
<1>3. FineState(Unmounted, reviewed)
  BY DEF FineState, Unmounted, Nothing
<1>4. \A p \in Panel : FineLoad(load[p], panel[p].version, reviewed)
                       /\ Answered(panel[p], load[p], Awaits(p))
  BY <1>1 DEF FineLoad, Answered
<1> QED
  BY <1>1, <1>2, <1>3, <1>4 DEF ViewInit, ViewInv

-----------------------------------------------------------------------------
(* The compliance panel: steps                                             *)

LEMMA LoadTyped ==
  ASSUME ViewTypeOK, NEW p \in Panel
  PROVE  load[p] # NoLoad => load[p] \in Load
  BY DEF ViewTypeOK

\* A panel takes a new state of the same version; of what it awaits, some is
\* answered.
LEMMA StateSet ==
  ASSUME ViewInv, NEW p \in Panel, NEW s \in State,
         FineState(s, reviewed), s.version = panel[p].version,
         panel' = [panel EXCEPT ![p] = s],
         UNCHANGED server,
         calls' \subseteq calls, notes' \subseteq notes,
         load' = load \/ load' = [load EXCEPT ![p] = NoLoad],
         \A q \in calls : q.panel # p => q \in calls',
         Answered(s, load'[p], Awaits(p)')
  PROVE  ViewInv'
<1>1. /\ panel' \in [Panel -> State] /\ panel'[p] = s
      /\ \A o \in Panel : panel'[o].version = panel[o].version
      /\ \A o \in Panel \ {p} : panel'[o] = panel[o] /\ load'[o] = load[o]
  BY DEF ViewInv, ViewTypeOK
<1>2. /\ load' \in [Panel -> Load \cup {NoLoad}]
      /\ \A o \in Panel : load'[o] \in {load[o], NoLoad}
  BY DEF ViewInv, ViewTypeOK
<1>3. ViewTypeOK'
  BY <1>1, <1>2 DEF ViewInv, ViewTypeOK, server
<1>4. \A q \in calls' : FineCall(q)'
  <2> SUFFICES ASSUME NEW q \in calls' PROVE FineCall(q)'
    OBVIOUS
  <2>1. q \in calls /\ q.panel \in Panel
    BY DEF ViewInv, ViewTypeOK, Call
  <2> QED
    BY <1>1, <2>1 DEF ViewInv, FineCall, server
<1>5. \A n \in notes' : FineNote(n)'
  BY DEF ViewInv, FineNote, server
<1>6. \A o \in Panel : FineState(panel'[o], reviewed')
  BY <1>1 DEF ViewInv, server
<1>7. \A o \in Panel : FineLoad(load'[o], panel'[o].version, reviewed')
  BY <1>1, <1>2 DEF ViewInv, FineLoad, server
<1>8. \A o \in Panel \ {p} : Awaits(o)' <=> Awaits(o)
  BY DEF Awaits
<1>9. \A o \in Panel : Answered(panel'[o], load'[o], Awaits(o)')
  BY <1>1, <1>8 DEF ViewInv, Answered
<1> QED
  BY <1>3, <1>4, <1>5, <1>6, <1>7, <1>9 DEF ViewInv

\* loadMatrix up to its await.
LEMMA LoadSent ==
  ASSUME ViewInv, NEW p \in Panel, NEW s \in State,
         FineState(s, reviewed), s.version = panel[p].version,
         SendLoad(p, s), UNCHANGED <<server, calls, notes>>
  PROVE  ViewInv'
<1> DEFINE t == [s EXCEPT !.matrixLoading = TRUE, !.message = FALSE, !.loads = @ + 1]
           l == [stage |-> "sent", ver |-> s.version, run |-> 0, mark |-> 0]
<1>1. /\ t \in State /\ FineState(t, reviewed) /\ t.version = s.version
  <2>1. s.loads + 1 \in 0 .. MaxLoads
    BY ViewBoundAssumption DEF SendLoad, State
  <2>2. t \in State
    BY <2>1 DEF State
  <2>3. t.fresh = s.fresh /\ t.shown = s.shown /\ t.version = s.version
    BY DEF State
  <2> QED
    BY <2>2, <2>3 DEF FineState
<1>2. /\ l \in Load /\ l # NoLoad /\ FineLoad(l, s.version, reviewed) /\ l.ver = s.version
  BY DEF Load, NoLoad, FineLoad, State
<1>3. panel' = [panel EXCEPT ![p] = t] /\ load' = [load EXCEPT ![p] = l]
  BY DEF SendLoad
<1> HIDE DEF t, l
<1>4. /\ panel' \in [Panel -> State] /\ panel'[p] = t
      /\ \A o \in Panel : panel'[o].version = panel[o].version
      /\ \A o \in Panel \ {p} : panel'[o] = panel[o] /\ load'[o] = load[o]
      /\ load' \in [Panel -> Load \cup {NoLoad}] /\ load'[p] = l
  BY <1>1, <1>2, <1>3 DEF ViewInv, ViewTypeOK
<1>5. ViewTypeOK'
  BY <1>4 DEF ViewInv, ViewTypeOK, server
<1>6. \A q \in calls' : FineCall(q)'
  BY <1>4 DEF ViewInv, ViewTypeOK, Call, FineCall, server
<1>7. \A n \in notes' : FineNote(n)'
  BY DEF ViewInv, FineNote, server
<1>8. \A o \in Panel : /\ FineState(panel'[o], reviewed')
                       /\ FineLoad(load'[o], panel'[o].version, reviewed')
  BY <1>1, <1>2, <1>4 DEF ViewInv, server
<1>9. \A o \in Panel : Answered(panel'[o], load'[o], Awaits(o)')
  BY <1>1, <1>2, <1>4 DEF ViewInv, Answered, Awaits
<1> QED
  BY <1>5, <1>6, <1>7, <1>8, <1>9 DEF ViewInv

\* runCheck up to its await.
LEMMA RunSent ==
  ASSUME ViewInv, NEW p \in Panel, NEW s \in State, NEW auto \in BOOLEAN,
         FineState(s, reviewed), s.version = panel[p].version,
         SendRun(p, s, auto), UNCHANGED <<server, notes>>,
         load' = load \/ load' = [load EXCEPT ![p] = NoLoad]
  PROVE  ViewInv'
<1> DEFINE t == [s EXCEPT !.version = @ + 1, !.loading = TRUE, !.error = FALSE]
           c == [panel |-> p, ver |-> s.version + 1, auto |-> auto,
                 stage |-> "sent", run |-> 0]
<1>1. t \in State /\ FineState(t, reviewed) /\ t.version = s.version + 1
  <2>1. s.version \in Nat /\ s.fresh \in Nat /\ s.version + 1 \in 0 .. MaxAsked
    BY ViewBoundAssumption DEF SendRun, State
  <2>2. t \in State
    BY <2>1 DEF State
  <2>3. t.fresh = s.fresh /\ t.shown = s.shown /\ t.version = s.version + 1
    BY DEF State
  <2> QED
    BY <2>1, <2>2, <2>3 DEF FineState
<1>2. c \in Call /\ c.panel = p /\ c.ver = s.version + 1 /\ c.stage = "sent"
  BY ViewBoundAssumption DEF SendRun, State, Call
<1>3. panel' = [panel EXCEPT ![p] = t] /\ calls' = calls \cup {c}
  BY DEF SendRun
<1> HIDE DEF t, c
<1>4. /\ panel' \in [Panel -> State] /\ panel'[p] = t
      /\ \A o \in Panel : panel'[o].version >= panel[o].version
      /\ \A o \in Panel \ {p} : panel'[o] = panel[o]
  BY <1>1, <1>3 DEF ViewInv, ViewTypeOK, State
<1>5. /\ load' \in [Panel -> Load \cup {NoLoad}]
      /\ \A o \in Panel : load'[o] \in {load[o], NoLoad}
      /\ \A o \in Panel \ {p} : load'[o] = load[o]
  BY DEF ViewInv, ViewTypeOK
<1>6. ViewTypeOK'
  BY <1>2, <1>3, <1>4, <1>5 DEF ViewInv, ViewTypeOK, server
<1>7. \A q \in calls' : FineCall(q)'
  <2>1. FineCall(c)'
    BY <1>1, <1>2, <1>4 DEF FineCall, State
  <2>2. ASSUME NEW q \in calls PROVE FineCall(q)'
    <3>1. q.panel \in Panel /\ q.ver \in Nat
      BY DEF ViewInv, ViewTypeOK, Call
    <3>2. panel[q.panel].version \in Nat /\ panel'[q.panel].version \in Nat
      BY <1>4, <3>1 DEF ViewInv, ViewTypeOK, State
    <3> QED
      BY <1>4, <3>1, <3>2 DEF ViewInv, FineCall, server
  <2> QED
    BY <1>3, <2>1, <2>2
<1>8. \A n \in notes' : FineNote(n)'
  BY DEF ViewInv, FineNote, server
<1>9. \A o \in Panel : FineState(panel'[o], reviewed')
  BY <1>1, <1>4 DEF ViewInv, server
<1>10. ASSUME NEW o \in Panel PROVE FineLoad(load'[o], panel'[o].version, reviewed')
  <2>1. load'[o] # NoLoad => load'[o] = load[o] /\ load[o].ver \in Nat
    BY <1>5, LoadTyped DEF ViewInv, Load
  <2>2. panel[o].version \in Nat /\ panel'[o].version \in Nat
    BY <1>4 DEF ViewInv, ViewTypeOK, State
  <2> QED
    BY <1>4, <2>1, <2>2 DEF ViewInv, FineLoad, server
<1>11. Awaits(p)' /\ \A o \in Panel \ {p} : Awaits(o)' <=> Awaits(o)
  BY <1>2, <1>3 DEF Awaits
<1>12. \A o \in Panel : Answered(panel'[o], load'[o], Awaits(o)')
  BY <1>4, <1>5, <1>11 DEF ViewInv, Answered
<1> QED
  BY <1>6, <1>7, <1>8, <1>9, <1>10, <1>12 DEF ViewInv

\* What a matrix read finds is a run, marked only if it was reviewed.
LEMMA MatrixFound ==
  ASSUME ViewInv, saved # {}
  PROVE  /\ Latest \in saved /\ Latest \in Nat
<1>1. saved \in SUBSET (0 .. starts) /\ starts \in Nat /\ saved \subseteq Nat
  BY DEF ViewInv, ViewTypeOK
<1>2. \E r \in saved : \A q \in saved : q <= r
  BY <1>1, HasGreatest
<1> QED
  BY <1>1, <1>2 DEF Latest

LEMMA UserStep ==
  ASSUME ViewInv, NEW p \in Panel, User(p)
  PROVE  ViewInv'
<1> DEFINE s == panel[p]
<1>1. /\ s \in State /\ FineState(s, reviewed) /\ s.version = panel[p].version
      /\ Answered(s, load[p], Awaits(p))
  BY DEF ViewInv, ViewTypeOK
<1>2. ASSUME Mount(p) PROVE ViewInv'
  <2> DEFINE t == [s EXCEPT !.mounted = TRUE]
  <2>1. t \in State /\ t.version = s.version /\ t.fresh = s.fresh /\ t.shown = s.shown
    BY <1>1 DEF State
  <2>2. FineState(t, reviewed)
    BY <1>1, <2>1 DEF FineState
  <2> QED
    BY <1>1, <1>2, <2>1, <2>2, LoadSent DEF Mount
<1>3. ASSUME Close(p) PROVE ViewInv'
  <2> DEFINE t == [s EXCEPT !.mounted = FALSE]
  <2>1. /\ t \in State /\ t.version = s.version /\ t.fresh = s.fresh
        /\ t.shown = s.shown /\ t.message = s.message /\ t.error = s.error
    BY <1>1 DEF State
  <2>2. FineState(t, reviewed)
    BY <1>1, <2>1 DEF FineState
  <2>3. panel' = [panel EXCEPT ![p] = t] /\ s # Unmounted
    BY <1>3, UnmountedState DEF Close
  <2>4. Answered(t, load'[p], Awaits(p)')
    BY <1>1, <1>3, <2>1, <2>3 DEF Answered, Close, Awaits
  <2> HIDE DEF t
  <2> QED
    BY <1>3, <2>1, <2>2, <2>3, <2>4, StateSet DEF Close
<1>4. ASSUME RunClicked(p) PROVE ViewInv'
  BY <1>1, <1>4, RunSent DEF RunClicked
<1>5. ASSUME ProposalSaved(p) PROVE ViewInv'
  <2> DEFINE t == [s EXCEPT !.ready = TRUE]
  <2>1. t \in State /\ t.version = s.version /\ t.fresh = s.fresh /\ t.shown = s.shown
    BY <1>1 DEF State
  <2>2. FineState(t, reviewed)
    BY <1>1, <2>1 DEF FineState
  <2> QED
    BY <1>1, <1>5, <2>1, <2>2, RunSent DEF ProposalSaved
<1>6. ASSUME RetryClicked(p) PROVE ViewInv'
  <2> DEFINE t == [s EXCEPT !.error = FALSE]
  <2>1. t \in State /\ t.version = s.version /\ t.fresh = s.fresh /\ t.shown = s.shown
    BY <1>1 DEF State
  <2>2. FineState(t, reviewed)
    BY <1>1, <2>1 DEF FineState
  <2> QED
    BY <1>1, <1>6, <2>1, <2>2, LoadSent DEF RetryClicked
<1>7. ASSUME ReviewClicked(p) PROVE ViewInv'
  <2> DEFINE n == [panel |-> p, run |-> s.shown.run, stage |-> "sent"]
  <2>1. n \in Note /\ n.run # 0 /\ n.stage = "sent"
    BY <1>1, <1>7 DEF ReviewClicked, State, Shown, Note
  <2>2. notes' = notes \cup {n}
    BY <1>7 DEF ReviewClicked
  <2> HIDE DEF n
  <2>3. UNCHANGED <<server, panel, calls, load>>
    BY <1>7 DEF ReviewClicked
  <2>4. \A m \in notes' : FineNote(m)'
    BY <2>1, <2>2, <2>3 DEF ViewInv, FineNote, server
  <2>5. ViewTypeOK'
    BY <2>1, <2>2, <2>3 DEF ViewInv, ViewTypeOK, server
  <2>6. \A q \in calls' : FineCall(q)'
    BY <2>3 DEF ViewInv, FineCall, server
  <2> QED
    BY <2>3, <2>4, <2>5, <2>6 DEF ViewInv, Awaits, Answered, server
<1> QED
  BY <1>2, <1>3, <1>4, <1>5, <1>6, <1>7 DEF User

\* A load goes on, of the version it was sent at.
LEMMA LoadSet ==
  ASSUME ViewInv, NEW p \in Panel, NEW l \in Load,
         load[p] # NoLoad, l.ver = load[p].ver,
         l.mark # 0 => l.mark = l.run /\ l.run \in reviewed,
         load' = [load EXCEPT ![p] = l],
         UNCHANGED <<server, panel, calls, notes>>
  PROVE  ViewInv'
<1>1. l # NoLoad
  BY DEF Load, NoLoad
<1>2. /\ load' \in [Panel -> Load \cup {NoLoad}] /\ load'[p] = l
      /\ \A o \in Panel \ {p} : load'[o] = load[o]
  BY DEF ViewInv, ViewTypeOK
<1>3. ViewTypeOK'
  BY <1>2 DEF ViewInv, ViewTypeOK, server
<1>4. (\A q \in calls' : FineCall(q)') /\ (\A n \in notes' : FineNote(n)')
  BY DEF ViewInv, FineCall, FineNote, server
<1>5. \A o \in Panel : /\ FineState(panel'[o], reviewed')
                       /\ FineLoad(load'[o], panel'[o].version, reviewed')
  BY <1>2 DEF ViewInv, FineLoad, server
<1>6. \A o \in Panel : Answered(panel'[o], load'[o], Awaits(o)')
  BY <1>1, <1>2 DEF ViewInv, Answered, Awaits
<1> QED
  BY <1>3, <1>4, <1>5, <1>6 DEF ViewInv

\* The run a load finds is a saved one, marked only if it was reviewed.
LEMMA LoadStep ==
  ASSUME ViewInv, NEW p \in Panel, MatrixRead(p) \/ MatrixRefused(p)
  PROVE  ViewInv'
<1> DEFINE o == load[p]
<1>1. o \in Load /\ o # NoLoad /\ (o.mark # 0 => o.mark = o.run /\ o.run \in reviewed)
  BY LoadTyped DEF MatrixRead, MatrixRefused, ViewInv, NoLoad, FineLoad
<1>2. UNCHANGED <<server, panel, calls, notes>>
  BY DEF MatrixRead, MatrixRefused
<1>3. ASSUME MatrixRead(p), saved = {} PROVE ViewInv'
  <2> DEFINE l == [o EXCEPT !.stage = "read"]
  <2>1. l \in Load /\ l.ver = o.ver /\ l.mark = o.mark /\ l.run = o.run
    BY <1>1 DEF Load
  <2>2. load' = [load EXCEPT ![p] = l]
    BY <1>3 DEF MatrixRead
  <2> HIDE DEF l
  <2> QED
    BY <1>1, <1>2, <2>1, <2>2, LoadSet
<1>4. ASSUME MatrixRead(p), saved # {} PROVE ViewInv'
  <2> DEFINE k == IF Latest \in reviewed THEN Latest ELSE 0
             l == [o EXCEPT !.stage = "read", !.run = Latest, !.mark = k]
  <2>1. k \in Nat /\ Latest \in Nat /\ (k # 0 => k = Latest /\ k \in reviewed)
    BY <1>4, MatrixFound
  <2>2. load' = [load EXCEPT ![p] = l]
    BY <1>4 DEF MatrixRead
  <2> HIDE DEF k
  <2>3. l \in Load /\ l.ver = o.ver /\ l.mark = k /\ l.run = Latest
    BY <1>1, <2>1 DEF Load
  <2> HIDE DEF l
  <2> QED
    BY <1>1, <1>2, <2>1, <2>2, <2>3, LoadSet
<1>5. ASSUME MatrixRefused(p) PROVE ViewInv'
  <2> DEFINE l == [o EXCEPT !.stage = "refused"]
  <2>1. l \in Load /\ l.ver = o.ver /\ l.mark = o.mark /\ l.run = o.run
    BY <1>1 DEF Load
  <2>2. load' = [load EXCEPT ![p] = l]
    BY <1>5 DEF MatrixRefused
  <2> HIDE DEF l
  <2> QED
    BY <1>1, <1>2, <2>1, <2>2, LoadSet
<1> QED
  BY <1>3, <1>4, <1>5

\* Calls and notes go on at the server; what it saved and reviewed stays.
LEMMA ServerSet ==
  ASSUME ViewInv, UNCHANGED <<panel, load>>,
         ViewTypeOK', reviewed \subseteq reviewed',
         \A q \in calls' : FineCall(q)',
         \A n \in notes' : FineNote(n)',
         \A p \in Panel : Awaits(p) => Awaits(p)'
  PROVE  ViewInv'
<1>1. \A p \in Panel : /\ FineState(panel'[p], reviewed')
                       /\ FineLoad(load'[p], panel'[p].version, reviewed')
  BY DEF ViewInv, FineState, FineLoad
<1>2. \A p \in Panel : Answered(panel'[p], load'[p], Awaits(p)')
  BY DEF ViewInv, Answered
<1> QED
  BY <1>1, <1>2 DEF ViewInv

LEMMA CallStep ==
  ASSUME ViewInv, NEW q \in calls, RunStarts(q) \/ RunEvaluated(q) \/ RunRefused(q)
  PROVE  ViewInv'
<1> DEFINE Gone(c) == /\ c \in Call /\ c.panel = q.panel /\ c.ver = q.ver
                      /\ c.stage \in {"started", "evaluated"} => c.run \in 1 .. starts'
                      /\ calls' = (calls \ {q}) \cup {c}
<1>1. q \in Call /\ FineCall(q) /\ starts \in Nat
  BY DEF ViewInv, ViewTypeOK
<1>2. /\ UNCHANGED <<saved, reviewed, panel, load, notes>>
      /\ starts' \in Nat /\ starts' >= starts /\ open' \subseteq 1 .. starts'
      /\ \E c \in Call : Gone(c)
  <2>1. ASSUME RunStarts(q) PROVE <1>2
    <3> DEFINE k == starts + 1
               c == [q EXCEPT !.stage = "started", !.run = k]
    <3>1. starts' = k /\ k \in 1 .. k /\ k \in Nat
      BY <1>1, <2>1 DEF RunStarts
    <3>3. calls' = (calls \ {q}) \cup {c}
      BY <2>1 DEF RunStarts
    <3> HIDE DEF k
    <3>2. /\ c \in Call /\ c.panel = q.panel /\ c.ver = q.ver /\ c.run = k
      BY <1>1, <3>1 DEF Call
    <3> HIDE DEF c
    <3>4. Gone(c)
      BY <3>1, <3>2, <3>3
    <3> QED
      BY <1>1, <2>1, <3>1, <3>4 DEF k, RunStarts, ViewInv, ViewTypeOK
  <2>2. ASSUME RunEvaluated(q) PROVE <1>2
    <3> DEFINE c == [q EXCEPT !.stage = "evaluated"]
    <3>1. /\ c \in Call /\ c.panel = q.panel /\ c.ver = q.ver /\ c.run = q.run
      BY <1>1 DEF Call
    <3>2. calls' = (calls \ {q}) \cup {c}
      BY <2>2 DEF RunEvaluated
    <3>3. q.run \in 1 .. starts /\ starts' = starts
      BY <1>1, <2>2 DEF RunEvaluated, FineCall
    <3> HIDE DEF c
    <3>4. Gone(c)
      BY <3>1, <3>2, <3>3
    <3> QED
      BY <1>1, <2>2, <3>1, <3>3, <3>4 DEF RunEvaluated, ViewInv, ViewTypeOK
  <2>3. ASSUME RunRefused(q) PROVE <1>2
    <3> DEFINE c == [q EXCEPT !.stage = "refused"]
    <3>1. /\ c \in Call /\ c.panel = q.panel /\ c.ver = q.ver /\ c.stage = "refused"
      BY <1>1 DEF Call
    <3>2. calls' = (calls \ {q}) \cup {c}
      BY <2>3 DEF RunRefused
    <3> HIDE DEF c
    <3>4. Gone(c)
      BY <3>1, <3>2
    <3> QED
      BY <1>1, <2>3, <3>1, <3>4 DEF RunRefused, ViewInv, ViewTypeOK, server
  <2> QED
    BY <2>1, <2>2, <2>3
<1>3. PICK c \in Call : Gone(c)
  BY <1>2
<1>4. ViewTypeOK'
  <2>1. 1 .. starts \subseteq 1 .. starts'
    BY <1>1, <1>2
  <2> QED
    BY <1>2, <1>3, <2>1 DEF ViewInv, ViewTypeOK
<1>5. \A d \in calls' : FineCall(d)'
  <2>1. FineCall(c)'
    BY <1>1, <1>2, <1>3 DEF FineCall
  <2>2. ASSUME NEW d \in calls PROVE FineCall(d)'
    BY <1>1, <1>2 DEF ViewInv, FineCall
  <2> QED
    BY <1>3, <2>1, <2>2
<1>6. \A n \in notes' : FineNote(n)'
  BY <1>2 DEF ViewInv, FineNote
<1>7. \A p \in Panel : Awaits(p) => Awaits(p)'
  BY <1>3 DEF Awaits
<1> QED
  BY <1>2, <1>4, <1>5, <1>6, <1>7, ServerSet

LEMMA EndStep ==
  ASSUME ViewInv, NEW r \in open, RunCommitted(r) \/ RunRolledBack(r)
  PROVE  ViewInv'
<1>1. /\ UNCHANGED <<starts, reviewed, panel, calls, load, notes>>
      /\ open' \subseteq 1 .. starts /\ saved \subseteq saved' /\ saved' \subseteq 1 .. starts
  BY DEF RunCommitted, RunRolledBack, ViewInv, ViewTypeOK
<1>2. ViewTypeOK'
  BY <1>1 DEF ViewInv, ViewTypeOK
<1> QED
  BY <1>1, <1>2, ServerSet DEF ViewInv, FineCall, FineNote, Awaits

LEMMA NoteStep ==
  ASSUME ViewInv, NEW n \in notes, ReviewRecorded(n) \/ ReviewRefused(n)
  PROVE  ViewInv'
<1>1. n \in Note /\ FineNote(n)
  BY DEF ViewInv, ViewTypeOK
<1>2. /\ UNCHANGED <<starts, open, saved, panel, calls, load>>
      /\ reviewed \subseteq reviewed' /\ reviewed' \subseteq saved
      /\ \E m \in Note : /\ m.run # 0
                         /\ m.stage = "recorded" => m.run \in reviewed'
                         /\ notes' = (notes \ {n}) \cup {m}
  <2>1. ASSUME ReviewRecorded(n) PROVE <1>2
    <3> DEFINE m == [n EXCEPT !.stage = "recorded"]
    <3>1. m \in Note /\ m.run = n.run
      BY <1>1 DEF Note
    <3>2. notes' = (notes \ {n}) \cup {m}
      BY <2>1 DEF ReviewRecorded
    <3> HIDE DEF m
    <3> QED
      BY <1>1, <2>1, <3>1, <3>2 DEF ReviewRecorded, FineNote, ViewInv, ViewTypeOK
  <2>2. ASSUME ReviewRefused(n) PROVE <1>2
    <3> DEFINE m == [n EXCEPT !.stage = "refused"]
    <3>1. m \in Note /\ m.run = n.run /\ m.stage = "refused"
      BY <1>1 DEF Note
    <3>2. notes' = (notes \ {n}) \cup {m}
      BY <2>2 DEF ReviewRefused
    <3> HIDE DEF m
    <3> QED
      BY <1>1, <2>2, <3>1, <3>2 DEF ReviewRefused, FineNote, ViewInv, ViewTypeOK, server
  <2> QED
    BY <2>1, <2>2
<1>3. \A m \in notes' : FineNote(m)'
  BY <1>2 DEF ViewInv, FineNote
<1>4. ViewTypeOK'
  BY <1>2 DEF ViewInv, ViewTypeOK
<1> QED
  BY <1>2, <1>3, <1>4, ServerSet DEF ViewInv, FineCall, Awaits

-----------------------------------------------------------------------------
(* The compliance panel: answers                                           *)

LEMMA RunAnswerStep ==
  ASSUME ViewInv, NEW q \in calls, RunAnswered(q)
  PROVE  ViewInv'
<1> DEFINE p == q.panel
           s == panel[p]
           t == IF q.stage = "evaluated" THEN RunShown(s, q) ELSE RunMissed(s, q)
<1>1. /\ q \in Call /\ FineCall(q) /\ p \in Panel
      /\ s \in State /\ FineState(s, reviewed)
  BY DEF ViewInv, ViewTypeOK, Call
<1>2. /\ panel' = [panel EXCEPT ![p] = t]
      /\ calls' = calls \ {q}
      /\ UNCHANGED <<server, load, notes>>
  BY DEF RunAnswered
<1>3. /\ t \in State /\ FineState(t, reviewed) /\ t.version = s.version
      /\ t.shown.run # 0 \/ t.message \/ t.error
  <2>1. ASSUME q.stage = "evaluated" PROVE <1>3
    <3> DEFINE sh == [run |-> q.run, mark |-> 0, via |-> "run", ver |-> q.ver]
               fr == IF q.ver > s.fresh THEN q.ver ELSE s.fresh
               ran == s.ran \/ ~q.auto
               u == [s EXCEPT !.loading = FALSE, !.message = FALSE, !.ran = ran,
                              !.shown = sh, !.fresh = fr]
    <3>1. q.run \in Nat \ {0} /\ q.ver <= s.version
      BY <1>1, <2>1 DEF FineCall, Call, ViewInv, ViewTypeOK
    <3>2. sh \in Shown /\ sh.run # 0 /\ sh.mark = 0 /\ sh.via = "run"
      BY <1>1, <3>1 DEF Shown, Via, Call
    <3>3. fr \in 0 .. MaxAsked /\ fr <= s.version
      BY <1>1, <3>1, ViewBoundAssumption DEF State, Call, FineState
    <3>4. ran \in BOOLEAN
      OBVIOUS
    <3>5. t = u
      BY <2>1 DEF RunShown
    <3> HIDE DEF sh, fr, ran
    <3>6. /\ u \in State /\ u.version = s.version /\ u.shown = sh /\ u.fresh = fr
      BY <1>1, <3>2, <3>3, <3>4 DEF State
    <3> HIDE DEF u, t
    <3> QED
      BY <3>2, <3>3, <3>5, <3>6 DEF FineState
  <2>2. ASSUME q.stage # "evaluated" PROVE <1>3
    <3>1. /\ t \in State /\ t.version = s.version /\ t.shown = s.shown /\ t.fresh = s.fresh
          /\ t.message \/ t.error
      BY <1>1, <2>2 DEF RunMissed, State
    <3> HIDE DEF t
    <3> QED
      BY <1>1, <3>1 DEF FineState
  <2> QED
    BY <2>1, <2>2
<1> HIDE DEF t
<1> QED
  BY <1>1, <1>2, <1>3, StateSet DEF Answered

LEMMA MatrixAnswerStep ==
  ASSUME ViewInv, NEW p \in Panel, MatrixAnswered(p)
  PROVE  ViewInv'
<1> DEFINE l == load[p]
           s == [panel[p] EXCEPT !.matrixLoading = FALSE]
<1>1. /\ l \in Load /\ l # NoLoad /\ FineLoad(l, panel[p].version, reviewed)
      /\ Answered(panel[p], l, Awaits(p))
  BY LoadTyped DEF MatrixAnswered, ViewInv, NoLoad
<1>2. /\ panel[p] \in State /\ FineState(panel[p], reviewed)
      /\ s \in State /\ s.version = panel[p].version /\ s.fresh = panel[p].fresh
      /\ s.shown = panel[p].shown /\ s.message = panel[p].message /\ s.error = panel[p].error
  BY DEF ViewInv, ViewTypeOK, State
<1>3. FineState(s, reviewed)
  BY <1>2 DEF FineState
<1>4. load' = [load EXCEPT ![p] = NoLoad] /\ UNCHANGED <<server, notes>>
  BY DEF MatrixAnswered
<1>5. ASSUME Overtaken(s, l), panel' = [panel EXCEPT ![p] = s], calls' = calls
      PROVE  ViewInv'
  <2>1. panel[p] # Unmounted
    <3>1. l.ver # panel[p].version
      BY <1>2, <1>5 DEF Overtaken
    <3>2. l.ver \in Nat /\ panel[p].version \in Nat /\ l.ver <= panel[p].version
      BY <1>1, <1>2 DEF Load, State, FineLoad
    <3> QED
      BY <3>1, <3>2 DEF Unmounted
  <2>2. Answered(s, load'[p], Awaits(p)')
    BY <1>1, <1>2, <1>5, <2>1 DEF Answered, Overtaken, Awaits
  <2> HIDE DEF s
  <2> QED
    BY <1>2, <1>3, <1>4, <1>5, <2>2, StateSet
<1>6. ASSUME ~Overtaken(s, l), l.run # 0, panel' = [panel EXCEPT ![p] = MatrixShown(s, l)],
             calls' = calls
      PROVE  ViewInv'
  <2> DEFINE sh == [run |-> l.run, mark |-> l.mark, via |-> "matrix", ver |-> l.ver]
             u == [s EXCEPT !.matrixLoading = FALSE, !.shown = sh]
  <2>1. MatrixShown(s, l) = u
    BY DEF MatrixShown
  <2>2. sh \in Shown /\ sh.run = l.run /\ sh.mark = l.mark /\ sh.ver = l.ver
    BY <1>1 DEF Shown, Via, Load
  <2> HIDE DEF sh, s
  <2>3. u \in State /\ u.version = s.version /\ u.shown = sh /\ u.fresh = s.fresh
    BY <1>2, <2>2 DEF State
  <2> HIDE DEF u
  <2>4. l.ver = s.version
    BY <1>6 DEF Overtaken
  <2>5. FineState(u, reviewed)
    BY <1>1, <1>3, <2>2, <2>3, <2>4 DEF FineState, FineLoad
  <2>6. Answered(u, load'[p], Awaits(p)')
    BY <1>6, <2>2, <2>3 DEF Answered
  <2> QED
    BY <1>2, <1>4, <1>6, <2>1, <2>3, <2>5, <2>6, StateSet
<1>7. ASSUME SendRun(p, [s EXCEPT !.autoRan = TRUE], TRUE) PROVE ViewInv'
  <2> DEFINE t == [s EXCEPT !.autoRan = TRUE]
  <2> HIDE DEF s
  <2>1. t \in State /\ t.version = s.version /\ t.fresh = s.fresh /\ t.shown = s.shown
    BY <1>2 DEF State
  <2> HIDE DEF t
  <2>2. FineState(t, reviewed)
    BY <1>3, <2>1 DEF FineState
  <2>3. SendRun(p, t, TRUE)
    BY <1>7 DEF t
  <2> QED
    BY <1>2, <1>4, <2>1, <2>2, <2>3, RunSent
<1>8. ASSUME panel' = [panel EXCEPT ![p] = [s EXCEPT !.message = TRUE]], calls' = calls
      PROVE  ViewInv'
  <2> DEFINE t == [s EXCEPT !.message = TRUE]
  <2> HIDE DEF s
  <2>1. /\ t \in State /\ t.version = s.version /\ t.fresh = s.fresh /\ t.shown = s.shown
        /\ t.message
    BY <1>2 DEF State
  <2>2. panel' = [panel EXCEPT ![p] = t]
    BY <1>8
  <2> HIDE DEF t
  <2>3. FineState(t, reviewed) /\ Answered(t, load'[p], Awaits(p)')
    BY <1>3, <2>1 DEF FineState, Answered
  <2> QED
    BY <1>2, <1>4, <1>8, <2>1, <2>2, <2>3, StateSet
<1> QED
  BY <1>5, <1>6, <1>7, <1>8 DEF MatrixAnswered

LEMMA ReviewAnswerStep ==
  ASSUME ViewInv, NEW n \in notes, ReviewAnswered(n)
  PROVE  ViewInv'
<1> DEFINE p == n.panel
           s == panel[p]
           t == IF n.stage = "refused" THEN s ELSE Marked(s, n.run)
<1>1. /\ n \in Note /\ FineNote(n) /\ p \in Panel
      /\ s \in State /\ FineState(s, reviewed) /\ Answered(s, load[p], Awaits(p))
  BY DEF ViewInv, ViewTypeOK, Note
<1>2. /\ panel' = [panel EXCEPT ![p] = t]
      /\ notes' \subseteq notes
      /\ UNCHANGED <<server, calls, load>>
  BY DEF ReviewAnswered, ViewInv, ViewTypeOK
<1>3. /\ t \in State /\ t.version = s.version /\ t.fresh = s.fresh
      /\ t.shown.run = s.shown.run /\ t.shown.via = s.shown.via /\ t.shown.ver = s.shown.ver
      /\ t.message = s.message /\ t.error = s.error
      /\ \/ t.shown.mark = s.shown.mark
         \/ t.shown.mark = t.shown.run /\ t.shown.run \in reviewed
      /\ t # Unmounted => s # Unmounted
  <2>1. ASSUME n.stage # "refused", s.shown.run = n.run PROVE <1>3
    <3> DEFINE sh == [s.shown EXCEPT !.mark = n.run]
    <3>1. /\ sh \in Shown /\ sh.run = s.shown.run /\ sh.via = s.shown.via
          /\ sh.ver = s.shown.ver /\ sh.mark = n.run
      BY <1>1 DEF State, Shown, Note
    <3>2. t = [s EXCEPT !.shown = sh]
      BY <1>1, <2>1 DEF Marked, State, Shown
    <3> HIDE DEF sh, t
    <3>3. /\ t \in State /\ t.version = s.version /\ t.fresh = s.fresh /\ t.shown = sh
          /\ t.message = s.message /\ t.error = s.error
      BY <1>1, <3>1, <3>2 DEF State
    <3>4. n.run \in reviewed
      BY <1>1, <2>1 DEF ReviewAnswered, FineNote
    <3>5. s # Unmounted
      BY <1>1, <2>1, UnmountedState DEF FineNote
    <3> QED
      BY <2>1, <3>1, <3>3, <3>4, <3>5
  <2>2. ASSUME ~(n.stage # "refused" /\ s.shown.run = n.run) PROVE t = s
    BY <2>2 DEF Marked
  <2> QED
    BY <1>1, <2>1, <2>2
<1> HIDE DEF t
<1>4. FineState(t, reviewed)
  BY <1>1, <1>3 DEF FineState
<1>5. Answered(t, load'[p], Awaits(p)')
  BY <1>1, <1>2, <1>3 DEF Answered, Awaits
<1> QED
  BY <1>1, <1>2, <1>3, <1>4, <1>5, StateSet

LEMMA ViewINext == ViewInv /\ [ViewNext]_viewVars => ViewInv'
<1> SUFFICES ASSUME ViewInv, [ViewNext]_viewVars PROVE ViewInv'
  OBVIOUS
<1>1. ASSUME NEW p \in Panel,
             User(p) \/ MatrixRead(p) \/ MatrixRefused(p) \/ MatrixAnswered(p)
      PROVE  ViewInv'
  BY <1>1, UserStep, LoadStep, MatrixAnswerStep
<1>2. ASSUME NEW q \in calls,
             RunStarts(q) \/ RunEvaluated(q) \/ RunRefused(q) \/ RunAnswered(q)
      PROVE  ViewInv'
  BY <1>2, CallStep, RunAnswerStep
<1>3. ASSUME NEW r \in open, RunCommitted(r) \/ RunRolledBack(r) PROVE ViewInv'
  BY <1>3, EndStep
<1>4. ASSUME NEW n \in notes, ReviewRecorded(n) \/ ReviewRefused(n) \/ ReviewAnswered(n)
      PROVE  ViewInv'
  BY <1>4, NoteStep, ReviewAnswerStep
<1>5. ASSUME UNCHANGED viewVars PROVE ViewInv'
  <2>1. UNCHANGED <<starts, open, saved, reviewed, panel, calls, load, notes>>
    BY <1>5 DEF viewVars, server
  <2>2. ViewTypeOK'
    BY <2>1 DEF ViewInv, ViewTypeOK
  <2> QED
    BY <2>1, <2>2, ServerSet DEF ViewInv, FineCall, FineNote, Awaits
<1> QED
  BY <1>1, <1>2, <1>3, <1>4, <1>5 DEF ViewNext

THEOREM ViewInductive == ViewSpec => []ViewInv
  BY ViewIInit, ViewINext, PTL DEF ViewSpec

THEOREM ViewTyping == ViewSpec => []ViewTypeOK
<1>1. ViewInv => ViewTypeOK
  BY DEF ViewInv
<1> QED
  BY <1>1, ViewInductive, PTL

\* However the answers of a panel overtake each other, the matrix of an earlier
\* load takes the place of no run that was asked for after it.
THEOREM FreshRunKept == ViewSpec => []FreshRunStands
<1>1. ViewInv => FreshRunStands
  BY DEF ViewInv, FineState, FreshRunStands
<1> QED
  BY <1>1, ViewInductive, PTL

\* No order of dropped, refused and late answers leaves a panel blank.
THEOREM NeverBlank == ViewSpec => []SomethingToSay
<1>1. ViewInv => SomethingToSay
  BY DEF ViewInv, Answered, Awaits, SomethingToSay
<1> QED
  BY <1>1, ViewInductive, PTL

\* The review beside a result is one recorded for that result.
THEOREM ReviewsStayWithRuns == ViewSpec => []ReviewsOfTheirRun
<1>1. ViewInv => ReviewsOfTheirRun
  BY DEF ViewInv, FineState, ReviewsOfTheirRun
<1> QED
  BY <1>1, ViewInductive, PTL
=============================================================================
