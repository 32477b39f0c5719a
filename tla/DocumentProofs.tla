--------------------------- MODULE DocumentProofs ---------------------------
(***************************************************************************)
(* Theorems of the document pipeline, for any documents, contents and      *)
(* measures, any number of users and any bound on promotions; and of the   *)
(* documents panel over it, for any number of requests under way.          *)
(***************************************************************************)
EXTENDS DocumentPanel, TLAPS

-----------------------------------------------------------------------------
(* The inductive invariant                                                 *)

Open(d, r) == parse[d][r].stage # "idle"

\* What an open parse is the parse of.
Claimed(d, r) == IF r = "worker" THEN job[d] = "doing" ELSE upload[d] = "fallback"

\* The parse has come to its end: only then may its facts be seen.
Ended(d, r) == IF r = "worker" THEN job[d] = "done" ELSE upload[d] = "answered"

\* A document's row and its job follow its upload request.
UploadOrdered(d) ==
  /\ doc[d] = NoDoc <=> upload[d] = "none"
  /\ job[d] # "none" => upload[d] \notin {"none", "committed"}
  /\ doc[d] # NoDoc => file[doc[d].content] # "absent"

\* The lock: one parse at a time, which deletes all facts there are.
ParseExclusive(d) ==
  /\ \A r \in Run : Open(d, r) => Claimed(d, r)
  /\ \A r, s \in Run : Open(d, r) /\ Open(d, s) => r = s
  /\ \A r \in Run : parse[d][r].doomed \subseteq FactsOf(d)
  /\ \A r \in Run : parse[d][r].stage = "cleared" => parse[d][r].doomed = Live(d)

Promoted(f) == \E i \in 1 .. Len(properties) : properties[i].fact = f

\* Facts are seen after their parse has ended.
FactsAfterParse ==
  \A f \in Fact : facts[f] # NoFact \/ Promoted(f) => Ended(f.doc, f.run)

\* What an open edit has seen of its fact still stands.
EditSees(u) ==
  edit[u].stage = "loaded" =>
    LET e == edit[u] IN
    /\ Ended(e.fact.doc, e.fact.run)
    /\ e.seen.promoted => Promoted(e.fact)
    /\ e.seen.calibration # "none" /\ facts[e.fact] # NoFact =>
         facts[e.fact].calibration # "none"
    /\ e.change.promote =>
         /\ e.change = Promotion
         /\ e.fact.measure \in Dimension => e.seen.calibration = "given"

IInv ==
  /\ TypeOK
  /\ \A d \in Doc : UploadOrdered(d) /\ ParseExclusive(d)
  /\ FactsAfterParse
  /\ FactsOfOneParse
  /\ \A u \in User : EditSees(u)
  /\ PromotedFlagAgrees
  /\ CalibrationStands

LEMMA RunsAre == Run = {"worker", "fallback"}
  BY DEF Run

LEMMA IInit == Init => IInv
<1> SUFFICES ASSUME Init PROVE IInv
  OBVIOUS
<1>1. Len(properties) = 0 /\ properties \in Seq(Property)
  BY DEF Init
<1>2. Len(properties) <= MaxPromotions
  BY <1>1, PromotionsAssumption
<1>3. /\ file \in [Content -> {"absent", "torn", "whole"}]
      /\ doc \in [Doc -> DocRow \cup {NoDoc}]
      /\ parse \in [Doc -> [Run -> ParseTxn \cup {NoParse}]]
      /\ facts \in [Fact -> FactRow \cup {NoFact}]
      /\ edit \in [User -> EditTxn \cup {NoEdit}]
  BY DEF Init
<1>4. /\ upload \in [Doc -> {"none", "committed", "fallback", "answered",
                             "refused", "cut"}]
      /\ job \in [Doc -> {"none", "todo", "doing", "done", "failed"}]
  BY DEF Init
<1>5. TypeOK
  BY <1>1, <1>2, <1>3, <1>4 DEF TypeOK
<1>6. \A f \in Fact : facts[f] = NoFact /\ ~Promoted(f)
  BY <1>1 DEF Init, Promoted
<1>7. \A d \in Doc : Live(d) = {}
  BY <1>6 DEF Live, FactsOf
<1>8. \A d \in Doc : UploadOrdered(d)
  BY DEF Init, UploadOrdered
<1>9. \A d \in Doc : ParseExclusive(d)
  BY DEF Init, ParseExclusive, Open, NoParse
<1>10. FactsAfterParse
  BY <1>6 DEF FactsAfterParse
<1>11. \A d \in Doc : doc[d].status # "parsed"
  BY DEF Init, NoDoc
<1>12. FactsOfOneParse
  BY <1>7, <1>11 DEF FactsOfOneParse
<1>13. \A u \in User : EditSees(u)
  BY DEF Init, NoEdit, EditSees
<1>14. PromotedFlagAgrees /\ CalibrationStands
  BY <1>1, <1>7 DEF PromotedFlagAgrees, CalibrationStands
<1> QED
  BY <1>5, <1>8, <1>9, <1>10, <1>12, <1>13, <1>14 DEF IInv

-----------------------------------------------------------------------------
(* What steps that leave facts, measurements and edits alone preserve      *)

LEMMA FactsFrame ==
  ASSUME IInv, UNCHANGED <<facts, properties, edit>>,
         \A d \in Doc, r \in Run : Ended(d, r) => Ended(d, r)'
  PROVE  /\ FactsAfterParse'
         /\ \A u \in User : EditSees(u)'
         /\ PromotedFlagAgrees' /\ CalibrationStands'
<1>1. \A f \in Fact : f.doc \in Doc /\ f.run \in Run
  BY DEF Fact
<1>2. \A f \in Fact : Promoted(f)' <=> Promoted(f)
  BY DEF Promoted
<1>3. FactsAfterParse'
  BY <1>1, <1>2 DEF IInv, FactsAfterParse
<1>4. ASSUME NEW u \in User, edit[u].stage = "loaded" PROVE edit[u].fact \in Fact
  BY <1>4 DEF IInv, TypeOK, EditTxn, NoEdit
<1>5. ASSUME NEW u \in User PROVE EditSees(u)'
  BY <1>1, <1>2, <1>4 DEF IInv, EditSees
<1>6. \A d \in Doc : Live(d)' = Live(d)
  BY DEF Live
<1>7. PromotedFlagAgrees'
  BY <1>6 DEF IInv, PromotedFlagAgrees
<1>8. CalibrationStands'
  BY DEF IInv, CalibrationStands
<1> QED
  BY <1>3, <1>5, <1>7, <1>8

LEMMA DocFrame ==
  ASSUME IInv, NEW d \in Doc, UNCHANGED <<file, doc, facts>>,
         parse'[d] = parse[d], upload'[d] = upload[d], job'[d] = job[d]
  PROVE  UploadOrdered(d)' /\ ParseExclusive(d)'
<1>1. Live(d)' = Live(d)
  BY DEF Live
<1>2. UploadOrdered(d)'
  BY DEF IInv, UploadOrdered
<1>3. ParseExclusive(d)'
  BY <1>1 DEF IInv, ParseExclusive, Open, Claimed
<1> QED
  BY <1>2, <1>3

LEMMA OneParseFrame ==
  ASSUME IInv, UNCHANGED <<file, doc, facts>>
  PROVE  FactsOfOneParse'
<1>1. \A d \in Doc : Live(d)' = Live(d)
  BY DEF Live
<1> QED
  BY <1>1 DEF IInv, FactsOfOneParse

-----------------------------------------------------------------------------
(* The upload request                                                      *)

LEMMA IStoreTorn ==
  ASSUME IInv, NEW d \in Doc, NEW c \in Content, StoreTorn(d, c)
  PROVE  IInv'
<1>1. file' \in [Content -> {"absent", "torn", "whole"}]
  BY DEF IInv, TypeOK, StoreTorn
<1>2. TypeOK'
  BY <1>1 DEF IInv, TypeOK, StoreTorn
<1>3. \A b \in Content : (file[b] # "absent" => file'[b] = file[b]) /\ file'[c] = "torn"
  BY DEF IInv, TypeOK, StoreTorn
<1>4. \A e \in Doc : doc[e] # NoDoc => doc[e].content \in Content
  BY DEF IInv, TypeOK, DocRow
<1>5. ASSUME NEW e \in Doc PROVE Live(e)' = Live(e)
  BY DEF Live, StoreTorn
<1>6. ASSUME NEW e \in Doc PROVE UploadOrdered(e)'
  BY <1>3, <1>4 DEF IInv, UploadOrdered, StoreTorn
<1>7. ASSUME NEW e \in Doc PROVE ParseExclusive(e)'
  BY <1>5 DEF IInv, ParseExclusive, Open, Claimed, StoreTorn
<1>8. \A e \in Doc : doc[e].status = "parsed" =>
                       file'[doc[e].content] = file[doc[e].content]
  BY <1>3, <1>4 DEF IInv, UploadOrdered, NoDoc
<1>9. FactsOfOneParse'
  BY <1>5, <1>8 DEF IInv, FactsOfOneParse, StoreTorn
<1>10. /\ FactsAfterParse' /\ \A u \in User : EditSees(u)'
       /\ PromotedFlagAgrees' /\ CalibrationStands'
  BY FactsFrame DEF StoreTorn, Ended
<1> QED
  BY <1>2, <1>6, <1>7, <1>9, <1>10 DEF IInv

LEMMA IUpload ==
  ASSUME IInv, NEW d \in Doc, NEW c \in Content, Upload(d, c)
  PROVE  IInv'
<1> DEFINE row == [status |-> "parse_pending", content |-> c, run |-> "none"]
<1>1. row \in DocRow /\ row # NoDoc
  BY DEF DocRow, NoDoc
<1>2. Stored(c) \in {"torn", "whole"}
  BY DEF IInv, TypeOK, Stored
<1>3. /\ file' \in [Content -> {"absent", "torn", "whole"}]
      /\ doc' \in [Doc -> DocRow \cup {NoDoc}]
      /\ upload' \in [Doc -> {"none", "committed", "fallback", "answered",
                              "refused", "cut"}]
  BY <1>1, <1>2 DEF IInv, TypeOK, Upload
<1>4. TypeOK'
  BY <1>3 DEF IInv, TypeOK, Upload
<1>5. \A b \in Content : file[b] # "absent" => file'[b] = file[b]
  BY DEF IInv, TypeOK, Upload, Stored
<1>6. file'[c] # "absent"
  BY <1>2 DEF IInv, TypeOK, Upload
<1>7. /\ doc'[d] = row /\ upload'[d] = "committed"
      /\ \A e \in Doc \ {d} : doc'[e] = doc[e] /\ upload'[e] = upload[e]
  BY DEF IInv, TypeOK, Upload
<1>8. \A e \in Doc : doc[e] # NoDoc => doc[e].content \in Content
  BY DEF IInv, TypeOK, DocRow
<1>9. ASSUME NEW e \in Doc PROVE Live(e)' = Live(e)
  BY DEF Live, Upload
<1>10. upload[d] = "none" /\ job[d] = "none" /\ \A r \in Run : ~Open(d, r)
  BY DEF IInv, Upload, UploadOrdered, ParseExclusive, Claimed
<1>11. ASSUME NEW e \in Doc PROVE UploadOrdered(e)'
  <2>1. CASE e = d
    BY <2>1, <1>1, <1>6, <1>7, <1>10 DEF UploadOrdered, Upload
  <2>2. CASE e # d
    BY <2>2, <1>5, <1>7, <1>8 DEF IInv, UploadOrdered, Upload
  <2> QED
    BY <2>1, <2>2
<1>12. ASSUME NEW e \in Doc PROVE ParseExclusive(e)'
  <2>1. \A r \in Run : Open(e, r) => Claimed(e, r)'
    BY <1>7, <1>10 DEF IInv, ParseExclusive, Claimed, Upload
  <2> QED
    BY <2>1, <1>9 DEF IInv, ParseExclusive, Open, Upload
<1>13. \A f \in FactsOf(d) : facts[f] = NoFact
  BY <1>10, RunsAre DEF IInv, FactsAfterParse, Ended, FactsOf, Fact
<1>14. Live(d) = {}
  BY <1>13 DEF Live
<1>15. ASSUME NEW e \in Doc
       PROVE  /\ \A f \in Live(e)' : f.run = doc'[e].run
              /\ doc'[e].status = "parsed" /\ file'[doc'[e].content] = "whole" =>
                   {f.measure : f \in Live(e)'} = doc'[e].content
  <2>1. CASE e = d
    BY <2>1, <1>7, <1>9, <1>14
  <2>2. CASE e # d
    <3>1. doc[e].status = "parsed" => file'[doc[e].content] = file[doc[e].content]
      BY <1>5, <1>8 DEF IInv, UploadOrdered, NoDoc
    <3> QED
      BY <2>2, <3>1, <1>7, <1>9 DEF IInv, FactsOfOneParse
  <2> QED
    BY <2>1, <2>2
<1>16. FactsOfOneParse'
  BY <1>15 DEF FactsOfOneParse
<1>17. \A e \in Doc, r \in Run : Ended(e, r) => Ended(e, r)'
  BY <1>7, <1>10 DEF Ended, Upload
<1>18. /\ FactsAfterParse' /\ \A u \in User : EditSees(u)'
       /\ PromotedFlagAgrees' /\ CalibrationStands'
  BY <1>17, FactsFrame DEF Upload
<1> QED
  BY <1>4, <1>11, <1>12, <1>16, <1>18 DEF IInv

LEMMA IEnqueue ==
  ASSUME IInv, NEW d \in Doc, Enqueue(d)
  PROVE  IInv'
<1>1. /\ upload' \in [Doc -> {"none", "committed", "fallback", "answered",
                              "refused", "cut"}]
      /\ job' \in [Doc -> {"none", "todo", "doing", "done", "failed"}]
  BY DEF IInv, TypeOK, Enqueue
<1>2. TypeOK'
  BY <1>1 DEF IInv, TypeOK, Enqueue
<1>3. /\ \A e \in Doc \ {d} : upload'[e] = upload[e] /\ job'[e] = job[e]
      /\ upload[d] = "committed" /\ upload'[d] \in {"answered", "fallback"}
  BY DEF IInv, TypeOK, Enqueue
<1>4. job[d] = "none" /\ \A r \in Run : ~Open(d, r)
  BY <1>3 DEF IInv, UploadOrdered, ParseExclusive, Claimed
<1>5. ASSUME NEW e \in Doc PROVE UploadOrdered(e)' /\ ParseExclusive(e)'
  <2>1. CASE e = d
    <3>1. UploadOrdered(d)'
      BY <1>3 DEF IInv, UploadOrdered, Enqueue
    <3>2. Live(d)' = Live(d)
      BY DEF Live, Enqueue
    <3>3. ParseExclusive(d)'
      BY <1>4, <3>2 DEF IInv, ParseExclusive, Open, Enqueue
    <3> QED
      BY <2>1, <3>1, <3>3
  <2>2. CASE e # d
    BY <2>2, <1>3, DocFrame DEF Enqueue
  <2> QED
    BY <2>1, <2>2
<1>6. \A e \in Doc, r \in Run : Ended(e, r) => Ended(e, r)'
  BY <1>3, <1>4 DEF Ended
<1>7. FactsOfOneParse'
  BY OneParseFrame DEF Enqueue
<1>8. /\ FactsAfterParse' /\ \A u \in User : EditSees(u)'
      /\ PromotedFlagAgrees' /\ CalibrationStands'
  BY <1>6, FactsFrame DEF Enqueue
<1> QED
  BY <1>2, <1>5, <1>7, <1>8 DEF IInv

LEMMA IRequestCut ==
  ASSUME IInv, NEW d \in Doc, RequestCut(d)
  PROVE  IInv'
<1>1. /\ upload' \in [Doc -> {"none", "committed", "fallback", "answered",
                              "refused", "cut"}]
      /\ parse' \in [Doc -> [Run -> ParseTxn \cup {NoParse}]]
  BY RunsAre DEF IInv, TypeOK, RequestCut
<1>2. TypeOK'
  BY <1>1 DEF IInv, TypeOK, RequestCut
<1>3. /\ \A e \in Doc \ {d} : upload'[e] = upload[e] /\ parse'[e] = parse[e]
      /\ upload[d] \in {"committed", "fallback"} /\ upload'[d] = "cut"
      /\ parse'[d]["fallback"] = NoParse /\ parse'[d]["worker"] = parse[d]["worker"]
  BY RunsAre DEF IInv, TypeOK, RequestCut
<1>4. ASSUME NEW e \in Doc PROVE UploadOrdered(e)' /\ ParseExclusive(e)'
  <2>1. CASE e = d
    <3>1. UploadOrdered(d)'
      BY <1>3 DEF IInv, UploadOrdered, RequestCut
    <3>2. Live(d)' = Live(d)
      BY DEF Live, RequestCut
    <3>3. \A r \in Run : \/ r = "worker" /\ parse'[d][r] = parse[d][r]
                         \/ parse'[d][r] = NoParse
      BY <1>3, RunsAre
    <3>4. ParseExclusive(d)'
      BY <3>2, <3>3 DEF IInv, ParseExclusive, Open, Claimed, NoParse, RequestCut
    <3> QED
      BY <2>1, <3>1, <3>4
  <2>2. CASE e # d
    BY <2>2, <1>3, DocFrame DEF RequestCut
  <2> QED
    BY <2>1, <2>2
<1>5. \A e \in Doc, r \in Run : Ended(e, r) => Ended(e, r)'
  BY <1>3 DEF Ended, RequestCut
<1>6. FactsOfOneParse'
  BY OneParseFrame DEF RequestCut
<1>7. /\ FactsAfterParse' /\ \A u \in User : EditSees(u)'
      /\ PromotedFlagAgrees' /\ CalibrationStands'
  BY <1>5, FactsFrame DEF RequestCut
<1> QED
  BY <1>2, <1>4, <1>6, <1>7 DEF IInv

-----------------------------------------------------------------------------
(* The parse                                                               *)

LEMMA IParseStart ==
  ASSUME IInv, NEW d \in Doc, NEW r \in Run, ParseStart(d, r)
  PROVE  IInv'
<1> DEFINE txn == [stage |-> "locked", doomed |-> {}]
<1>1. txn \in ParseTxn
  BY DEF ParseTxn
<1>2. /\ parse' \in [Doc -> [Run -> ParseTxn \cup {NoParse}]]
      /\ job' \in [Doc -> {"none", "todo", "doing", "done", "failed"}]
  BY <1>1 DEF IInv, TypeOK, ParseStart
<1>3. TypeOK'
  BY <1>2 DEF IInv, TypeOK, ParseStart
<1>4. /\ \A e \in Doc \ {d} : parse'[e] = parse[e] /\ job'[e] = job[e]
      /\ parse'[d][r] = txn /\ \A s \in Run \ {r} : parse'[d][s] = parse[d][s]
      /\ job'[d] = IF r = "worker" THEN "doing" ELSE job[d]
  BY DEF IInv, TypeOK, ParseStart
<1>5. \A s \in Run : ~Open(d, s)
  BY DEF Open, Locked, ParseStart
<1>6. Waiting(d, r)
  BY DEF ParseStart
<1>7. ASSUME NEW e \in Doc PROVE UploadOrdered(e)' /\ ParseExclusive(e)'
  <2>1. CASE e = d
    <3>1. UploadOrdered(d)'
      BY <1>4, <1>6 DEF IInv, UploadOrdered, Waiting, ParseStart
    <3>2. Claimed(d, r)'
      BY <1>4, <1>6 DEF Claimed, Waiting, ParseStart
    <3>3. ParseExclusive(d)'
      BY <1>4, <1>5, <3>2 DEF IInv, ParseExclusive, Open
    <3> QED
      BY <2>1, <3>1, <3>3
  <2>2. CASE e # d
    BY <2>2, <1>4, DocFrame DEF ParseStart
  <2> QED
    BY <2>1, <2>2
<1>8. \A e \in Doc, s \in Run : Ended(e, s) => Ended(e, s)'
  BY <1>4, <1>6 DEF Ended, Waiting, ParseStart
<1>9. FactsOfOneParse'
  BY OneParseFrame DEF ParseStart
<1>10. /\ FactsAfterParse' /\ \A u \in User : EditSees(u)'
       /\ PromotedFlagAgrees' /\ CalibrationStands'
  BY <1>8, FactsFrame DEF ParseStart
<1> QED
  BY <1>3, <1>7, <1>9, <1>10 DEF IInv

LEMMA IParseClear ==
  ASSUME IInv, NEW d \in Doc, NEW r \in Run, ParseClear(d, r)
  PROVE  IInv'
<1> DEFINE txn == [stage |-> "cleared", doomed |-> Live(d)]
<1>1. Live(d) \subseteq FactsOf(d) /\ FactsOf(d) \subseteq Fact
  BY DEF Live, FactsOf
<1>2. txn \in ParseTxn
  BY <1>1 DEF ParseTxn
<1>3. parse' \in [Doc -> [Run -> ParseTxn \cup {NoParse}]]
  BY <1>2 DEF IInv, TypeOK, ParseClear
<1>4. TypeOK'
  BY <1>3 DEF IInv, TypeOK, ParseClear
<1>5. /\ \A e \in Doc \ {d} : parse'[e] = parse[e]
      /\ parse'[d][r] = txn /\ \A s \in Run \ {r} : parse'[d][s] = parse[d][s]
  BY DEF IInv, TypeOK, ParseClear
<1>6. Open(d, r)
  BY DEF Open, ParseClear
<1>7. ASSUME NEW e \in Doc PROVE UploadOrdered(e)' /\ ParseExclusive(e)'
  <2>1. CASE e = d
    <3>1. UploadOrdered(d)'
      BY DEF IInv, UploadOrdered, ParseClear
    <3>2. Live(d)' = Live(d)
      BY DEF Live, ParseClear
    <3>3. \A s \in Run : Open(d, s)' => Open(d, s)
      BY <1>5, <1>6 DEF Open
    <3>4. \A s \in Run : Claimed(d, s)' <=> Claimed(d, s)
      BY DEF Claimed, ParseClear
    <3>5. ParseExclusive(d)'
      BY <1>1, <1>5, <3>2, <3>3, <3>4 DEF IInv, ParseExclusive
    <3> QED
      BY <2>1, <3>1, <3>5
  <2>2. CASE e # d
    BY <2>2, <1>5, DocFrame DEF ParseClear
  <2> QED
    BY <2>1, <2>2
<1>8. FactsOfOneParse'
  BY OneParseFrame DEF ParseClear
<1>9. /\ FactsAfterParse' /\ \A u \in User : EditSees(u)'
      /\ PromotedFlagAgrees' /\ CalibrationStands'
  BY FactsFrame DEF ParseClear, Ended
<1> QED
  BY <1>4, <1>7, <1>8, <1>9 DEF IInv

LEMMA EndsFrees ==
  ASSUME IInv, NEW d \in Doc, NEW r \in Run,
         NEW asJob \in {"done", "failed"}, NEW asRequest \in {"answered", "refused"},
         Open(d, r), Ends(d, r, asJob, asRequest)
  PROVE  /\ parse' \in [Doc -> [Run -> ParseTxn \cup {NoParse}]]
         /\ job' \in [Doc -> {"none", "todo", "doing", "done", "failed"}]
         /\ upload' \in [Doc -> {"none", "committed", "fallback", "answered",
                                 "refused", "cut"}]
         /\ \A e \in Doc \ {d} :
              parse'[e] = parse[e] /\ job'[e] = job[e] /\ upload'[e] = upload[e]
         /\ \A s \in Run : ~Open(d, s)' /\ parse'[d][s].doomed \subseteq FactsOf(d)
         /\ \A e \in Doc, s \in Run : Ended(e, s) => Ended(e, s)'
         /\ upload[d] # "none" /\ upload'[d] # "none"
         /\ job'[d] # "none" => upload'[d] # "committed"
         /\ asJob = "done" /\ asRequest = "answered" => Ended(d, r)'
         /\ ~Ended(d, r)
<1>1. /\ parse' \in [Doc -> [Run -> ParseTxn \cup {NoParse}]]
      /\ job' \in [Doc -> {"none", "todo", "doing", "done", "failed"}]
      /\ upload' \in [Doc -> {"none", "committed", "fallback", "answered",
                              "refused", "cut"}]
  BY DEF IInv, TypeOK, Ends
<1>2. /\ \A e \in Doc \ {d} :
           parse'[e] = parse[e] /\ job'[e] = job[e] /\ upload'[e] = upload[e]
      /\ parse'[d][r] = NoParse /\ \A s \in Run \ {r} : parse'[d][s] = parse[d][s]
      /\ job'[d] = IF r = "worker" THEN asJob ELSE job[d]
      /\ upload'[d] = IF r = "fallback" THEN asRequest ELSE upload[d]
  BY DEF IInv, TypeOK, Ends
<1>3. \A s \in Run : ~Open(d, s)'
  BY <1>2 DEF IInv, ParseExclusive, Open, NoParse
<1>4. \A s \in Run : parse'[d][s].doomed \subseteq FactsOf(d)
  BY <1>2 DEF IInv, ParseExclusive, NoParse
<1>5. Claimed(d, r)
  BY DEF IInv, ParseExclusive
<1>6. /\ upload[d] # "none" /\ upload'[d] # "none"
      /\ job'[d] # "none" => upload'[d] # "committed"
  BY <1>2, <1>5, RunsAre DEF IInv, UploadOrdered, Claimed
<1>7. ~Ended(d, r) /\ (asJob = "done" /\ asRequest = "answered" => Ended(d, r)')
  BY <1>2, <1>5, RunsAre DEF Ended, Claimed
<1>8. ASSUME NEW e \in Doc, NEW s \in Run, Ended(e, s) PROVE Ended(e, s)'
  BY <1>2, <1>5, <1>8, RunsAre DEF Ended, Claimed
<1> QED
  BY <1>1, <1>2, <1>3, <1>4, <1>6, <1>7, <1>8

LEMMA IParseRaises ==
  ASSUME IInv, NEW d \in Doc, NEW r \in Run, ParseRaises(d, r)
  PROVE  IInv'
<1>1. Open(d, r) /\ Ends(d, r, "failed", "refused")
  BY DEF Open, ParseRaises
<1>2. TypeOK'
  BY <1>1, EndsFrees DEF IInv, TypeOK, ParseRaises
<1>3. ASSUME NEW e \in Doc PROVE UploadOrdered(e)' /\ ParseExclusive(e)'
  <2>1. CASE e = d
    <3>1. UploadOrdered(d)'
      BY <1>1, EndsFrees DEF IInv, UploadOrdered, ParseRaises
    <3>2. \A s \in Run : ~Open(d, s)' /\ parse'[d][s].doomed \subseteq FactsOf(d)
      BY <1>1, EndsFrees
    <3>3. ParseExclusive(d)'
      BY <3>2 DEF ParseExclusive, Open
    <3> QED
      BY <2>1, <3>1, <3>3
  <2>2. CASE e # d
    <3>1. parse'[e] = parse[e] /\ job'[e] = job[e] /\ upload'[e] = upload[e]
      BY <2>2, <1>1, EndsFrees
    <3> QED
      BY <3>1, DocFrame DEF ParseRaises
  <2> QED
    BY <2>1, <2>2
<1>4. \A e \in Doc, s \in Run : Ended(e, s) => Ended(e, s)'
  BY <1>1, EndsFrees
<1>5. FactsOfOneParse'
  BY OneParseFrame DEF ParseRaises
<1>6. /\ FactsAfterParse' /\ \A u \in User : EditSees(u)'
      /\ PromotedFlagAgrees' /\ CalibrationStands'
  BY <1>4, FactsFrame DEF ParseRaises
<1> QED
  BY <1>2, <1>3, <1>5, <1>6 DEF IInv

LEMMA IParseFails ==
  ASSUME IInv, NEW d \in Doc, ParseFails(d)
  PROVE  IInv'
<1>1. Open(d, "worker") /\ Ends(d, "worker", "done", "refused") /\ "worker" \in Run
  BY RunsAre DEF Open, ParseFails
<1>2. upload[d] # "none" /\ doc[d] \in DocRow
  <2>1. upload[d] # "none"
    BY <1>1, EndsFrees
  <2> QED
    BY <2>1 DEF IInv, TypeOK, UploadOrdered
<1>3. [status |-> "parse_failed", content |-> doc[d].content, run |-> doc[d].run]
        \in DocRow
  BY <1>2 DEF DocRow, Settled
<1>4. /\ doc' \in [Doc -> DocRow \cup {NoDoc}]
      /\ \A e \in Doc \ {d} : doc'[e] = doc[e]
      /\ doc'[d].status = "parse_failed" /\ doc'[d].content = doc[d].content
      /\ doc'[d].run = doc[d].run
  BY <1>3 DEF IInv, TypeOK, ParseFails
<1>5. TypeOK'
  BY <1>1, <1>4, EndsFrees DEF IInv, TypeOK, ParseFails
<1>6. doc[d] # NoDoc /\ doc'[d] # NoDoc
  BY <1>2, <1>4 DEF IInv, UploadOrdered, NoDoc
<1>7. ASSUME NEW e \in Doc PROVE Live(e)' = Live(e)
  BY DEF Live, ParseFails
<1>8. ASSUME NEW e \in Doc PROVE UploadOrdered(e)' /\ ParseExclusive(e)'
  <2>1. CASE e = d
    <3>1. upload'[d] # "none" /\ (job'[d] # "none" => upload'[d] # "committed")
      BY <1>1, EndsFrees
    <3>2. UploadOrdered(d)'
      BY <1>4, <1>6, <3>1 DEF IInv, UploadOrdered, ParseFails
    <3>3. \A s \in Run : ~Open(d, s)' /\ parse'[d][s].doomed \subseteq FactsOf(d)
      BY <1>1, EndsFrees
    <3>4. ParseExclusive(d)'
      BY <3>3 DEF ParseExclusive, Open
    <3> QED
      BY <2>1, <3>2, <3>4
  <2>2. CASE e # d
    <3>1. parse'[e] = parse[e] /\ job'[e] = job[e] /\ upload'[e] = upload[e]
      BY <2>2, <1>1, EndsFrees
    <3>2. UploadOrdered(e)'
      BY <2>2, <1>4, <3>1 DEF IInv, UploadOrdered, ParseFails
    <3>3. ParseExclusive(e)'
      BY <1>7, <3>1 DEF IInv, ParseExclusive, Open, Claimed
    <3> QED
      BY <3>2, <3>3
  <2> QED
    BY <2>1, <2>2
<1>9. \A e \in Doc, s \in Run : Ended(e, s) => Ended(e, s)'
  BY <1>1, EndsFrees
<1>10. ASSUME NEW e \in Doc
       PROVE  /\ \A f \in Live(e)' : f.run = doc'[e].run
              /\ doc'[e].status = "parsed" /\ file'[doc'[e].content] = "whole" =>
                   {f.measure : f \in Live(e)'} = doc'[e].content
  BY <1>4, <1>7 DEF IInv, FactsOfOneParse, ParseFails
<1>11. FactsOfOneParse'
  BY <1>10 DEF FactsOfOneParse
<1>12. /\ FactsAfterParse' /\ \A u \in User : EditSees(u)'
       /\ PromotedFlagAgrees' /\ CalibrationStands'
  BY <1>9, FactsFrame DEF ParseFails
<1> QED
  BY <1>5, <1>8, <1>11, <1>12 DEF IInv

\* What a commit leaves: for its document the new facts, for others theirs.
LEMMA CommitFacts ==
  ASSUME IInv, NEW d \in Doc, NEW r \in Run, ParseCommit(d, r),
         NEW ms \in SUBSET Measure,
         facts' = [f \in Fact |->
                     IF f \in parse[d][r].doomed THEN NoFact
                     ELSE IF f.doc = d /\ f.run = r /\ f.measure \in ms
                       THEN ExtractedFact
                     ELSE facts[f]]
  PROVE  /\ facts' \in [Fact -> FactRow \cup {NoFact}]
         /\ \A e \in Doc \ {d} : Live(e)' = Live(e) /\ \A f \in Live(e) : facts'[f] = facts[f]
         /\ Live(d)' = {f \in FactsOf(d) : f.run = r /\ f.measure \in ms}
         /\ \A f \in Live(d)' : facts'[f] = ExtractedFact /\ ~Ended(f.doc, f.run)
         /\ \A f \in Fact : Ended(f.doc, f.run) => facts'[f] \in {NoFact, facts[f]}
<1>1. ExtractedFact \in FactRow /\ ExtractedFact # NoFact
  BY DEF ExtractedFact, FactRow, Review, NoFact
<1>2. facts' \in [Fact -> FactRow \cup {NoFact}]
  BY <1>1 DEF IInv, TypeOK
<1>3. parse[d][r].doomed = Live(d)
  BY DEF IInv, ParseExclusive, ParseCommit
<1>4. Open(d, r) /\ Ends(d, r, "done", "answered")
  BY DEF Open, ParseCommit
<1>5. ~Ended(d, r)
  BY <1>4, EndsFrees
<1>6. \A f \in FactsOf(d) : f.run = r => facts[f] = NoFact
  BY <1>5 DEF IInv, FactsAfterParse, FactsOf
<1>7. \A f \in FactsOf(d) : facts'[f] = IF f.run = r /\ f.measure \in ms
                                          THEN ExtractedFact ELSE NoFact
  BY <1>3, <1>6 DEF Live, FactsOf
<1>8. \A f \in Fact : f.doc # d => facts'[f] = facts[f]
  BY <1>3 DEF Live, FactsOf
<1>9. ASSUME NEW e \in Doc \ {d}
      PROVE  Live(e)' = Live(e) /\ \A f \in Live(e) : facts'[f] = facts[f]
  BY <1>8 DEF Live, FactsOf
<1>10. Live(d)' = {f \in FactsOf(d) : f.run = r /\ f.measure \in ms}
  BY <1>1, <1>7 DEF Live
<1>11. \A f \in Live(d)' : facts'[f] = ExtractedFact /\ ~Ended(f.doc, f.run)
  BY <1>5, <1>7, <1>10 DEF FactsOf
<1>12. \A f \in Fact : Ended(f.doc, f.run) => facts'[f] \in {NoFact, facts[f]}
  BY <1>5, <1>7, <1>8 DEF FactsOf
<1> QED
  BY <1>2, <1>9, <1>10, <1>11, <1>12

LEMMA IParseCommit ==
  ASSUME IInv, NEW d \in Doc, NEW r \in Run, ParseCommit(d, r)
  PROVE  IInv'
<1>1. Open(d, r) /\ Ends(d, r, "done", "answered")
  BY DEF Open, ParseCommit
<1>2. upload[d] # "none" /\ doc[d] \in DocRow
  <2>1. upload[d] # "none"
    BY <1>1, EndsFrees
  <2> QED
    BY <2>1 DEF IInv, TypeOK, UploadOrdered
<1>3. doc[d].content \in Content /\ doc[d].content \subseteq Measure
  BY <1>2, ContentAssumption DEF DocRow
<1>4. PICK ms \in Readable(doc[d].content) :
        /\ facts' = [f \in Fact |->
                       IF f \in parse[d][r].doomed THEN NoFact
                       ELSE IF f.doc = d /\ f.run = r /\ f.measure \in ms
                         THEN ExtractedFact
                       ELSE facts[f]]
        /\ \E status \in Outcome(ms) :
             doc' = [doc EXCEPT ![d] = [status |-> status, content |-> @.content,
                                        run |-> r]]
  BY DEF ParseCommit
<1>5. /\ ms \in SUBSET Measure
      /\ file[doc[d].content] = "whole" => ms = doc[d].content
  BY <1>3 DEF Readable
<1>6. PICK status \in Outcome(ms) :
        doc' = [doc EXCEPT ![d] = [status |-> status, content |-> doc[d].content,
                                   run |-> r]]
  BY <1>4
<1>7. status \in Settled
  BY DEF Outcome, Settled
<1>8. [status |-> status, content |-> doc[d].content, run |-> r] \in DocRow
  BY <1>3, <1>7 DEF DocRow
<1>9. /\ doc' \in [Doc -> DocRow \cup {NoDoc}]
      /\ \A e \in Doc \ {d} : doc'[e] = doc[e]
      /\ doc'[d] = [status |-> status, content |-> doc[d].content, run |-> r]
  BY <1>6, <1>8 DEF IInv, TypeOK
<1>c. /\ facts' \in [Fact -> FactRow \cup {NoFact}]
      /\ \A e \in Doc \ {d} : Live(e)' = Live(e) /\ \A f \in Live(e) : facts'[f] = facts[f]
      /\ Live(d)' = {f \in FactsOf(d) : f.run = r /\ f.measure \in ms}
      /\ \A f \in Live(d)' : facts'[f] = ExtractedFact /\ ~Ended(f.doc, f.run)
      /\ \A f \in Fact : Ended(f.doc, f.run) => facts'[f] \in {NoFact, facts[f]}
  BY <1>4, <1>5, CommitFacts
<1>10. TypeOK'
  <2>1. /\ parse' \in [Doc -> [Run -> ParseTxn \cup {NoParse}]]
        /\ job' \in [Doc -> {"none", "todo", "doing", "done", "failed"}]
        /\ upload' \in [Doc -> {"none", "committed", "fallback", "answered",
                                "refused", "cut"}]
    BY <1>1, EndsFrees
  <2>2. /\ file' \in [Content -> {"absent", "torn", "whole"}]
        /\ properties' \in Seq(Property) /\ Len(properties') <= MaxPromotions
        /\ edit' \in [User -> EditTxn \cup {NoEdit}]
    BY DEF IInv, TypeOK, ParseCommit
  <2> QED
    BY <2>1, <2>2, <1>9, <1>c DEF TypeOK
<1>11. doc[d] # NoDoc /\ doc'[d] # NoDoc
  BY <1>2, <1>7, <1>9 DEF IInv, UploadOrdered, NoDoc, Settled
<1>12. ASSUME NEW e \in Doc PROVE UploadOrdered(e)' /\ ParseExclusive(e)'
  <2>1. CASE e = d
    <3>1. upload'[d] # "none" /\ (job'[d] # "none" => upload'[d] # "committed")
      BY <1>1, EndsFrees
    <3>2. UploadOrdered(d)'
      BY <1>9, <1>11, <3>1 DEF IInv, UploadOrdered, ParseCommit
    <3>3. \A s \in Run : ~Open(d, s)' /\ parse'[d][s].doomed \subseteq FactsOf(d)
      BY <1>1, EndsFrees
    <3>4. ParseExclusive(d)'
      BY <3>3 DEF ParseExclusive, Open
    <3> QED
      BY <2>1, <3>2, <3>4
  <2>2. CASE e # d
    <3>1. parse'[e] = parse[e] /\ job'[e] = job[e] /\ upload'[e] = upload[e]
      BY <2>2, <1>1, EndsFrees
    <3>2. Live(e)' = Live(e)
      BY <2>2, <1>c
    <3>3. UploadOrdered(e)'
      BY <2>2, <1>9, <3>1 DEF IInv, UploadOrdered, ParseCommit
    <3>4. ParseExclusive(e)'
      BY <3>1, <3>2 DEF IInv, ParseExclusive, Open, Claimed
    <3> QED
      BY <3>3, <3>4
  <2> QED
    BY <2>1, <2>2
<1>13. \A e \in Doc, s \in Run : Ended(e, s) => Ended(e, s)'
  BY <1>1, EndsFrees
<1>14. \A f \in Fact : Promoted(f)' <=> Promoted(f)
  BY DEF Promoted, ParseCommit
<1>15. \A f \in Fact : facts'[f] # NoFact => facts[f] # NoFact \/ (f.doc = d /\ f.run = r)
  BY <1>4
<1>16. FactsAfterParse'
  <2>1. Ended(d, r)'
    BY <1>1, EndsFrees
  <2>2. \A f \in Fact : f.doc \in Doc /\ f.run \in Run
    BY DEF Fact
  <2> QED
    BY <2>1, <2>2, <1>13, <1>14, <1>15 DEF IInv, FactsAfterParse
<1>17. ASSUME NEW e \in Doc
       PROVE  /\ \A f \in Live(e)' : f.run = doc'[e].run
              /\ doc'[e].status = "parsed" /\ file'[doc'[e].content] = "whole" =>
                   {f.measure : f \in Live(e)'} = doc'[e].content
  <2>1. CASE e = d
    <3>1. Live(d)' = {f \in FactsOf(d) : f.run = r /\ f.measure \in ms}
      BY <1>c
    <3>2. ASSUME NEW m \in ms PROVE \E f \in Live(d)' : f.measure = m
      <4>1. [doc |-> d, run |-> r, measure |-> m] \in FactsOf(d)
        BY <1>5 DEF FactsOf, Fact
      <4> QED
        BY <3>1, <4>1
    <3>3. \A f \in Live(d)' : f.measure \in ms
      BY <3>1
    <3>4. {f.measure : f \in Live(d)'} = ms
      BY <3>2, <3>3
    <3> QED
      BY <2>1, <1>5, <1>9, <3>1, <3>4 DEF ParseCommit
  <2>2. CASE e # d
    <3>1. Live(e)' = Live(e)
      BY <2>2, <1>c
    <3> QED
      BY <2>2, <3>1, <1>9 DEF IInv, FactsOfOneParse, ParseCommit
  <2> QED
    BY <2>1, <2>2
<1>18. FactsOfOneParse'
  BY <1>17 DEF FactsOfOneParse
<1>19. \A f \in Fact : Ended(f.doc, f.run) => facts'[f] \in {NoFact, facts[f]}
  BY <1>c
<1>20. ASSUME NEW u \in User PROVE EditSees(u)'
  <2>1. edit' = edit
    BY DEF ParseCommit
  <2>2. edit[u].stage = "loaded" => edit[u].fact \in Fact
    BY DEF IInv, TypeOK, EditTxn, NoEdit
  <2>3. edit[u].stage = "loaded" => edit[u].fact.doc \in Doc /\ edit[u].fact.run \in Run
    BY <2>2 DEF Fact
  <2> QED
    BY <2>1, <2>2, <2>3, <1>13, <1>14, <1>19 DEF IInv, EditSees
<1>21. ASSUME NEW e \in Doc, NEW f \in Live(e)'
       PROVE  facts'[f].promoted <=> Promoted(f)'
  <2>1. f \in Fact
    BY DEF Live, FactsOf
  <2>2. CASE e = d
    <3>1. facts'[f] = ExtractedFact /\ ~Ended(f.doc, f.run)
      BY <2>2, <1>c
    <3> QED
      BY <2>1, <3>1, <1>14 DEF IInv, FactsAfterParse, ExtractedFact
  <2>3. CASE e # d
    <3>1. f \in Live(e) /\ facts'[f] = facts[f]
      BY <2>3, <1>c
    <3> QED
      BY <2>1, <3>1, <1>14 DEF IInv, PromotedFlagAgrees, Promoted
  <2> QED
    BY <2>2, <2>3
<1>22. PromotedFlagAgrees'
  BY <1>21 DEF PromotedFlagAgrees, Promoted
<1>23. CalibrationStands'
  <2>1. properties' = properties
    BY DEF ParseCommit
  <2>2. \A i \in 1 .. Len(properties) : properties[i].fact \in Fact
    <3>1. properties \in Seq(Property)
      BY DEF IInv, TypeOK
    <3>2. \A i \in 1 .. Len(properties) : properties[i] \in Property
      BY <3>1
    <3> QED
      BY <3>2 DEF Property
  <2>3. \A i \in 1 .. Len(properties) :
          Ended(properties[i].fact.doc, properties[i].fact.run)
    BY <2>2 DEF IInv, FactsAfterParse, Promoted
  <2> QED
    BY <2>1, <2>2, <2>3, <1>19 DEF IInv, CalibrationStands
<1> QED
  BY <1>10, <1>12, <1>16, <1>18, <1>20, <1>22, <1>23 DEF IInv

-----------------------------------------------------------------------------
(* Edits and promotions                                                    *)

LEMMA EditTyped ==
  ASSUME IInv, NEW u \in User, edit[u].stage = "loaded"
  PROVE  /\ edit[u] \in EditTxn
         /\ edit[u].fact \in Fact /\ edit[u].seen \in FactRow
         /\ edit[u].fact.doc \in Doc /\ edit[u].fact.run \in Run
         /\ edit[u].seen.promoted \in BOOLEAN /\ edit[u].change.promote \in BOOLEAN
         /\ edit[u].seen.calibration \in Calibration \cup {"none"}
         /\ edit[u].change.calibration \in Calibration \cup {Keep}
<1>1. edit[u] \in EditTxn
  BY DEF IInv, TypeOK, NoEdit
<1>2. edit[u].fact \in Fact /\ edit[u].seen \in FactRow /\ edit[u].change \in Change
  BY <1>1 DEF EditTxn
<1> QED
  BY <1>1, <1>2 DEF Fact, FactRow, Change

\* Steps of an edit that write nothing.
LEMMA EditFrame ==
  ASSUME IInv, UNCHANGED <<file, doc, upload, job, parse, facts, properties>>,
         edit' \in [User -> EditTxn \cup {NoEdit}],
         \A u \in User : EditSees(u)'
  PROVE  IInv'
<1>1. TypeOK'
  BY DEF IInv, TypeOK
<1>2. ASSUME NEW d \in Doc PROVE UploadOrdered(d)' /\ ParseExclusive(d)'
  BY DocFrame
<1>3. FactsOfOneParse'
  BY OneParseFrame
<1>4. \A d \in Doc : Live(d)' = Live(d)
  BY DEF Live
<1>5. FactsAfterParse'
  BY DEF IInv, FactsAfterParse, Promoted, Ended
<1>6. PromotedFlagAgrees'
  BY <1>4 DEF IInv, PromotedFlagAgrees
<1>7. CalibrationStands'
  BY DEF IInv, CalibrationStands
<1> QED
  BY <1>1, <1>2, <1>3, <1>5, <1>6, <1>7 DEF IInv

LEMMA IEditLoad ==
  ASSUME IInv, NEW u \in User, NEW f \in Fact, NEW change \in Change,
         EditLoad(u, f, change)
  PROVE  IInv'
<1> DEFINE e == [stage |-> "loaded", fact |-> f, seen |-> facts[f], change |-> change]
<1>1. facts[f] \in FactRow /\ f.doc \in Doc /\ f.run \in Run
  BY DEF IInv, TypeOK, EditLoad, Fact
<1>2. e \in EditTxn
  BY <1>1 DEF EditTxn
<1>3. /\ edit' \in [User -> EditTxn \cup {NoEdit}]
      /\ edit'[u] = e /\ \A w \in User \ {u} : edit'[w] = edit[w]
  BY <1>2 DEF IInv, TypeOK, EditLoad
<1>4. f \in Live(f.doc) /\ Ended(f.doc, f.run)
  BY <1>1 DEF IInv, FactsAfterParse, Live, FactsOf, EditLoad
<1>5. facts[f].promoted => Promoted(f)
  BY <1>1, <1>4 DEF IInv, PromotedFlagAgrees, Promoted
<1>6. change.promote => /\ change = Promotion
                        /\ f.measure \in Dimension => facts[f].calibration = "given"
  BY DEF EditLoad, Accepted, Promotable
<1>7. Promoted(f)' <=> Promoted(f)
  BY DEF Promoted, EditLoad
<1>8. EditSees(u)'
  BY <1>3, <1>4, <1>5, <1>6, <1>7 DEF EditSees, Ended, EditLoad
<1>9. ASSUME NEW w \in User \ {u} PROVE EditSees(w)'
  BY <1>3 DEF IInv, EditSees, Ended, Promoted, EditLoad
<1> QED
  BY <1>3, <1>8, <1>9, EditFrame DEF EditLoad

LEMMA IEditAbort ==
  ASSUME IInv, NEW u \in User, EditAbort(u)
  PROVE  IInv'
<1>1. /\ edit' \in [User -> EditTxn \cup {NoEdit}]
      /\ edit'[u] = NoEdit /\ \A w \in User \ {u} : edit'[w] = edit[w]
  BY DEF IInv, TypeOK, EditAbort
<1>2. EditSees(u)'
  BY <1>1 DEF EditSees, NoEdit
<1>3. ASSUME NEW w \in User \ {u} PROVE EditSees(w)'
  BY <1>1 DEF IInv, EditSees, Ended, Promoted, EditAbort
<1> QED
  BY <1>1, <1>2, <1>3, EditFrame DEF EditAbort

\* What an edit the table admits makes of a fact that is there: a calibration stays or is replaced,
\* sets the flag when it promotes, and leaves it alone otherwise.
LEMMA EditedKeeps ==
  ASSUME IInv, NEW u \in User, edit[u].stage = "loaded",
         facts[edit[u].fact] # NoFact, Storable(edit[u])
  PROVE  LET e == edit[u] IN
         /\ Edited(e) \in FactRow
         /\ facts[e.fact].calibration # "none" => Edited(e).calibration # "none"
         /\ e.change.promote => Edited(e).promoted
         /\ ~e.change.promote => Edited(e).promoted = facts[e.fact].promoted
<1> DEFINE e == edit[u]
<1> DEFINE row == facts[e.fact]
<1>1. /\ e \in EditTxn /\ e.fact \in Fact /\ e.seen \in FactRow /\ e.fact.doc \in Doc
      /\ e.seen.promoted \in BOOLEAN /\ e.change.promote \in BOOLEAN
      /\ e.change.calibration \in Calibration \cup {Keep}
  BY EditTyped
<1>2. row \in FactRow
  BY <1>1 DEF IInv, TypeOK
<1>3. /\ row.promoted \in BOOLEAN /\ row.status \in Review
      /\ row.calibration \in Calibration \cup {"none"}
  BY <1>2 DEF FactRow
<1>4. Wanted(e).status \in Review
  BY DEF Storable
<1>5. Wanted(e).promoted = (e.seen.promoted \/ e.change.promote)
  BY DEF Wanted
<1>6. /\ Edited(e).status \in Review
      /\ Edited(e).promoted = IF Wanted(e).promoted = e.seen.promoted
                              THEN row.promoted ELSE Wanted(e).promoted
      /\ Edited(e).calibration = IF e.change.calibration = Keep
                                 THEN row.calibration ELSE e.change.calibration
  BY <1>3, <1>4 DEF Edited, Written, Assigned
<1>7. Edited(e).promoted \in BOOLEAN /\ Edited(e).calibration \in Calibration \cup {"none"}
  BY <1>1, <1>3, <1>5, <1>6
<1>8. Edited(e) \in FactRow
  BY <1>6, <1>7 DEF Edited, FactRow
<1>9. row.calibration # "none" => Edited(e).calibration # "none"
  BY <1>1, <1>6 DEF Calibration
<1>10. e.seen.promoted => row.promoted
  <2>1. e.fact \in Live(e.fact.doc)
    BY <1>1 DEF Live, FactsOf
  <2> QED
    BY <1>1, <2>1 DEF IInv, EditSees, PromotedFlagAgrees, Promoted
<1>11. e.change.promote => Edited(e).promoted
  BY <1>1, <1>5, <1>6, <1>10
<1>12. ~e.change.promote => Edited(e).promoted = row.promoted
  BY <1>1, <1>5, <1>6
<1> QED
  BY <1>8, <1>9, <1>11, <1>12

\* A promotion that writes nothing found the flag set.
LEMMA IdlePromotion ==
  ASSUME IInv, NEW u \in User, edit[u].stage = "loaded",
         edit[u].change.promote, ~Writes(edit[u])
  PROVE  edit[u].seen.promoted
<1>1. edit[u].seen.promoted \in BOOLEAN
  BY EditTyped
<1>2. Wanted(edit[u]).promoted = TRUE
  BY DEF Wanted
<1>3. Wanted(edit[u]) = edit[u].seen
  BY DEF Writes
<1> QED
  BY <1>1, <1>2, <1>3

LEMMA IEditCommit ==
  ASSUME IInv, NEW u \in User, EditCommit(u)
  PROVE  IInv'
<1> DEFINE e == edit[u]
<1>1. e.stage = "loaded"
  BY DEF EditCommit
<1>f. PICK f \in Fact : f = edit[u].fact
  BY <1>1, EditTyped
<1> DEFINE made == [fact |-> f, calibrated |-> e.seen.calibration = "given"]
<1>2. /\ f \in Fact /\ f.doc \in Doc /\ f.run \in Run
      /\ e.change.promote \in BOOLEAN
  BY <1>f, <1>1, EditTyped
<1>3. /\ Ended(f.doc, f.run)
      /\ e.seen.promoted => Promoted(f)
      /\ e.change.promote => (f.measure \in Dimension => e.seen.calibration = "given")
      /\ e.seen.calibration # "none" /\ facts[f] # NoFact =>
           facts[f].calibration # "none"
  BY <1>f, <1>1 DEF IInv, EditSees
<1>4. Writes(e) => facts[f] # NoFact /\ Storable(e)
  BY <1>f DEF EditCommit
<1>5. /\ \A g \in Fact \ {f} : facts'[g] = facts[g]
      /\ Writes(e) => facts'[f] = Edited(e)
      /\ ~Writes(e) => facts' = facts
  BY <1>f, <1>2 DEF IInv, TypeOK, EditCommit
<1>6. Writes(e) => /\ Edited(e) \in FactRow
                   /\ facts[f].calibration # "none" => Edited(e).calibration # "none"
                   /\ e.change.promote => Edited(e).promoted
                   /\ ~e.change.promote => Edited(e).promoted = facts[f].promoted
  BY <1>f, <1>1, <1>4, EditedKeeps
<1>7. /\ facts' \in [Fact -> FactRow \cup {NoFact}]
      /\ \A g \in Fact : facts'[g] # NoFact <=> facts[g] # NoFact
      /\ \A g \in Fact : facts[g] # NoFact =>
           (facts[g].calibration # "none" => facts'[g].calibration # "none")
  <2>1. NoFact \notin FactRow
    BY DEF NoFact, FactRow, Review
  <2>2. CASE Writes(e)
    <3>1. facts' = [facts EXCEPT ![f] = Edited(e)] /\ Edited(e) \in FactRow
      BY <1>f, <2>2, <1>4, <1>6 DEF EditCommit
    <3>2. facts' \in [Fact -> FactRow \cup {NoFact}]
      BY <1>2, <3>1 DEF IInv, TypeOK
    <3> QED
      BY <2>1, <2>2, <3>1, <3>2, <1>4, <1>5, <1>6
  <2>3. CASE ~Writes(e)
    BY <2>3, <1>5 DEF IInv, TypeOK
  <2> QED
    BY <2>2, <2>3
<1>8. /\ e.change.promote => properties' = Append(properties, made)
                             /\ Len(properties) < MaxPromotions
      /\ ~e.change.promote => properties' = properties
  BY <1>f DEF EditCommit
<1>9. made \in Property /\ made.fact = f /\ made.calibrated = (e.seen.calibration = "given")
  BY <1>2 DEF Property
<1>10. properties \in Seq(Property) /\ Len(properties) \in Nat
       /\ Len(properties) <= MaxPromotions
  BY DEF IInv, TypeOK
<1>11. /\ properties' \in Seq(Property) /\ Len(properties') <= MaxPromotions
       /\ \A i \in 1 .. Len(properties') :
            \/ i \in 1 .. Len(properties) /\ properties'[i] = properties[i]
            \/ e.change.promote /\ properties'[i] = made
       /\ \A i \in 1 .. Len(properties) :
            i \in 1 .. Len(properties') /\ properties'[i] = properties[i]
       /\ e.change.promote => \E i \in 1 .. Len(properties') : properties'[i] = made
  <2>1. CASE e.change.promote
    <3>1. /\ properties' \in Seq(Property) /\ Len(properties') = Len(properties) + 1
          /\ \A i \in 1 .. Len(properties) : properties'[i] = properties[i]
          /\ properties'[Len(properties) + 1] = made
      BY <2>1, <1>8, <1>9, <1>10
    <3>2. Len(properties') <= MaxPromotions
      BY <2>1, <3>1, <1>8, <1>10, PromotionsAssumption
    <3> QED
      BY <2>1, <3>1, <3>2, <1>10
  <2>2. CASE ~e.change.promote
    BY <2>2, <1>8, <1>10
  <2> QED
    BY <2>1, <2>2
<1>12. /\ edit' \in [User -> EditTxn \cup {NoEdit}]
       /\ edit'[u] = NoEdit /\ \A w \in User \ {u} : edit'[w] = edit[w]
  BY DEF IInv, TypeOK, EditCommit
<1>13. TypeOK'
  BY <1>7, <1>11, <1>12 DEF IInv, TypeOK, EditCommit
<1>14. \A d \in Doc : Live(d)' = Live(d)
  BY <1>7 DEF Live, FactsOf
<1>15. ASSUME NEW d \in Doc PROVE UploadOrdered(d)' /\ ParseExclusive(d)'
  <2>1. UploadOrdered(d)'
    BY DEF IInv, UploadOrdered, EditCommit
  <2>2. ParseExclusive(d)'
    BY <1>14 DEF IInv, ParseExclusive, Open, Claimed, EditCommit
  <2> QED
    BY <2>1, <2>2
<1>16. FactsOfOneParse'
  BY <1>14 DEF IInv, FactsOfOneParse, EditCommit
<1>17. \A g \in Fact : /\ Promoted(g) => Promoted(g)'
                       /\ Promoted(g)' => Promoted(g) \/ (g = f /\ e.change.promote)
                       /\ e.change.promote => Promoted(f)'
  <2>1. ASSUME NEW g \in Fact, Promoted(g) PROVE Promoted(g)'
    BY <2>1, <1>11 DEF Promoted
  <2>2. ASSUME NEW g \in Fact, Promoted(g)' PROVE Promoted(g) \/ (g = f /\ e.change.promote)
    BY <2>2, <1>9, <1>11 DEF Promoted
  <2>3. ASSUME e.change.promote PROVE Promoted(f)'
    <3>1. \E i \in 1 .. Len(properties') : properties'[i].fact = f
      BY <2>3, <1>9, <1>11
    <3> QED
      BY <3>1 DEF Promoted
  <2> QED
    BY <2>1, <2>2, <2>3
<1>18. \A d \in Doc, r \in Run : Ended(d, r)' <=> Ended(d, r)
  BY DEF Ended, EditCommit
<1>19. FactsAfterParse'
  <2>1. \A g \in Fact : g.doc \in Doc /\ g.run \in Run
    BY DEF Fact
  <2> QED
    BY <2>1, <1>3, <1>7, <1>17, <1>18 DEF IInv, FactsAfterParse
<1>20. ASSUME NEW w \in User PROVE EditSees(w)'
  <2>1. CASE w = u
    BY <2>1, <1>12 DEF EditSees, NoEdit
  <2>2. CASE w # u
    <3>1. edit'[w] = edit[w]
      BY <2>2, <1>12
    <3> SUFFICES ASSUME edit[w].stage = "loaded" PROVE EditSees(w)'
      BY <3>1 DEF EditSees
    <3>2. edit[w].fact \in Fact /\ edit[w].fact.doc \in Doc /\ edit[w].fact.run \in Run
      BY EditTyped
    <3> QED
      BY <3>1, <3>2, <1>7, <1>17, <1>18 DEF IInv, EditSees
  <2> QED
    BY <2>1, <2>2
<1>21. ASSUME NEW d \in Doc, NEW g \in Live(d)
       PROVE  facts'[g].promoted <=> Promoted(g)'
  <2>1. g \in Fact /\ facts[g] # NoFact /\ (facts[g].promoted <=> Promoted(g))
    BY DEF IInv, PromotedFlagAgrees, Promoted, Live, FactsOf
  <2>2. CASE g # f
    BY <2>1, <2>2, <1>5, <1>17
  <2>3. CASE g = f /\ e.change.promote
    <3>1. facts'[f].promoted
      <4>1. CASE Writes(e)
        BY <2>1, <2>3, <4>1, <1>5, <1>6
      <4>2. CASE ~Writes(e)
        BY <2>1, <2>3, <4>2, <1>1, <1>3, <1>5, IdlePromotion
      <4> QED
        BY <4>1, <4>2
    <3>2. Promoted(f)'
      BY <2>3, <1>17
    <3> QED
      BY <2>3, <3>1, <3>2
  <2>4. CASE g = f /\ ~e.change.promote
    <3>1. facts'[f].promoted = facts[f].promoted
      <4>1. CASE Writes(e)
        BY <2>1, <2>4, <4>1, <1>5, <1>6
      <4>2. CASE ~Writes(e)
        BY <4>2, <1>5
      <4> QED
        BY <4>1, <4>2
    <3> QED
      BY <2>1, <2>4, <3>1, <1>17
  <2> QED
    BY <2>2, <2>3, <2>4
<1>22. PromotedFlagAgrees'
  BY <1>14, <1>21 DEF PromotedFlagAgrees, Promoted
<1>23. ASSUME NEW i \in 1 .. Len(properties'), properties'[i].fact.measure \in Dimension
       PROVE  /\ properties'[i].calibrated
              /\ facts'[properties'[i].fact] # NoFact =>
                   facts'[properties'[i].fact].calibration # "none"
  <2>1. properties'[i].fact \in Fact
    <3>1. properties'[i] \in Property
      BY <1>11
    <3> QED
      BY <3>1 DEF Property
  <2>2. CASE i \in 1 .. Len(properties) /\ properties'[i] = properties[i]
    BY <2>1, <2>2, <1>7, <1>23 DEF IInv, CalibrationStands
  <2>3. CASE e.change.promote /\ properties'[i] = made
    BY <2>3, <1>2, <1>3, <1>7, <1>9, <1>23
  <2> QED
    BY <2>2, <2>3, <1>11
<1>24. CalibrationStands'
  BY <1>23 DEF CalibrationStands
<1> QED
  BY <1>13, <1>15, <1>16, <1>19, <1>20, <1>22, <1>24 DEF IInv

-----------------------------------------------------------------------------
(* The theorems                                                            *)

LEMMA INext == IInv /\ [Next]_vars => IInv'
<1> SUFFICES ASSUME IInv, [Next]_vars PROVE IInv'
  OBVIOUS
<1>1. ASSUME NEW d \in Doc, NEW c \in Content, StoreTorn(d, c) \/ Upload(d, c)
      PROVE  IInv'
  BY <1>1, IStoreTorn, IUpload
<1>2. ASSUME NEW d \in Doc, RequestCut(d) \/ Enqueue(d)
      PROVE  IInv'
  BY <1>2, IRequestCut, IEnqueue
<1>3. ASSUME NEW d \in Doc, NEW r \in Run, Parse(d, r) \/ ParseRaises(d, r)
      PROVE  IInv'
  BY <1>3, IParseStart, IParseClear, IParseCommit, IParseFails, IParseRaises DEF Parse
<1>4. ASSUME NEW u \in User, Edit(u)
      PROVE  IInv'
  BY <1>4, IEditLoad, IEditCommit, IEditAbort DEF Edit
<1>5. CASE UNCHANGED vars
  <2>1. UNCHANGED <<file, doc, upload, job, parse, facts, properties>> /\ edit' = edit
    BY <1>5 DEF vars
  <2>2. \A u \in User : EditSees(u)'
    BY <2>1 DEF IInv, EditSees, Ended, Promoted
  <2> QED
    BY <2>1, <2>2, EditFrame DEF IInv, TypeOK
<1> QED
  BY <1>1, <1>2, <1>3, <1>4, <1>5 DEF Next, Request

THEOREM Inductive == Spec => []IInv
  BY IInit, INext, PTL DEF Spec

\* Every variable keeps its type, whatever uploads, parses and edits do.
THEOREM PipelineTyping == Spec => []TypeOK
<1>1. IInv => TypeOK
  BY DEF IInv
<1> QED
  BY <1>1, Inductive, PTL

\* The facts of a document are those of the last parse to commit, also when
\* the job and the request both parse it.
THEOREM OneParse == Spec => []FactsOfOneParse
<1>1. IInv => FactsOfOneParse
  BY DEF IInv
<1> QED
  BY <1>1, Inductive, PTL

\* A fact's flag says whether a measurement was made of it, for any number
\* of users who edit and promote it at once.
THEOREM PromotedFlags == Spec => []PromotedFlagAgrees
<1>1. IInv => PromotedFlagAgrees
  BY DEF IInv
<1> QED
  BY <1>1, Inductive, PTL

\* No measurement of a drawing dimension without a calibration reference, and
\* no request that loaded the fact before takes its calibration out again.
THEOREM Calibrated == Spec => []CalibrationStands
<1>1. IInv => CalibrationStands
  BY DEF IInv
<1> QED
  BY <1>1, Inductive, PTL
-----------------------------------------------------------------------------
(* The panel                                                               *)

HasRow(d) == doc[d] # NoDoc
HasRun(d) == doc[d].run # "none"

\* Once a parse has committed, the facts of a whole file are all there, also
\* when a later parse of it fails.
WholeSinceRun ==
  \A d \in Doc :
    /\ doc[d].status = "parsed" => HasRun(d)
    /\ HasRun(d) /\ file[doc[d].content] = "whole" =>
         {f.measure : f \in Live(d)} = doc[d].content

\* Facts of d, of one parse, and all that its content states when it is whole.
AllOf(d, content, stored, fs) ==
  /\ fs \subseteq FactsOf(d)
  /\ \A f, g \in fs : f.run = g.run
  /\ stored = "whole" => {f.measure : f \in fs} = content
WholeFacts(d, fs) == AllOf(d, doc[d].content, file[doc[d].content], fs)

\* What a status that was read says of the document.
Attested(d, status) == HasRow(d) /\ (status = "parsed" => HasRun(d))
Whole(d, status, fs) == status = "parsed" => WholeFacts(d, fs)

FineReply(d, r) ==
  r # Idle => /\ Attested(d, r.status)
              /\ r.stage = "ready" => Whole(d, r.status, r.facts)

FineListed(l) == \A d \in Doc : l[d] # "unlisted" => HasRow(d)
FineList(q) == q.stage = "read" => FineListed(q.rows)

FineRead(r) ==
  r # Idle => /\ Attested(r.doc, r.status)
              /\ r.stage # "sent" => r.status \in Status
              /\ r.stage = "facts" => Whole(r.doc, r.status, r.facts)

FineShown(s) ==
  s # NoneShown => /\ HasRow(s.doc)
                   /\ s.loaded => /\ Attested(s.doc, s.status)
                                  /\ Whole(s.doc, s.status, s.facts)

\* What is under way or on display was said of a document that is there, and
\* facts that come with "parsed" are all of one parse.
PanelFine ==
  /\ \A d \in Doc : FineReply(d, reply[d])
  /\ \A i \in 1 .. MaxLists : FineList(lists[i])
  /\ \A i \in 1 .. MaxReads : FineRead(reads[i])
  /\ FineListed(listed)
  /\ FineShown(shown)

PanelInv == IInv /\ WholeSinceRun /\ PanelTypeOK /\ PanelFine

-----------------------------------------------------------------------------
(* What a step of the pipeline preserves                                   *)

LEMMA LiveWhole ==
  ASSUME IInv, WholeSinceRun, NEW d \in Doc, HasRun(d)
  PROVE  WholeFacts(d, Live(d))
<1>1. Live(d) \subseteq FactsOf(d)
  BY DEF Live
<1>2. \A f, g \in Live(d) : f.run = g.run
  BY DEF IInv, FactsOfOneParse
<1> QED
  BY <1>1, <1>2 DEF WholeSinceRun, WholeFacts, AllOf

\* Rows stay; after a parse the content is fixed, and so is its file.
LEMMA RowsStay ==
  ASSUME IInv, [Next]_vars, NEW d \in Doc, HasRow(d)
  PROVE  /\ HasRow(d)' /\ (HasRun(d) => HasRun(d)')
         /\ doc'[d].content = doc[d].content
         /\ file'[doc[d].content] = file[doc[d].content]
<1>0. /\ upload[d] # "none" /\ file[doc[d].content] # "absent"
      /\ doc[d].content \in Content
  BY DEF IInv, TypeOK, UploadOrdered, HasRow, DocRow
<1>1. ASSUME NEW e \in Doc, NEW c \in Content, StoreTorn(e, c)
      PROVE  doc' = doc /\ file'[doc[d].content] = file[doc[d].content]
  BY <1>0, <1>1 DEF StoreTorn, IInv, TypeOK
<1>2. ASSUME NEW e \in Doc, NEW c \in Content, Upload(e, c)
      PROVE  doc'[d] = doc[d] /\ file'[doc[d].content] = file[doc[d].content]
  BY <1>0, <1>2 DEF Upload, Stored, IInv, TypeOK
<1>3. ASSUME NEW e \in Doc, RequestCut(e) \/ Enqueue(e)
      PROVE  doc' = doc /\ file' = file
  BY <1>3 DEF RequestCut, Enqueue
<1>4. ASSUME NEW e \in Doc, NEW r \in Run, ParseStart(e, r) \/ ParseClear(e, r) \/ ParseRaises(e, r)
      PROVE  doc' = doc /\ file' = file
  BY <1>4 DEF ParseStart, ParseClear, ParseRaises
<1>5. ASSUME NEW e \in Doc, NEW r \in Run, ParseCommit(e, r)
      PROVE  /\ file' = file /\ doc'[d].content = doc[d].content
             /\ doc'[d].run \in {doc[d].run, r}
             /\ doc'[d] = doc[d] \/ doc'[d].status \in Settled
  BY <1>5 DEF ParseCommit, Outcome, Settled, IInv, TypeOK
<1>6. ASSUME NEW e \in Doc, ParseFails(e)
      PROVE  /\ file' = file /\ doc'[d].content = doc[d].content
             /\ doc'[d].run = doc[d].run
             /\ doc'[d] = doc[d] \/ doc'[d].status \in Settled
  BY <1>6 DEF ParseFails, Settled, IInv, TypeOK
<1>7. ASSUME NEW u \in User, Edit(u) PROVE doc' = doc /\ file' = file
  BY <1>7 DEF Edit, EditLoad, EditCommit, EditAbort
<1>8. ASSUME UNCHANGED vars PROVE doc' = doc /\ file' = file
  BY <1>8 DEF vars
<1>9. NoDoc.status \notin Settled
  BY DEF NoDoc, Settled
<1> QED
  BY <1>1, <1>2, <1>3, <1>4, <1>5, <1>6, <1>7, <1>8, <1>9, RunsAre
  DEF Next, Request, Parse, HasRow, HasRun

LEMMA CommitWhole ==
  ASSUME IInv, IInv', NEW d \in Doc, NEW r \in Run, ParseCommit(d, r)
  PROVE  /\ HasRun(d)'
         /\ file'[doc'[d].content] = "whole" =>
              {f.measure : f \in Live(d)'} = doc'[d].content
<1>1. doc[d] \in DocRow
  <2>1. Open(d, r) /\ Ends(d, r, "done", "answered")
    BY DEF Open, ParseCommit
  <2>2. upload[d] # "none"
    BY <2>1, EndsFrees
  <2> QED
    BY <2>2 DEF IInv, TypeOK, UploadOrdered
<1>2. doc[d].content \in SUBSET Measure
  BY <1>1, ContentAssumption DEF DocRow
<1>3. PICK ms \in Readable(doc[d].content) :
        /\ facts' = [f \in Fact |->
                       IF f \in parse[d][r].doomed THEN NoFact
                       ELSE IF f.doc = d /\ f.run = r /\ f.measure \in ms
                         THEN ExtractedFact
                       ELSE facts[f]]
        /\ \E status \in Outcome(ms) :
             doc' = [doc EXCEPT ![d] = [status |-> status, content |-> @.content,
                                        run |-> r]]
  BY DEF ParseCommit
<1>4. PICK status \in Outcome(ms) :
        doc'[d] = [status |-> status, content |-> doc[d].content, run |-> r]
  BY <1>3 DEF IInv, TypeOK
<1>5. HasRun(d)'
  BY <1>4, RunsAre DEF HasRun
<1>6. file' = file /\ ms \in SUBSET Measure
      /\ (file[doc[d].content] = "whole" => ms = doc[d].content)
  BY <1>2, <1>3 DEF Readable, ParseCommit
<1>7. Live(d)' = {f \in FactsOf(d) : f.run = r /\ f.measure \in ms}
  BY <1>3, <1>6, CommitFacts
<1>8. CASE status = "parsed"
  BY <1>4, <1>5, <1>8 DEF IInv, FactsOfOneParse
<1>9. CASE status # "parsed"
  <2>1. ms = {}
    BY <1>9 DEF Outcome
  <2>2. Live(d)' = {}
    BY <2>1, <1>7
  <2> QED
    BY <2>1, <2>2, <1>4, <1>5, <1>6
<1> QED
  BY <1>8, <1>9

LEMMA WholeNext ==
  ASSUME IInv, IInv', WholeSinceRun, [Next]_vars
  PROVE  WholeSinceRun'
<1> SUFFICES ASSUME NEW d \in Doc
             PROVE  /\ doc'[d].status = "parsed" => HasRun(d)'
                    /\ HasRun(d)' /\ file'[doc'[d].content] = "whole" =>
                         {f.measure : f \in Live(d)'} = doc'[d].content
  BY DEF WholeSinceRun
<1>1. CASE \E r \in Run : ParseCommit(d, r)
  BY <1>1, CommitWhole
<1>2. ASSUME ~\E r \in Run : ParseCommit(d, r)
      PROVE  /\ HasRun(d)' => HasRun(d)
             /\ doc'[d].status = "parsed" => doc[d].status = "parsed"
             /\ Live(d)' = Live(d)
  <2>1. ASSUME NEW e \in Doc, NEW c \in Content, StoreTorn(e, c)
        PROVE  doc' = doc /\ facts' = facts
    BY <2>1 DEF StoreTorn
  <2>2. ASSUME NEW e \in Doc, NEW c \in Content, Upload(e, c)
        PROVE  facts' = facts /\ \/ doc'[d] = doc[d]
                                 \/ doc'[d].run = "none" /\ doc'[d].status = "parse_pending"
    BY <2>2 DEF Upload, IInv, TypeOK
  <2>3. ASSUME NEW e \in Doc, RequestCut(e) \/ Enqueue(e)
        PROVE  doc' = doc /\ facts' = facts
    BY <2>3 DEF RequestCut, Enqueue
  <2>4. ASSUME NEW e \in Doc, NEW r \in Run,
               ParseStart(e, r) \/ ParseClear(e, r) \/ ParseRaises(e, r)
        PROVE  doc' = doc /\ facts' = facts
    BY <2>4 DEF ParseStart, ParseClear, ParseRaises
  <2>5. ASSUME NEW e \in Doc, NEW r \in Run, ParseCommit(e, r)
        PROVE  doc'[d] = doc[d] /\ Live(d)' = Live(d)
    <3>1. e # d
      BY <1>2, <2>5
    <3>2. doc'[d] = doc[d]
      BY <3>1, <2>5 DEF ParseCommit, IInv, TypeOK
    <3>3. PICK ms \in Readable(doc[e].content) :
            facts' = [f \in Fact |->
                       IF f \in parse[e][r].doomed THEN NoFact
                       ELSE IF f.doc = e /\ f.run = r /\ f.measure \in ms
                         THEN ExtractedFact
                       ELSE facts[f]]
      BY <2>5 DEF ParseCommit
    <3>4. parse[e][r].doomed \subseteq FactsOf(e)
      BY DEF IInv, ParseExclusive
    <3>5. \A f \in FactsOf(d) : facts'[f] = facts[f]
      BY <3>1, <3>3, <3>4 DEF FactsOf
    <3> QED
      BY <3>2, <3>5 DEF Live
  <2>6. ASSUME NEW e \in Doc, ParseFails(e)
        PROVE  facts' = facts /\ doc'[d].run = doc[d].run
               /\ (doc'[d].status = "parsed" => doc[d].status = "parsed")
    BY <2>6 DEF ParseFails, IInv, TypeOK
  <2>7. ASSUME NEW u \in User, Edit(u)
        PROVE  doc' = doc /\ \A f \in Fact : facts'[f] # NoFact <=> facts[f] # NoFact
    <3>1. CASE EditCommit(u)
      <4>1. edit[u].fact \in Fact
        BY <3>1, EditTyped DEF EditCommit
      <4>2. Writes(edit[u]) => facts[edit[u].fact] # NoFact /\ Edited(edit[u]) # NoFact
        <5>1. NoFact \notin FactRow
          BY DEF NoFact, FactRow, Review
        <5> QED
          BY <5>1, <3>1, EditedKeeps DEF EditCommit
      <4> QED
        BY <3>1, <4>1, <4>2 DEF EditCommit, IInv, TypeOK
    <3> QED
      BY <2>7, <3>1 DEF Edit, EditLoad, EditAbort
  <2>8. ASSUME UNCHANGED vars PROVE doc' = doc /\ facts' = facts
    BY <2>8 DEF vars
  <2>9. ASSUME \A f \in Fact : facts'[f] # NoFact <=> facts[f] # NoFact
        PROVE  Live(d)' = Live(d)
    BY <2>9 DEF Live, FactsOf
  <2> QED
    BY <2>1, <2>2, <2>3, <2>4, <2>5, <2>6, <2>7, <2>8, <2>9
    DEF Next, Request, Parse, HasRun
<1>3. CASE ~\E r \in Run : ParseCommit(d, r)
  <2>1. HasRun(d) => HasRow(d)
    BY DEF HasRun, HasRow, NoDoc
  <2>2. HasRow(d) => /\ HasRun(d) => HasRun(d)'
                     /\ doc'[d].content = doc[d].content
                     /\ file'[doc[d].content] = file[doc[d].content]
    BY RowsStay
  <2> QED
    BY <1>2, <1>3, <2>1, <2>2 DEF WholeSinceRun
<1> QED
  BY <1>1, <1>3

-----------------------------------------------------------------------------
(* What a step of the panel preserves                                      *)

LEMMA Stages ==
  ASSUME PanelTypeOK
  PROVE  /\ \A d \in Doc : reply[d] # Idle => reply[d] \in Reply
         /\ \A i \in 1 .. MaxLists : lists[i] # Idle => lists[i] \in ListRequest
         /\ \A i \in 1 .. MaxReads : reads[i] # Idle => reads[i] \in Read
         /\ shown # NoneShown => shown \in Shown
         /\ Idle.stage = "idle"
  BY DEF PanelTypeOK, Idle

LEMMA FineStays ==
  ASSUME PanelInv, [Next]_vars
  PROVE  /\ \A d \in Doc : reply'[d] = reply[d] => FineReply(d, reply[d])'
         /\ \A i \in 1 .. MaxLists : lists'[i] = lists[i] => FineList(lists[i])'
         /\ \A i \in 1 .. MaxReads : reads'[i] = reads[i] => FineRead(reads[i])'
         /\ listed' = listed => FineListed(listed)'
         /\ shown' = shown => FineShown(shown)'
<1> USE DEF PanelInv
<1>1. ASSUME NEW d \in Doc, HasRow(d)
      PROVE  /\ HasRow(d)' /\ (HasRun(d) => HasRun(d)')
             /\ doc'[d].content = doc[d].content
             /\ file'[doc'[d].content] = file[doc[d].content]
  BY <1>1, RowsStay
<1>2. ASSUME NEW d \in Doc, reply'[d] = reply[d] PROVE FineReply(d, reply[d])'
  BY <1>1, <1>2 DEF PanelFine, FineReply, Attested, Whole, WholeFacts
<1>3. \A i \in 1 .. MaxLists : lists'[i] = lists[i] => FineList(lists[i])'
  BY <1>1 DEF PanelFine, FineList, FineListed
<1>4. ASSUME NEW i \in 1 .. MaxReads, reads'[i] = reads[i] PROVE FineRead(reads[i])'
  <2>1. reads[i] # Idle => reads[i].doc \in Doc
    BY Stages DEF Read
  <2> QED
    BY <1>1, <1>4, <2>1 DEF PanelFine, FineRead, Attested, Whole, WholeFacts
<1>5. listed' = listed => FineListed(listed)'
  BY <1>1 DEF PanelFine, FineListed
<1>6. ASSUME shown' = shown PROVE FineShown(shown)'
  <2>1. shown # NoneShown => shown.doc \in Doc
    BY Stages DEF Shown
  <2> QED
    BY <1>1, <1>6, <2>1 DEF PanelFine, FineShown, Attested, Whole, WholeFacts
<1> QED
  BY <1>2, <1>3, <1>4, <1>5, <1>6

\* A request takes a slot or nothing.
LEMMA SentTyped ==
  ASSUME NEW I, NEW S, NEW slots \in [I -> S \cup {Idle}], NEW q \in S
  PROVE  /\ Sent(slots, q) \in [I -> S \cup {Idle}]
         /\ \A i \in I : Sent(slots, q)[i] \in {slots[i], q}
  BY DEF Sent

LEMMA ListSentTyped == ListSent \in ListRequest
  BY DEF ListSent, ListRequest, Listed, Unlisted

LEMMA ReadSentTyped ==
  ASSUME NEW d \in Doc
  PROVE  /\ ReadSent(d) \in Read
         /\ HasRow(d) => FineRead(ReadSent(d))
  BY DEF ReadSent, Read, Status, FineRead, Attested, Pending, Settled

LEMMA RenderedFine ==
  ASSUME PanelInv, UNCHANGED vars,
         NEW s \in Shown \cup {NoneShown}, NEW l \in Listed,
         NEW rs \in [1 .. MaxReads -> Read \cup {Idle}],
         FineShown(s), FineListed(l), \A i \in 1 .. MaxReads : FineRead(rs[i]),
         Rendered(s, l, rs)
  PROVE  /\ reads' \in [1 .. MaxReads -> Read \cup {Idle}]
         /\ \A i \in 1 .. MaxReads : FineRead(reads[i])'
         /\ listed' \in Listed /\ FineListed(listed)'
         /\ shown' \in Shown \cup {NoneShown} /\ FineShown(shown)'
<1>1. doc' = doc /\ file' = file
  BY DEF vars
<1>2. listed' \in Listed /\ FineListed(listed)'
  BY <1>1 DEF Rendered, FineListed, HasRow
<1>3. shown' \in Shown \cup {NoneShown} /\ FineShown(shown)'
  BY <1>1 DEF Rendered, FineShown, HasRow, HasRun, Attested, Whole, WholeFacts
<1>4. /\ reads' \in [1 .. MaxReads -> Read \cup {Idle}]
      /\ \A i \in 1 .. MaxReads : FineRead(reads'[i])
  <2>1. CASE Outdated(s, l)
    <3>1. s.doc \in Doc /\ HasRow(s.doc)
      BY <2>1 DEF Outdated, Shown, FineShown
    <3>2. ReadSent(s.doc) \in Read /\ FineRead(ReadSent(s.doc))
      BY <3>1, ReadSentTyped
    <3>3. /\ Sent(rs, ReadSent(s.doc)) \in [1 .. MaxReads -> Read \cup {Idle}]
          /\ \A i \in 1 .. MaxReads :
               Sent(rs, ReadSent(s.doc))[i] \in {rs[i], ReadSent(s.doc)}
      BY <3>2, SentTyped
    <3> QED
      BY <2>1, <3>2, <3>3 DEF Rendered
  <2>2. CASE ~Outdated(s, l)
    BY <2>2 DEF Rendered
  <2> QED
    BY <2>1, <2>2
<1>5. \A i \in 1 .. MaxReads : FineRead(reads[i])'
  BY <1>1, <1>4 DEF FineRead, HasRow, HasRun, Attested, Whole, WholeFacts
<1> QED
  BY <1>2, <1>3, <1>4, <1>5

\* The panel's part of the invariant after a step.
PanelPart == PanelTypeOK /\ PanelFine

\* A step of the pipeline; reply and shown are what it may change on the page.
LEMMA ServedFine ==
  ASSUME PanelInv, IInv', WholeSinceRun', [Next]_vars,
         UNCHANGED <<lists, reads, listed, shown>>,
         \A d \in Doc : upload'[d] = "answered" => HasRow(d)',
         reply' = [d \in Doc |->
                     IF upload[d] # "answered" /\ upload'[d] = "answered"
                       THEN [stage |-> "querying", status |-> ReplyStatus(d),
                             facts |-> {}]
                       ELSE reply[d]]
  PROVE  PanelPart'
<1> USE DEF PanelInv
<1>1. ASSUME NEW d \in Doc, upload[d] # "answered", upload'[d] = "answered"
      PROVE  /\ ReplyStatus(d) \in Status
             /\ HasRow(d)' /\ (ReplyStatus(d) = "parsed" => HasRun(d)')
             /\ reply'[d] = [stage |-> "querying", status |-> ReplyStatus(d), facts |-> {}]
  <2>1. doc'[d] \in DocRow /\ (doc'[d].status = "parsed" => HasRun(d)')
    BY <1>1 DEF IInv, TypeOK, HasRow, WholeSinceRun
  <2>2. ReplyStatus(d) \in {doc'[d].status, Pending}
    BY DEF ReplyStatus
  <2>3. ReplyStatus(d) \in Status /\ (ReplyStatus(d) = "parsed" => HasRun(d)')
    BY <2>1, <2>2 DEF DocRow, Status, Pending
  <2> QED
    BY <1>1, <2>3
<1>2. \A d \in Doc : FineReply(d, reply[d])'
  <2> SUFFICES ASSUME NEW d \in Doc PROVE FineReply(d, reply[d])'
    OBVIOUS
  <2>1. CASE upload[d] # "answered" /\ upload'[d] = "answered"
    <3>1. reply'[d].status = ReplyStatus(d) /\ reply'[d].stage = "querying"
      BY <1>1, <2>1
    <3> QED
      BY <1>1, <2>1, <3>1 DEF FineReply, Attested
  <2>2. CASE ~(upload[d] # "answered" /\ upload'[d] = "answered")
    BY <2>2, FineStays
  <2> QED
    BY <2>1, <2>2
<1>3. reply' \in [Doc -> Reply \cup {Idle}]
  BY <1>1 DEF PanelTypeOK, Reply
<1> QED
  BY <1>2, <1>3, FineStays DEF PanelPart, PanelTypeOK, PanelFine

LEMMA ReplyFine ==
  ASSUME PanelInv, UNCHANGED <<vars, lists, reads, listed, shown>>, NEW d \in Doc,
         ReplyRead(d) \/ ReplyLost(d)
  PROVE  PanelPart'
<1> USE DEF PanelInv
<1>1. CASE ReplyRead(d)
  <2>1. reply[d] \in Reply /\ reply[d] # Idle
    BY <1>1, Stages DEF ReplyRead
  <2>2. Live(d) \subseteq Fact
    BY DEF Live, FactsOf
  <2>3. reply' \in [Doc -> Reply \cup {Idle}]
    BY <1>1, <2>1, <2>2 DEF ReplyRead, PanelTypeOK, Reply
  <2>4. /\ reply'[d].status = reply[d].status /\ reply'[d].facts = Live(d)
        /\ \A e \in Doc \ {d} : reply'[e] = reply[e]
    BY <1>1, <2>1 DEF ReplyRead, PanelTypeOK, Reply
  <2>5. Attested(d, reply[d].status) /\ Whole(d, reply[d].status, Live(d))
    BY <2>1, LiveWhole DEF PanelFine, FineReply, Attested, Whole
  <2>6. doc' = doc /\ file' = file
    BY DEF vars
  <2>7. FineReply(d, reply[d])'
    BY <2>4, <2>5, <2>6 DEF FineReply, Attested, Whole, WholeFacts, HasRow, HasRun
  <2> QED
    BY <2>3, <2>4, <2>7, FineStays DEF PanelPart, PanelTypeOK, PanelFine
<1>2. CASE ReplyLost(d)
  <2>1. /\ reply' \in [Doc -> Reply \cup {Idle}]
        /\ reply'[d] = Idle /\ \A e \in Doc \ {d} : reply'[e] = reply[e]
    BY <1>2 DEF ReplyLost, PanelTypeOK
  <2>2. FineReply(d, reply[d])'
    BY <2>1 DEF FineReply
  <2> QED
    BY <2>1, <2>2, FineStays DEF PanelPart, PanelTypeOK, PanelFine
<1> QED
  BY <1>1, <1>2

\* What a rendering leaves to show: lists and replies are changed beside it.
LEMMA ListsFine ==
  ASSUME PanelInv, UNCHANGED vars,
         \/ lists' = lists
         \/ lists' = Sent(lists, ListSent)
         \/ \E i \in 1 .. MaxLists : lists' = [lists EXCEPT ![i] = Idle]
         \/ \E i \in 1 .. MaxLists : ListRead(i)
  PROVE  /\ lists' \in [1 .. MaxLists -> ListRequest \cup {Idle}]
         /\ \A i \in 1 .. MaxLists : FineList(lists[i])'
<1> USE DEF PanelInv
<1>1. lists \in [1 .. MaxLists -> ListRequest \cup {Idle}]
  BY DEF PanelTypeOK
<1>2. ASSUME NEW i \in 1 .. MaxLists, ListRead(i)
      PROVE  /\ lists' \in [1 .. MaxLists -> ListRequest \cup {Idle}]
             /\ FineListed(lists'[i].rows)
             /\ \A j \in 1 .. MaxLists \ {i} : lists'[j] = lists[j]
  <2> DEFINE rows == [d \in Doc |-> IF doc[d] = NoDoc THEN "unlisted" ELSE doc[d].status]
  <2>1. rows \in Listed
    BY DEF IInv, TypeOK, DocRow, Listed, Status, Pending
  <2>2. [stage |-> "read", rows |-> rows] \in ListRequest
    BY <2>1 DEF ListRequest
  <2>3. FineListed(rows)
    BY DEF FineListed, HasRow
  <2>4. lists' = [lists EXCEPT ![i] = [stage |-> "read", rows |-> rows]]
    BY <1>2 DEF ListRead
  <2> HIDE DEF rows
  <2> QED
    BY <1>1, <2>2, <2>3, <2>4
<1>3. /\ Sent(lists, ListSent) \in [1 .. MaxLists -> ListRequest \cup {Idle}]
      /\ \A i \in 1 .. MaxLists : Sent(lists, ListSent)[i] \in {lists[i], ListSent}
  BY <1>1, ListSentTyped, SentTyped
<1>4. FineList(ListSent) /\ FineList(Idle)
  BY DEF FineList, ListSent, Idle
<1>5. doc' = doc
  BY DEF vars
<1>6. lists' \in [1 .. MaxLists -> ListRequest \cup {Idle}]
  BY <1>1, <1>2, <1>3
<1>7. \A i \in 1 .. MaxLists : FineList(lists'[i])
  BY <1>1, <1>2, <1>3, <1>4 DEF PanelFine, FineList
<1> QED
  BY <1>5, <1>6, <1>7 DEF FineList, FineListed, HasRow

LEMMA ReadFine ==
  ASSUME PanelInv, UNCHANGED <<vars, reply, lists, listed, shown>>,
         NEW i \in 1 .. MaxReads, ReadStatus(i) \/ ReadFacts(i) \/ FactsFail(i)
  PROVE  PanelPart'
<1> USE DEF PanelInv
<1> DEFINE r == reads[i]
<1>1. r \in Read /\ r # Idle /\ r.doc \in Doc
  BY Stages DEF ReadStatus, ReadFacts, FactsFail, Read
<1>2. doc' = doc /\ file' = file
  BY DEF vars
<1>3. HasRow(r.doc) /\ doc[r.doc] \in DocRow
  BY <1>1 DEF PanelFine, FineRead, Attested, HasRow, IInv, TypeOK
<1>4. reads' \in [1 .. MaxReads -> Read \cup {Idle}]
      /\ \A j \in 1 .. MaxReads \ {i} : reads'[j] = reads[j]
  <2>1. doc[r.doc].status \in Status
    BY <1>3 DEF DocRow, Status, Pending
  <2>2. Live(r.doc) \subseteq Fact
    BY DEF Live, FactsOf
  <2>3. [[r EXCEPT !.stage = "status"] EXCEPT !.status = doc[r.doc].status] \in Read
    BY <1>1, <2>1 DEF Read
  <2>4. [[r EXCEPT !.stage = "facts"] EXCEPT !.facts = Live(r.doc)] \in Read
    BY <1>1, <2>2 DEF Read
  <2> QED
    BY <1>1, <2>3, <2>4 DEF ReadStatus, ReadFacts, FactsFail, PanelTypeOK
<1>5. FineRead(reads[i])'
  <2>1. CASE ReadStatus(i)
    <3>1. /\ reads'[i].stage = "status" /\ reads'[i].doc = r.doc
          /\ reads'[i].status = doc[r.doc].status
      BY <1>1, <2>1 DEF ReadStatus, PanelTypeOK, Read
    <3>2. doc[r.doc].status = "parsed" => HasRun(r.doc)
      BY <1>1 DEF WholeSinceRun
    <3>3. doc[r.doc].status \in Status
      BY <1>3 DEF DocRow, Status, Pending
    <3> QED
      BY <1>2, <1>3, <3>1, <3>2, <3>3 DEF FineRead, Attested, HasRow, HasRun
  <2>2. CASE ReadFacts(i)
    <3>1. /\ reads'[i].doc = r.doc /\ reads'[i].status = r.status
          /\ reads'[i].facts = Live(r.doc)
      BY <1>1, <2>2 DEF ReadFacts, PanelTypeOK, Read
    <3>2. /\ Attested(r.doc, r.status) /\ Whole(r.doc, r.status, Live(r.doc))
          /\ r.status \in Status
      BY <1>1, <2>2, LiveWhole DEF PanelFine, FineRead, Attested, Whole, ReadFacts
    <3> QED
      BY <1>2, <3>1, <3>2 DEF FineRead, Attested, Whole, WholeFacts, HasRow, HasRun
  <2>3. CASE FactsFail(i)
    <3>1. reads'[i] = Idle
      BY <2>3 DEF FactsFail, PanelTypeOK
    <3> QED
      BY <3>1 DEF FineRead
  <2> QED
    BY <2>1, <2>2, <2>3
<1> QED
  BY <1>4, <1>5, FineStays DEF PanelPart, PanelTypeOK, PanelFine

LEMMA ShownFine ==
  ASSUME PanelInv, UNCHANGED vars,
         \/ \E d \in Doc : ReplyShown(d) \/ ReviewClicked(d)
         \/ \E i \in 1 .. MaxLists : ListShown(i)
         \/ \E i \in 1 .. MaxReads : FactsShown(i)
  PROVE  PanelPart'
<1> USE DEF PanelInv
<1>1. /\ reads \in [1 .. MaxReads -> Read \cup {Idle}] /\ listed \in Listed
      /\ shown \in Shown \cup {NoneShown} /\ reply \in [Doc -> Reply \cup {Idle}]
      /\ FineListed(listed) /\ FineShown(shown)
      /\ \A i \in 1 .. MaxReads : FineRead(reads[i])
  BY DEF PanelTypeOK, PanelFine
<1>2. ASSUME NEW d \in Doc, ReplyShown(d) PROVE PanelPart'
  <2> DEFINE s == [doc |-> d, status |-> reply[d].status, facts |-> reply[d].facts,
                   loaded |-> TRUE]
  <2>1. reply[d] \in Reply /\ reply[d] # Idle /\ reply[d].stage = "ready"
    BY <1>2, Stages DEF ReplyShown
  <2>2. s \in Shown
    BY <2>1 DEF Shown, Reply
  <2>3. Attested(d, reply[d].status) /\ Whole(d, reply[d].status, reply[d].facts)
    BY <2>1 DEF PanelFine, FineReply
  <2>4. FineShown(s)
    BY <2>3 DEF FineShown, Attested
  <2>5. Rendered(s, listed, reads)
    BY <1>2 DEF ReplyShown
  <2> HIDE DEF s
  <2>6. /\ reads' \in [1 .. MaxReads -> Read \cup {Idle}]
        /\ \A i \in 1 .. MaxReads : FineRead(reads[i])'
        /\ listed' \in Listed /\ FineListed(listed)'
        /\ shown' \in Shown \cup {NoneShown} /\ FineShown(shown)'
    BY <1>1, <2>2, <2>4, <2>5, RenderedFine
  <2>7. /\ lists' \in [1 .. MaxLists -> ListRequest \cup {Idle}]
        /\ \A i \in 1 .. MaxLists : FineList(lists[i])'
    BY <1>2, ListsFine DEF ReplyShown
  <2>8. /\ reply' \in [Doc -> Reply \cup {Idle}] /\ reply'[d] = Idle
        /\ \A e \in Doc \ {d} : reply'[e] = reply[e]
    BY <1>1, <1>2 DEF ReplyShown
  <2>9. FineReply(d, reply[d])'
    BY <2>8 DEF FineReply
  <2> QED
    BY <2>6, <2>7, <2>8, <2>9, FineStays DEF PanelPart, PanelTypeOK, PanelFine
<1>3. ASSUME NEW d \in Doc, ReviewClicked(d) PROVE PanelPart'
  <2> DEFINE s == [doc |-> d, status |-> listed[d], facts |-> {}, loaded |-> FALSE]
  <2>1. listed[d] \in Settled /\ listed[d] # "unlisted"
    BY <1>3 DEF ReviewClicked, Settled
  <2>2. HasRow(d)
    BY <1>1, <2>1 DEF FineListed
  <2>3. shown' = s /\ s \in Shown /\ FineShown(s)
    BY <1>3, <2>1, <2>2 DEF ReviewClicked, Shown, Status, FineShown
  <2>4. ReadSent(d) \in Read /\ FineRead(ReadSent(d))
    BY <2>2, ReadSentTyped
  <2>5. /\ Sent(reads, ReadSent(d)) \in [1 .. MaxReads -> Read \cup {Idle}]
        /\ \A i \in 1 .. MaxReads : Sent(reads, ReadSent(d))[i] \in {reads[i], ReadSent(d)}
    BY <1>1, <2>4, SentTyped
  <2>6. /\ reads' \in [1 .. MaxReads -> Read \cup {Idle}]
        /\ \A i \in 1 .. MaxReads : FineRead(reads'[i])
    BY <1>1, <1>3, <2>4, <2>5 DEF ReviewClicked
  <2>7. doc' = doc /\ file' = file /\ UNCHANGED <<reply, lists, listed>>
    BY <1>3 DEF vars, ReviewClicked
  <2>8. \A i \in 1 .. MaxReads : FineRead(reads[i])'
    BY <2>6, <2>7 DEF FineRead, Attested, Whole, WholeFacts, HasRow, HasRun
  <2>9. FineShown(shown)'
    BY <2>3, <2>7 DEF FineShown, Attested, Whole, WholeFacts, HasRow, HasRun
  <2> QED
    BY <2>3, <2>6, <2>7, <2>8, <2>9, FineStays DEF PanelPart, PanelTypeOK, PanelFine
<1>4. ASSUME NEW i \in 1 .. MaxLists, ListShown(i) PROVE PanelPart'
  <2>1. lists[i] \in ListRequest /\ lists[i].rows \in Listed /\ FineListed(lists[i].rows)
    BY <1>4, Stages DEF ListShown, ListRequest, PanelFine, FineList
  <2>2. Rendered(shown, lists[i].rows, reads)
    BY <1>4 DEF ListShown
  <2>3. /\ reads' \in [1 .. MaxReads -> Read \cup {Idle}]
        /\ \A j \in 1 .. MaxReads : FineRead(reads[j])'
        /\ listed' \in Listed /\ FineListed(listed)'
        /\ shown' \in Shown \cup {NoneShown} /\ FineShown(shown)'
    BY <1>1, <2>1, <2>2, RenderedFine
  <2>4. /\ lists' \in [1 .. MaxLists -> ListRequest \cup {Idle}]
        /\ \A j \in 1 .. MaxLists : FineList(lists[j])'
    BY <1>4, ListsFine DEF ListShown
  <2>5. reply' = reply
    BY <1>4 DEF ListShown
  <2> QED
    BY <2>3, <2>4, <2>5, FineStays DEF PanelPart, PanelTypeOK, PanelFine
<1>5. ASSUME NEW i \in 1 .. MaxReads, FactsShown(i) PROVE PanelPart'
  <2> DEFINE r == reads[i]
             rs == [reads EXCEPT ![i] = Idle]
             s == [shown EXCEPT !.status = r.status, !.facts = r.facts, !.loaded = TRUE]
  <2>1. r \in Read /\ r # Idle /\ r.stage = "facts" /\ UNCHANGED <<vars, reply, lists>>
    BY <1>5, Stages DEF FactsShown
  <2>2. rs \in [1 .. MaxReads -> Read \cup {Idle}] /\ \A j \in 1 .. MaxReads : FineRead(rs[j])
    BY <1>1 DEF FineRead
  <2>3. Attested(r.doc, r.status) /\ Whole(r.doc, r.status, r.facts)
    BY <1>1, <2>1 DEF FineRead
  <2>4. /\ reads' \in [1 .. MaxReads -> Read \cup {Idle}]
        /\ \A j \in 1 .. MaxReads : FineRead(reads[j])'
        /\ listed' \in Listed /\ FineListed(listed)'
        /\ shown' \in Shown \cup {NoneShown} /\ FineShown(shown)'
    <3>1. CASE Answers(r)
      <4>1. Rendered(s, listed, rs)
        BY <1>5, <3>1 DEF FactsShown
      <4>2. r.doc \in Doc /\ HasRow(r.doc) /\ shown \in Shown /\ shown.doc = r.doc
        BY <1>1, <2>1, <2>3, <3>1 DEF Read, Attested, Answers
      <4>3. r.status \in Status
        BY <1>1, <2>1 DEF FineRead
      <4>4. s \in Shown /\ s.doc = r.doc /\ s.status = r.status /\ s.facts = r.facts
        BY <2>1, <4>2, <4>3 DEF Shown, Read
      <4>5. FineShown(s)
        BY <2>3, <4>2, <4>4 DEF FineShown
      <4> HIDE DEF s, rs
      <4> QED
        BY <1>1, <2>1, <2>2, <4>1, <4>4, <4>5, RenderedFine
    <3>2. CASE ~Answers(r)
      <4>1. reads' = rs /\ listed' = listed /\ shown' = shown
        BY <1>5, <3>2 DEF FactsShown
      <4>2. doc' = doc /\ file' = file
        BY <2>1 DEF vars
      <4>3. \A j \in 1 .. MaxReads : FineRead(reads[j])'
        BY <2>2, <4>1, <4>2 DEF FineRead, Attested, Whole, WholeFacts, HasRow, HasRun
      <4> QED
        BY <1>1, <2>2, <4>1, <4>3, FineStays
    <3> QED
      BY <3>1, <3>2
  <2> QED
    BY <2>1, <2>4, FineStays DEF PanelPart, PanelTypeOK, PanelFine
<1> QED
  BY <1>2, <1>3, <1>4, <1>5

-----------------------------------------------------------------------------
(* The theorems of the panel                                               *)

LEMMA PanelIInit == Init /\ PanelInit => PanelInv
<1> SUFFICES ASSUME Init, PanelInit PROVE PanelInv
  OBVIOUS
<1>1. IInv
  BY IInit
<1>2. \A d \in Doc : doc[d] = NoDoc
  BY DEF Init
<1>3. WholeSinceRun
  <2>1. \A d \in Doc : doc[d].status = "absent" /\ doc[d].run = "none"
    BY DEF Init, NoDoc
  <2> QED
    BY <2>1 DEF WholeSinceRun, HasRun
<1>4. /\ lists \in [1 .. MaxLists -> ListRequest \cup {Idle}]
      /\ \A i \in 1 .. MaxLists : lists[i] \in {Idle, ListSent}
  <2> DEFINE none == [i \in 1 .. MaxLists |-> Idle]
  <2>1. /\ none \in [1 .. MaxLists -> ListRequest \cup {Idle}]
        /\ \A i \in 1 .. MaxLists : none[i] = Idle
        /\ lists = Sent(none, ListSent)
    BY DEF PanelInit
  <2> HIDE DEF none
  <2>2. /\ Sent(none, ListSent) \in [1 .. MaxLists -> ListRequest \cup {Idle}]
        /\ \A i \in 1 .. MaxLists : Sent(none, ListSent)[i] \in {none[i], ListSent}
    BY <2>1, ListSentTyped, SentTyped
  <2> QED
    BY <2>1, <2>2
<1>5. PanelTypeOK
  BY <1>4 DEF PanelInit, PanelTypeOK, Unlisted, Listed
<1>6. \A i \in 1 .. MaxLists : FineList(lists[i])
  BY <1>4 DEF FineList, ListSent, Idle
<1>7. PanelFine
  BY <1>6 DEF PanelInit, PanelFine, FineReply, FineRead, FineListed, FineShown, Unlisted
<1> QED
  BY <1>1, <1>3, <1>5, <1>7 DEF PanelInv

\* Every step of the composition is one of the pipeline, or leaves it alone.
LEMMA PanelStepsPipeline == [PanelNext]_allVars => [Next]_vars
<1> SUFFICES ASSUME [PanelNext]_allVars PROVE [Next]_vars
  OBVIOUS
<1>1. ASSUME NEW d \in Doc, FileChosen(d) PROVE Next
  BY <1>1 DEF FileChosen, Next, Request
<1>2. CASE Server
  BY <1>2, RunsAre DEF Server, Works, Served, Next, Request
<1>3. CASE Panel
  BY <1>3 DEF Panel, Poll, ListAnswers, FactsAnswer, ReplyRead, ReplyLost, ReplyShown,
              ReviewClicked, ListRead, ListShown, ListFails, ReadStatus, ReadFacts,
              FactsShown, FactsFail
<1>4. CASE Edits
  BY <1>4 DEF Edits, Next
<1>5. CASE UNCHANGED allVars
  BY <1>5 DEF allVars
<1> QED
  BY <1>1, <1>2, <1>3, <1>4, <1>5 DEF PanelNext

LEMMA PanelINext == PanelInv /\ [PanelNext]_allVars => PanelInv'
<1> SUFFICES ASSUME PanelInv, [PanelNext]_allVars PROVE PanelInv'
  OBVIOUS
<1>1. [Next]_vars
  BY PanelStepsPipeline
<1>2. IInv' /\ WholeSinceRun'
  BY <1>1, INext, WholeNext DEF PanelInv
<1>3. ASSUME NEW d \in Doc, FileChosen(d) PROVE PanelPart'
  <2>1. shown' = NoneShown /\ UNCHANGED <<reply, lists, reads, listed>>
    BY <1>3 DEF FileChosen
  <2>2. FineShown(shown)'
    BY <2>1 DEF FineShown
  <2> QED
    BY <1>1, <2>1, <2>2, FineStays DEF PanelInv, PanelPart, PanelTypeOK, PanelFine
<1>4. ASSUME Server PROVE PanelPart'
  <2>1. /\ UNCHANGED <<lists, reads, listed, shown>>
        /\ reply' = [d \in Doc |->
                       IF upload[d] # "answered" /\ upload'[d] = "answered"
                         THEN [stage |-> "querying", status |-> ReplyStatus(d),
                               facts |-> {}]
                         ELSE reply[d]]
    BY <1>4 DEF Server, Works, Served
  <2>2. \A d \in Doc : upload'[d] = "answered" => HasRow(d)'
    BY <1>2 DEF IInv, UploadOrdered, HasRow
  <2> QED
    BY <1>1, <1>2, <2>1, <2>2, ServedFine
<1>5. ASSUME Panel PROVE PanelPart'
  <2>1. ASSUME Poll PROVE PanelPart'
    <3>1. UNCHANGED <<vars, reply, reads, listed, shown>> /\ lists' = Sent(lists, ListSent)
      BY <2>1 DEF Poll
    <3> QED
      BY <1>1, <3>1, ListsFine, FineStays DEF PanelInv, PanelPart, PanelTypeOK, PanelFine
  <2>2. ASSUME NEW i \in 1 .. MaxLists, ListRead(i) \/ ListFails(i) PROVE PanelPart'
    <3>1. UNCHANGED <<vars, reply, reads, listed, shown>>
      BY <2>2 DEF ListRead, ListFails
    <3>2. ListRead(i) \/ lists' = [lists EXCEPT ![i] = Idle]
      BY <2>2 DEF ListFails
    <3> QED
      BY <1>1, <3>1, <3>2, ListsFine, FineStays
      DEF PanelInv, PanelPart, PanelTypeOK, PanelFine
  <2>3. ASSUME NEW i \in 1 .. MaxLists, ListShown(i) PROVE PanelPart'
    BY <2>3, ShownFine DEF ListShown
  <2>4. ASSUME NEW i \in 1 .. MaxReads, ReadStatus(i) \/ ReadFacts(i) \/ FactsFail(i)
        PROVE  PanelPart'
    BY <2>4, ReadFine DEF ReadStatus, ReadFacts, FactsFail
  <2>5. ASSUME NEW i \in 1 .. MaxReads, FactsShown(i) PROVE PanelPart'
    BY <2>5, ShownFine DEF FactsShown
  <2>6. ASSUME NEW d \in Doc, ReplyRead(d) \/ ReplyLost(d) PROVE PanelPart'
    BY <2>6, ReplyFine DEF ReplyRead, ReplyLost
  <2>7. ASSUME NEW d \in Doc, ReplyShown(d) \/ ReviewClicked(d) PROVE PanelPart'
    BY <2>7, ShownFine DEF ReplyShown, ReviewClicked
  <2> QED
    BY <1>5, <2>1, <2>2, <2>3, <2>4, <2>5, <2>6, <2>7 DEF Panel, ListAnswers, FactsAnswer
<1>6. ASSUME UNCHANGED panelVars PROVE PanelPart'
  BY <1>1, <1>6, FineStays DEF panelVars, PanelInv, PanelPart, PanelTypeOK, PanelFine
<1>7. PanelPart'
  BY <1>3, <1>4, <1>5, <1>6 DEF PanelNext, Edits, allVars
<1> QED
  BY <1>2, <1>7 DEF PanelInv, PanelPart

THEOREM PanelInductive == PanelSpec => []PanelInv
  BY PanelIInit, PanelINext, PTL DEF PanelSpec

\* The pipeline's guarantees hold under the page that drives it.
THEOREM PipelineUnderPage == PanelSpec => []IInv
<1>1. PanelInv => IInv
  BY DEF PanelInv
<1> QED
  BY <1>1, PanelInductive, PTL

\* What the page shows as parsed are all facts of one parse of the document it
\* names, however answers and parses overtake each other: a status is read in
\* one statement and the facts in a later one, between which another parse of
\* the document may commit or fail.
THEOREM ShownWhole == PanelSpec => []ShownFactsWhole
<1>1. PanelInv => ShownFactsWhole
  BY DEF PanelInv, PanelFine, FineShown, Whole, WholeFacts, AllOf, ShownFactsWhole
<1> QED
  BY <1>1, PanelInductive, PTL
=============================================================================
