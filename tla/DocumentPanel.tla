--------------------------- MODULE DocumentPanel ---------------------------
(***************************************************************************)
(* The documents panel of a project in the browser over the document       *)
(* pipeline: it uploads, lists the documents, polls while one of them is   *)
(* being parsed, and shows the facts of the one that was uploaded or       *)
(* chosen last.                                                            *)
(*                                                                         *)
(* The answers to its requests come in any order or not at all; to lose an *)
(* answer is to lose a request that only reads.  The server takes a step   *)
(* for every statement whose result the panel shows.  The effects that     *)
(* follow a rendering are part of the step that changed what is rendered.  *)
(***************************************************************************)
EXTENDS DocumentPipeline

CONSTANTS
  MaxLists,   \* bound: requests for the list under way
  MaxReads    \* bound: requests for facts under way

ASSUME SlotsAssumption == MaxLists \in Nat \ {0} /\ MaxReads \in Nat \ {0}

VARIABLES
  reply,    \* the answer to each upload
  lists,    \* refreshDocuments under way
  reads,    \* refreshFacts under way
  listed,   \* documents: the status listed for each
  shown     \* uploadResult

panelVars == <<reply, lists, reads, listed, shown>>
allVars == <<vars, panelVars>>

Pending == "parse_pending"
Status == Settled \cup {Pending}
Listed == [Doc -> Status \cup {"unlisted"}]

Idle == [stage |-> "idle"]
Reply == [stage: {"querying", "ready"}, status: Status, facts: SUBSET Fact]
ListRequest == [stage: {"sent", "read"}, rows: Listed]
Read == [stage: {"sent", "status", "facts"}, doc: Doc,
         status: Status \cup {"unlisted"}, facts: SUBSET Fact]

Shown == [doc: Doc, status: Status, facts: SUBSET Fact, loaded: BOOLEAN]
NoneShown == [status |-> "none"]

PanelTypeOK ==
  /\ reply \in [Doc -> Reply \cup {Idle}]
  /\ lists \in [1 .. MaxLists -> ListRequest \cup {Idle}]
  /\ reads \in [1 .. MaxReads -> Read \cup {Idle}]
  /\ listed \in Listed
  /\ shown \in Shown \cup {NoneShown}

Unlisted == [d \in Doc |-> "unlisted"]
ListSent == [stage |-> "sent", rows |-> Unlisted]
ReadSent(d) == [stage |-> "sent", doc |-> d, status |-> "unlisted", facts |-> {}]

Free(slots) == {i \in DOMAIN slots : slots[i] = Idle}
Sent(slots, request) ==
  [slots EXCEPT ![CHOOSE i \in Free(slots) : TRUE] = request]

\* Mounted: the list is asked for.
PanelInit ==
  /\ reply = [d \in Doc |-> Idle]
  /\ lists = Sent([i \in 1 .. MaxLists |-> Idle], ListSent)
  /\ reads = [i \in 1 .. MaxReads |-> Idle]
  /\ listed = Unlisted
  /\ shown = NoneShown

-----------------------------------------------------------------------------
(* Rendering                                                               *)

\* The effect on documents and uploadResult: what is shown as active and
\* listed as settled is read.
Outdated(s, l) == s # NoneShown /\ s.status = Pending /\ l[s.doc] \in Settled

Rendered(s, l, rs) ==
  /\ shown' = s
  /\ listed' = l
  /\ IF Outdated(s, l) THEN Free(rs) # {} /\ reads' = Sent(rs, ReadSent(s.doc))
                       ELSE reads' = rs

\* Mutated form: only the list is looked at.
PollingListed == \E d \in Doc : listed[d] = Pending

\* hasActiveParse
Polling == shown.status = Pending \/ \E d \in Doc : listed[d] = Pending

Poll ==
  /\ Polling
  /\ Free(lists) # {}
  /\ lists' = Sent(lists, ListSent)
  /\ UNCHANGED <<vars, reply, reads, listed, shown>>

-----------------------------------------------------------------------------
(* handleFile, and the end of upload_document                              *)

\* The session does not expire what it holds at a commit: of a document that a
\* worker parses the answer says that it is pending.
ReplyStatus(d) == IF upload[d] = "fallback" THEN doc'[d].status ELSE Pending

\* A step of the pipeline; a request whose document is with the queue, or
\* parsed, goes on to its answer.
Served(A) ==
  /\ A
  /\ reply' = [d \in Doc |->
                 IF upload[d] # "answered" /\ upload'[d] = "answered"
                   THEN [stage |-> "querying", status |-> ReplyStatus(d),
                         facts |-> {}]
                   ELSE reply[d]]
  /\ UNCHANGED <<lists, reads, listed, shown>>

FileChosen(d) ==
  /\ \E c \in Content : StoreTorn(d, c) \/ Upload(d, c)
  /\ shown' = NoneShown
  /\ UNCHANGED <<reply, lists, reads, listed>>

ReplyRead(d) ==
  /\ reply[d].stage = "querying"
  /\ reply' = [reply EXCEPT ![d].stage = "ready", ![d].facts = Live(d)]
  /\ UNCHANGED <<vars, lists, reads, listed, shown>>

ReplyLost(d) ==
  /\ reply[d] # Idle
  /\ reply' = [reply EXCEPT ![d] = Idle]
  /\ UNCHANGED <<vars, lists, reads, listed, shown>>

ReplyShown(d) ==
  /\ reply[d].stage = "ready"
  /\ reply' = [reply EXCEPT ![d] = Idle]
  /\ Rendered([doc |-> d, status |-> reply[d].status, facts |-> reply[d].facts,
               loaded |-> TRUE], listed, reads)
  /\ Free(lists) # {}
  /\ lists' = Sent(lists, ListSent)
  /\ UNCHANGED vars

-----------------------------------------------------------------------------
(* refreshDocuments and list_project_documents                             *)

ListRead(i) ==
  /\ lists[i].stage = "sent"
  /\ lists' = [lists EXCEPT ![i] =
       [stage |-> "read",
        rows |-> [d \in Doc |-> IF doc[d] = NoDoc THEN "unlisted"
                                                  ELSE doc[d].status]]]
  /\ UNCHANGED <<vars, reply, reads, listed, shown>>

ListShown(i) ==
  /\ lists[i].stage = "read"
  /\ lists' = [lists EXCEPT ![i] = Idle]
  /\ Rendered(shown, lists[i].rows, reads)
  /\ UNCHANGED <<vars, reply>>

ListFails(i) ==
  /\ lists[i].stage = "sent"
  /\ lists' = [lists EXCEPT ![i] = Idle]
  /\ UNCHANGED <<vars, reply, reads, listed, shown>>

-----------------------------------------------------------------------------
(* refreshFacts and get_persisted_document_facts                           *)

ReadStatus(i) ==
  /\ reads[i].stage = "sent"
  /\ reads' = [reads EXCEPT ![i].stage = "status",
                            ![i].status = doc[reads[i].doc].status]
  /\ UNCHANGED <<vars, reply, lists, listed, shown>>

ReadFacts(i) ==
  /\ reads[i].stage = "status"
  /\ reads' = [reads EXCEPT ![i].stage = "facts",
                            ![i].facts = Live(reads[i].doc)]
  /\ UNCHANGED <<vars, reply, lists, listed, shown>>

\* Mutated form: the answer is for whatever is shown.
AnswersAny(r) == shown # NoneShown

\* The answer is for the document that is shown.
Answers(r) == shown # NoneShown /\ shown.doc = r.doc

FactsShown(i) ==
  LET r == reads[i]
      rs == [reads EXCEPT ![i] = Idle]
  IN
    /\ r.stage = "facts"
    /\ \/ /\ Answers(r)
          /\ Rendered([shown EXCEPT !.status = r.status, !.facts = r.facts,
                                    !.loaded = TRUE], listed, rs)
       \/ /\ ~Answers(r)
          /\ reads' = rs
          /\ UNCHANGED <<listed, shown>>
    /\ UNCHANGED <<vars, reply, lists>>

FactsFail(i) ==
  /\ reads[i].stage = "sent"
  /\ reads' = [reads EXCEPT ![i] = Idle]
  /\ UNCHANGED <<vars, reply, lists, listed, shown>>

\* reviewDocument; the button is there for what is listed as parsed.
ReviewClicked(d) ==
  /\ listed[d] \in Settled \ {"parse_failed"}
  /\ Free(reads) # {}
  /\ shown' = [doc |-> d, status |-> listed[d], facts |-> {}, loaded |-> FALSE]
  /\ reads' = Sent(reads, ReadSent(d))
  /\ UNCHANGED <<vars, reply, lists, listed>>

-----------------------------------------------------------------------------
Works(d) == Served(Enqueue(d)) \/ \E r \in Run : Served(Parse(d, r))

Server ==
  \E d \in Doc : \/ Works(d) \/ Served(RequestCut(d))
                 \/ \E r \in Run : Served(ParseRaises(d, r))

ListAnswers == \E i \in 1 .. MaxLists : ListRead(i) \/ ListShown(i)
FactsAnswer ==
  \E i \in 1 .. MaxReads : ReadStatus(i) \/ ReadFacts(i) \/ FactsShown(i)

Panel ==
  \/ Poll \/ ListAnswers \/ FactsAnswer
  \/ \E d \in Doc :
       ReplyRead(d) \/ ReplyLost(d) \/ ReplyShown(d) \/ ReviewClicked(d)
  \/ \E i \in 1 .. MaxLists : ListFails(i)
  \/ \E i \in 1 .. MaxReads : FactsFail(i)

Edits == (\E u \in User : Edit(u)) /\ UNCHANGED panelVars

PanelNext == (\E d \in Doc : FileChosen(d)) \/ Server \/ Panel \/ Edits

\* That of the pipeline, whose steps are finitely many; the timer ticks; and of
\* the requests that are sent again and again some come through.
PanelFairness ==
  /\ WF_allVars(\E d \in Doc : Works(d))
  /\ WF_allVars(Poll)
  /\ SF_allVars(ListAnswers)
  /\ SF_allVars(FactsAnswer)

PanelSpec == Init /\ PanelInit /\ [][PanelNext]_allVars /\ PanelFairness

-----------------------------------------------------------------------------
\* What is shown as parsed, once its facts were answered, has all that its file
\* states, from one parse and from no other document, whatever was clicked or
\* answered meanwhile.
ShownFactsWhole ==
  shown # NoneShown /\ shown.loaded /\ shown.status = "parsed" =>
    LET d == shown.doc IN
      /\ shown.facts \subseteq FactsOf(d)
      /\ \A f, g \in shown.facts : f.run = g.run
      /\ file[doc[d].content] = "whole" =>
           {f.measure : f \in shown.facts} = doc[d].content

Queued(d) ==
  \/ listed[d] = Pending
  \/ shown # NoneShown /\ shown.doc = d /\ shown.status = Pending

\* A document that has come to a result does not stay "Queued" on the page, in
\* the list or where its facts are shown, though answers are lost and lists
\* come late.
ShownSettles ==
  \A d \in Doc : []<>(doc[d].status \in Settled => ~Queued(d))
=============================================================================
