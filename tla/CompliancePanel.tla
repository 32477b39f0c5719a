-------------------------- MODULE CompliancePanel --------------------------
(***************************************************************************)
(* The compliance panel of a project in the browser: it loads the saved    *)
(* matrix, asks for check runs and records reviews, and shows what the     *)
(* answers bring, in whatever order they come.                             *)
(*                                                                         *)
(* A request is sent, carried out by the server and answered in separate   *)
(* steps.  A transaction commits after its answer was sent; of a run only  *)
(* its start, which orders the saved ones, and its commit are kept.  A     *)
(* panel is mounted once; one that was closed still ends what it awaits.   *)
(***************************************************************************)
EXTENDS Naturals

CONSTANTS
  Panel,     \* panels of one project, in one or several windows
  AutoRun,   \* those in the check view: they run when nothing is saved
  MaxAsked,  \* bound: runs a panel asks for
  MaxLoads   \* bound: matrix loads of a panel

ASSUME ViewBoundAssumption == MaxAsked \in Nat /\ MaxLoads \in Nat

VARIABLES
  starts,    \* started_at of the last run
  open,      \* runs evaluated whose transaction is open
  saved,     \* runs committed
  reviewed,  \* runs with a review on their result
  panel,     \* the state and the refs of each panel
  calls,     \* the runs asked for and not answered
  load,      \* the matrix load each panel awaits
  notes      \* the reviews sent and not answered

server == <<starts, open, saved, reviewed>>
viewVars == <<server, panel, calls, load, notes>>

Via == {"nothing", "run", "matrix"}

\* What is shown: a run, whose review it carries, and by which request it came:
\* the version of the panel when that was sent.
Shown == [run: Nat, mark: Nat, via: Via, ver: Nat]
Nothing == [run |-> 0, mark |-> 0, via |-> "nothing", ver |-> 0]

\* fresh is history: the newest version of which a run was shown.
State == [mounted: BOOLEAN, version: 0 .. MaxAsked, loading: BOOLEAN,
          matrixLoading: BOOLEAN, message: BOOLEAN, error: BOOLEAN,
          autoRan: BOOLEAN, ran: BOOLEAN, ready: BOOLEAN, loads: 0 .. MaxLoads,
          shown: Shown, fresh: 0 .. MaxAsked]
Unmounted == [mounted |-> FALSE, version |-> 0, loading |-> FALSE,
          matrixLoading |-> FALSE, message |-> FALSE, error |-> FALSE,
          autoRan |-> FALSE, ran |-> FALSE, ready |-> FALSE, loads |-> 0,
          shown |-> Nothing, fresh |-> 0]

Call == [panel: Panel, ver: 1 .. MaxAsked, auto: BOOLEAN,
         stage: {"sent", "started", "evaluated", "refused"}, run: Nat]
NoLoad == [stage |-> "idle"]
Load == [stage: {"sent", "read", "refused"}, ver: 0 .. MaxAsked,
         run: Nat, mark: Nat]
Note == [panel: Panel, run: Nat, stage: {"sent", "recorded", "refused"}]

ViewTypeOK ==
  /\ starts \in Nat
  /\ open \subseteq 1 .. starts /\ saved \subseteq 1 .. starts
  /\ reviewed \subseteq saved
  /\ panel \in [Panel -> State]
  /\ calls \subseteq Call
  /\ load \in [Panel -> Load \cup {NoLoad}]
  /\ notes \subseteq Note

ViewInit ==
  /\ starts = 0
  /\ open = {} /\ saved = {} /\ reviewed = {}
  /\ panel = [p \in Panel |-> Unmounted]
  /\ calls = {} /\ notes = {}
  /\ load = [p \in Panel |-> NoLoad]

-----------------------------------------------------------------------------
(* loadMatrix and runCheck: what they do before they await                 *)

\* The load remembers the version it was sent at.
SendLoad(p, s) ==
  /\ s.loads < MaxLoads
  /\ panel' = [panel EXCEPT ![p] =
       [s EXCEPT !.matrixLoading = TRUE, !.message = FALSE, !.loads = @ + 1]]
  /\ load' = [load EXCEPT ![p] = [stage |-> "sent", ver |-> s.version,
                                  run |-> 0, mark |-> 0]]

SendRun(p, s, auto) ==
  /\ s.version < MaxAsked
  /\ panel' = [panel EXCEPT ![p] =
       [s EXCEPT !.version = @ + 1, !.loading = TRUE, !.error = FALSE]]
  /\ calls' = calls \cup {[panel |-> p, ver |-> s.version + 1, auto |-> auto,
                           stage |-> "sent", run |-> 0]}

-----------------------------------------------------------------------------
(* The user                                                                *)

Mount(p) ==
  /\ panel[p] = Unmounted
  /\ SendLoad(p, [panel[p] EXCEPT !.mounted = TRUE])
  /\ UNCHANGED <<server, calls, notes>>

Close(p) ==
  /\ panel[p].mounted
  /\ panel' = [panel EXCEPT ![p].mounted = FALSE]
  /\ UNCHANGED <<server, calls, load, notes>>

\* The button is there once a proposal was saved, a run was asked for, or the
\* results rest on evidence, which of results on display is left open.
RunClicked(p) ==
  LET s == panel[p] IN
    /\ s.mounted /\ ~s.loading
    /\ s.ready \/ s.ran \/ s.shown.run # 0
    /\ SendRun(p, s, FALSE)
    /\ UNCHANGED <<server, load, notes>>

\* A saved proposal raises runRequest, and its effect runs the checks whether
\* or not a run is loading.
ProposalSaved(p) ==
  /\ p \in AutoRun
  /\ panel[p].mounted
  /\ SendRun(p, [panel[p] EXCEPT !.ready = TRUE], FALSE)
  /\ UNCHANGED <<server, load, notes>>

\* The retry button stands beside the message, while nothing is shown.
RetryClicked(p) ==
  LET s == panel[p] IN
    /\ s.mounted /\ s.message /\ s.shown.run = 0 /\ ~s.matrixLoading
    /\ SendLoad(p, [s EXCEPT !.error = FALSE])
    /\ UNCHANGED <<server, calls, notes>>

\* recordReview of a result on display, one at a time for each.
ReviewClicked(p) ==
  LET r == panel[p].shown.run IN
    /\ panel[p].mounted /\ r # 0
    /\ ~\E n \in notes : n.panel = p /\ n.run = r
    /\ notes' = notes \cup {[panel |-> p, run |-> r, stage |-> "sent"]}
    /\ UNCHANGED <<server, panel, calls, load>>

-----------------------------------------------------------------------------
(* The server                                                              *)

Latest == CHOOSE r \in saved : \A q \in saved : q <= r

RunStarts(q) ==
  /\ q.stage = "sent"
  /\ starts' = starts + 1
  /\ calls' = (calls \ {q}) \cup
                {[q EXCEPT !.stage = "started", !.run = starts + 1]}
  /\ UNCHANGED <<open, saved, reviewed, panel, load, notes>>

RunEvaluated(q) ==
  /\ q.stage = "started"
  /\ open' = open \cup {q.run}
  /\ calls' = (calls \ {q}) \cup {[q EXCEPT !.stage = "evaluated"]}
  /\ UNCHANGED <<starts, saved, reviewed, panel, load, notes>>

\* The server refuses it or cannot be reached, or its answer is lost.
RunRefused(q) ==
  /\ q.stage # "refused"
  /\ calls' = (calls \ {q}) \cup {[q EXCEPT !.stage = "refused"]}
  /\ UNCHANGED <<server, panel, load, notes>>

RunCommitted(r) ==
  /\ open' = open \ {r}
  /\ saved' = saved \cup {r}
  /\ UNCHANGED <<starts, reviewed, panel, calls, load, notes>>

RunRolledBack(r) ==
  /\ open' = open \ {r}
  /\ UNCHANGED <<starts, saved, reviewed, panel, calls, load, notes>>

\* get_compliance_matrix: the saved run that started last.
MatrixRead(p) ==
  /\ load[p].stage = "sent"
  /\ load' = [load EXCEPT ![p] =
       IF saved = {} THEN [@ EXCEPT !.stage = "read"]
       ELSE [@ EXCEPT !.stage = "read", !.run = Latest,
                      !.mark = IF Latest \in reviewed THEN Latest ELSE 0]]
  /\ UNCHANGED <<server, panel, calls, notes>>

MatrixRefused(p) ==
  /\ load[p].stage \in {"sent", "read"}
  /\ load' = [load EXCEPT ![p].stage = "refused"]
  /\ UNCHANGED <<server, panel, calls, notes>>

\* record_check_result_override: only of a result that is there.
ReviewRecorded(n) ==
  /\ n.stage = "sent"
  /\ n.run \in saved
  /\ reviewed' = reviewed \cup {n.run}
  /\ notes' = (notes \ {n}) \cup {[n EXCEPT !.stage = "recorded"]}
  /\ UNCHANGED <<starts, open, saved, panel, calls, load>>

ReviewRefused(n) ==
  /\ n.stage # "refused"
  /\ notes' = (notes \ {n}) \cup {[n EXCEPT !.stage = "refused"]}
  /\ UNCHANGED <<server, panel, calls, load>>

-----------------------------------------------------------------------------
(* The answers                                                             *)

RunShown(s, q) ==
  [s EXCEPT !.loading = FALSE, !.message = FALSE, !.ran = @ \/ ~q.auto,
            !.shown = [run |-> q.run, mark |-> 0, via |-> "run", ver |-> q.ver],
            !.fresh = IF q.ver > @ THEN q.ver ELSE @]

\* Mutated form: the automatic run fails without a message.
RunMissedSilently(s, q) ==
  IF q.auto THEN [s EXCEPT !.loading = FALSE]
            ELSE [s EXCEPT !.loading = FALSE, !.error = TRUE]

\* The automatic run fails with a message in the place of the matrix.
RunMissed(s, q) ==
  IF q.auto THEN [s EXCEPT !.loading = FALSE, !.message = TRUE]
            ELSE [s EXCEPT !.loading = FALSE, !.error = TRUE]

RunAnswered(q) ==
  /\ q.stage \in {"evaluated", "refused"}
  /\ panel' = [panel EXCEPT ![q.panel] =
                 IF q.stage = "evaluated" THEN RunShown(@, q) ELSE RunMissed(@, q)]
  /\ calls' = calls \ {q}
  /\ UNCHANGED <<server, load, notes>>

\* Mutated form: the version is not compared.
OvertakenNever(s, l) == FALSE

\* A run was asked for since the load was sent: its answer is dropped.
Overtaken(s, l) == l.ver # s.version

MatrixShown(s, l) ==
  [s EXCEPT !.matrixLoading = FALSE,
            !.shown = [run |-> l.run, mark |-> l.mark, via |-> "matrix",
                       ver |-> l.ver]]

MatrixAnswered(p) ==
  LET l == load[p]
      s == [panel[p] EXCEPT !.matrixLoading = FALSE]
  IN
    /\ l.stage \in {"read", "refused"}
    /\ load' = [load EXCEPT ![p] = NoLoad]
    /\ \/ /\ Overtaken(s, l)
          /\ panel' = [panel EXCEPT ![p] = s]
          /\ calls' = calls
       \/ /\ ~Overtaken(s, l)
          /\ l.stage = "read" /\ l.run # 0
          /\ panel' = [panel EXCEPT ![p] = MatrixShown(s, l)]
          /\ calls' = calls
       \/ /\ ~Overtaken(s, l)
          /\ l.stage = "read" /\ l.run = 0
          /\ p \in AutoRun /\ ~s.autoRan
          /\ SendRun(p, [s EXCEPT !.autoRan = TRUE], TRUE)
       \/ /\ ~Overtaken(s, l)
          /\ l.stage = "read" => l.run = 0 /\ (p \in AutoRun => s.autoRan)
          /\ panel' = [panel EXCEPT ![p] = [s EXCEPT !.message = TRUE]]
          /\ calls' = calls
    /\ UNCHANGED <<server, notes>>

\* Mutated form: the answer is put beside whatever is shown.
MarkedWhatever(s, r) == [s EXCEPT !.shown.mark = IF s.shown.run = 0 THEN 0 ELSE r]

\* updateReviewedResult: the result it answers for is replaced, if it is shown.
Marked(s, r) == IF s.shown.run = r THEN [s EXCEPT !.shown.mark = r] ELSE s

ReviewAnswered(n) ==
  /\ n.stage \in {"recorded", "refused"}
  /\ panel' = IF n.stage = "refused" THEN panel
              ELSE [panel EXCEPT ![n.panel] = Marked(@, n.run)]
  /\ notes' = notes \ {n}
  /\ UNCHANGED <<server, calls, load>>

-----------------------------------------------------------------------------
User(p) ==
  \/ Mount(p) \/ Close(p)
  \/ RunClicked(p) \/ ProposalSaved(p) \/ RetryClicked(p) \/ ReviewClicked(p)

ViewNext ==
  \/ \E p \in Panel :
       User(p) \/ MatrixRead(p) \/ MatrixRefused(p) \/ MatrixAnswered(p)
  \/ \E q \in calls :
       RunStarts(q) \/ RunEvaluated(q) \/ RunRefused(q) \/ RunAnswered(q)
  \/ \E r \in open : RunCommitted(r) \/ RunRolledBack(r)
  \/ \E n \in notes : ReviewRecorded(n) \/ ReviewRefused(n) \/ ReviewAnswered(n)

ViewSpec == ViewInit /\ [][ViewNext]_viewVars

-----------------------------------------------------------------------------
\* The matrix of an earlier load never takes the place of a run that was asked
\* for after the load was sent: "keeps a fresh run when an older matrix load
\* resolves later".
FreshRunStands ==
  \A p \in Panel :
    LET s == panel[p] IN s.shown.via = "matrix" => s.shown.ver >= s.fresh

\* A panel that awaits nothing shows results, a message or an error, whatever
\* was dropped or refused on the way.
SomethingToSay ==
  \A p \in Panel :
    LET s == panel[p] IN
      s # Unmounted /\ load[p] = NoLoad /\ ~(\E q \in calls : q.panel = p) =>
        s.shown.run # 0 \/ s.message \/ s.error

\* The review beside a result was recorded for that result, also when another
\* run took its place while the review was under way.
ReviewsOfTheirRun ==
  \A p \in Panel :
    LET s == panel[p].shown IN
      s.mark # 0 => s.mark = s.run /\ s.run \in reviewed
=============================================================================
