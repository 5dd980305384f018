---------------------------- MODULE RecordsPanel ----------------------------
(***************************************************************************)
(* The viewer of the recorded runs                                         *)
(* (frontend/app/components/PaperExecutionRecordsPanel.tsx): a list of     *)
(* runs and the OMS and audit timelines of the selected one.  The list is  *)
(* a property of the page; selection and timelines are state of the panel, *)
(* which a refresh of the page leaves alone.  Every row can be clicked at  *)
(* any time, so several requests may be under way.                         *)
(***************************************************************************)
EXTENDS Naturals, Sequences

CONSTANTS
  Runs,       \* workflow runs that may be recorded
  NoRun,      \* no run, and no events
  RunLimit,   \* the limit page.tsx asks the runs with
  MaxClicks   \* bound on the requests of one visit

ConstantsAssumption ==
  /\ NoRun \notin Runs
  /\ RunLimit \in Nat \ {0}
  /\ MaxClicks \in Nat

VARIABLES
  recorded,  \* the runs at the backend, newest first
  runs,      \* the list of the page
  selected,  \* selectedRunId
  oms,       \* the run whose OMS events are shown
  audit,     \* the run whose audit events are shown
  error,     \* timelineError
  loading,   \* isLoadingTimeline
  requests,  \* requests under way, and what has come of each
  clicks,    \* requests of this visit so far
  calm       \* every request was made when no other was under way

panel == <<selected, oms, audit, error, loading>>
vars == <<recorded, runs, panel, requests, clicks, calm>>

-----------------------------------------------------------------------------

Timeline == {"oms", "audit"}

\* list_runs
ListRuns ==
  SubSeq(recorded, 1,
         IF Len(recorded) < RunLimit THEN Len(recorded) ELSE RunLimit)

First(list) == IF list = <<>> THEN NoRun ELSE list[1]

Listed(list) == {list[i] : i \in DOMAIN list}

\* selectedRun: the first one when the selected one is not listed.
SelectedRun == IF selected \in Listed(runs) THEN selected ELSE First(runs)

\* The panel as a visit mounts it: with the first run, and its events as far
\* as they came.
Mount ==
  /\ runs' = ListRuns
  /\ selected' = First(ListRuns)
  /\ oms' \in {First(ListRuns), NoRun}
  /\ audit' \in {First(ListRuns), NoRun}
  /\ error' = FALSE
  /\ loading' = FALSE
  /\ requests' = {}
  /\ clicks' = 0
  /\ calm' = TRUE

Init ==
  /\ recorded \in {<<>>} \cup {<<r>> : r \in Runs}
  /\ runs = <<>>
  /\ selected = NoRun
  /\ oms = NoRun
  /\ audit = NoRun
  /\ error = FALSE
  /\ loading = FALSE
  /\ requests = {}
  /\ clicks = 0
  /\ calm = TRUE

Visit == Mount /\ UNCHANGED recorded

\* router.refresh, by another panel: only the list is new.
Refresh ==
  /\ runs' = ListRuns
  /\ UNCHANGED <<recorded, panel, requests, clicks, calm>>

Record(run) ==
  /\ run \notin Listed(recorded)
  /\ recorded' = <<run>> \o recorded
  /\ UNCHANGED <<runs, panel, requests, clicks, calm>>

\* selectRun, up to its await: a row, or the button that refreshes the
\* timelines of the selected run.
SelectRun(run) ==
  /\ clicks < MaxClicks
  /\ run \in Listed(runs)
  /\ clicks' = clicks + 1
  /\ selected' = run
  /\ error' = FALSE
  /\ loading' = TRUE
  /\ requests' =
       requests \cup {[id |-> clicks, run |-> run, missing |-> Timeline]}
  /\ calm' = (calm /\ requests = {})
  /\ UNCHANGED <<recorded, runs, oms, audit>>

\* Mutation: each answer is shown as it comes.
ShowEarly(request, timeline) ==
  /\ oms' = IF timeline = "oms" THEN request.run ELSE oms
  /\ audit' = IF timeline = "audit" THEN request.run ELSE audit
  /\ loading' = IF request.missing = {timeline} THEN FALSE ELSE loading

\* Both timelines are set together, when both have come (Promise.all).
ShowWhenComplete(request, timeline) ==
  IF request.missing = {timeline}
    THEN oms' = request.run /\ audit' = request.run /\ loading' = FALSE
    ELSE UNCHANGED <<oms, audit, loading>>

\* One of the two answers of a request.
Answer(request, timeline) ==
  /\ timeline \in request.missing
  /\ requests' =
       (requests \ {request})
         \cup (IF request.missing = {timeline} THEN {}
               ELSE {[request EXCEPT !.missing = @ \ {timeline}]})
  /\ ShowWhenComplete(request, timeline)
  /\ UNCHANGED <<recorded, runs, selected, error, clicks, calm>>

\* Mutation: a failed request leaves the old timelines in place.
KeepOnFailure == UNCHANGED <<oms, audit>>

ClearOnFailure == oms' = NoRun /\ audit' = NoRun

\* One of them is refused, or takes more than five seconds; the other is
\* ignored.
Fail(request) ==
  /\ requests' = requests \ {request}
  /\ error' = TRUE
  /\ ClearOnFailure
  /\ loading' = FALSE
  /\ UNCHANGED <<recorded, runs, selected, clicks, calm>>

Next ==
  \/ Visit
  \/ Refresh
  \/ \E run \in Runs : Record(run) \/ SelectRun(run)
  \/ \E request \in requests :
       Fail(request) \/ \E timeline \in Timeline : Answer(request, timeline)

(***************************************************************************)
(* A request ends by itself after five seconds.                            *)
(***************************************************************************)
RequestEnds(id) ==
  \E request \in requests :
    /\ request.id = id
    /\ Fail(request) \/ \E timeline \in Timeline : Answer(request, timeline)

Fairness == \A id \in 0..(MaxClicks - 1) : WF_vars(RequestEnds(id))

Spec == Init /\ [][Next]_vars /\ Fairness

-----------------------------------------------------------------------------

TypeOK ==
  /\ recorded \in Seq(Runs)
  /\ runs \in Seq(Runs) /\ Len(runs) <= RunLimit
  /\ {selected, oms, audit} \subseteq Runs \cup {NoRun}
  /\ error \in BOOLEAN /\ loading \in BOOLEAN /\ calm \in BOOLEAN
  /\ \A request \in requests :
       /\ request.id \in 0..(MaxClicks - 1)
       /\ request.run \in Runs
       /\ request.missing \in (SUBSET Timeline) \ {{}}
  /\ clicks \in 0..MaxClicks

(***************************************************************************)
(* The two timelines are never those of two different runs, although each  *)
(* is fetched on its own and requests overtake each other.                 *)
(***************************************************************************)
TimelinesBelongTogether ==
  oms # NoRun /\ audit # NoRun => oms = audit

(***************************************************************************)
(* For a reader who waits for the timelines before the next click, they    *)
(* are those of the run clicked last, or mounted with, over whatever is    *)
(* recorded and refreshed; or they are empty, as after a failure, where an *)
(* error says so.  That run need not be the one shown as selected: when a  *)
(* refresh drops it from the list, the panel falls back to the first run   *)
(* and keeps the timelines it has.                                         *)
(***************************************************************************)
CalmTimelineIsChosen ==
  calm /\ requests = {} =>
    /\ {oms, audit} \subseteq {selected, NoRun}
    /\ error => oms = NoRun /\ audit = NoRun

(***************************************************************************)
(* "Selectable paper workflow rows for switching the displayed OMS and     *)
(* audit timeline" (docs/phase-5-command-center-shadow-trading.md:48): when *)
(* nothing is under way, the timelines are those of the selected run.  It  *)
(* does not hold: the answer to an earlier click may be the later one to   *)
(* come, and selectRun does not look whether it is still wanted.  Nor does *)
(* it after a refresh that drops the selected run from the list.           *)
(***************************************************************************)
TimelineIsSelected ==
  requests = {} => {oms, audit} \subseteq {SelectedRun, NoRun}

=============================================================================
