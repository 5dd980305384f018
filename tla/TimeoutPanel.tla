---------------------------- MODULE TimeoutPanel ----------------------------
(***************************************************************************)
(* Timeout handling in the OMS reliability panel                           *)
(* (frontend/app/components/PaperOmsReliabilityPanel.tsx): a timeout of a  *)
(* candidate is previewed, then marked, which expires the order.           *)
(*                                                                         *)
(* The panel remembers one pending action.  A click on another button      *)
(* takes its place, and the end of any action clears it, so that actions   *)
(* overlap and the button of one under way can be clicked again.  The      *)
(* requests have no timeout of their own.                                  *)
(*                                                                         *)
(* At the backend an order is recorded anew or expired by others at any    *)
(* time, and a mark checks that the order is open before the transaction   *)
(* in which it expires it: of PaperExecutionStore, what a panel can tell.  *)
(***************************************************************************)
EXTENDS Naturals

CONSTANTS
  Orders,    \* orders that are open for too long
  None,      \* no order
  MaxClicks  \* bound on the actions of one visit

ConstantsAssumption == None \notin Orders /\ MaxClicks \in Nat

VARIABLES
  expired,     \* orders with an EXPIRE event at the backend
  candidates,  \* the timeout candidates of the page
  refreshes,   \* calls of router.refresh that wait for their turn
  rendering,   \* the candidates a refresh under way has read, if there is one
  preview,     \* the order of previewResult
  mark,        \* the order of markResult
  failed,      \* actionError
  pending,     \* pendingActionKey
  requests,    \* actions under way: sent, checked, or with an outcome
  clicks,      \* actions of this visit so far
  previewed,   \* orders whose preview this visit has shown
  marked       \* orders whose mark it has shown, not recorded anew since

panel == <<preview, mark, failed, pending>>
page == <<candidates, refreshes, rendering>>
visit == <<requests, clicks, previewed, marked>>
vars == <<expired, page, panel, visit>>

-----------------------------------------------------------------------------

NoAction == [action |-> "none", order |-> None]

\* runTimeoutAction's key
ActionKey(action, order) == [action |-> action, order |-> order]

\* list_timeout_candidates lists orders that are open, those that have been
\* so for long enough and up to a limit; the fallback of a failed fetch is
\* empty.
Candidates == SUBSET (Orders \ expired)

Init ==
  /\ expired = {}
  /\ candidates = {}
  /\ refreshes = 0
  /\ rendering = {}
  /\ preview = None
  /\ mark = None
  /\ failed = FALSE
  /\ pending = NoAction
  /\ requests = {}
  /\ clicks = 0
  /\ previewed = {}
  /\ marked = {}

\* A visit, or a reload, which abandons what is under way.
Visit ==
  /\ candidates' \in Candidates
  /\ refreshes' = 0
  /\ rendering' = {}
  /\ preview' = None
  /\ mark' = None
  /\ failed' = FALSE
  /\ pending' = NoAction
  /\ requests' = {}
  /\ clicks' = 0
  /\ previewed' = {}
  /\ marked' = {}
  /\ UNCHANGED expired

\* The router takes its refreshes one after the other: the page is rendered
\* anew at the server,
RefreshReads ==
  /\ refreshes > 0 /\ rendering = {}
  /\ refreshes' = refreshes - 1
  /\ \E seen \in Candidates : rendering' = {seen}
  /\ UNCHANGED <<expired, candidates, panel, visit>>

\* and comes with new candidates; the panel keeps its state.
RefreshArrives ==
  /\ candidates' \in rendering
  /\ rendering' = {}
  /\ UNCHANGED <<expired, refreshes, panel, visit>>

\* Mutation: any preview enables the button.
PreviewOfAny(order) == preview # None

\* isPreviewForCandidate
IsPreviewForCandidate(order) == preview = order

Enabled(action, order) ==
  /\ order \in candidates
  /\ pending # ActionKey(action, order)
  /\ action = "mark" => IsPreviewForCandidate(order)

\* A click on one of the two buttons of a candidate.
Click(action, order) ==
  /\ clicks < MaxClicks
  /\ Enabled(action, order)
  /\ clicks' = clicks + 1
  /\ pending' = ActionKey(action, order)
  /\ failed' = FALSE
  /\ requests' =
       requests \cup
         { [ id |-> clicks, action |-> action, order |-> order,
             outcome |-> "sent" ] }
  /\ UNCHANGED <<expired, page, preview, mark, previewed, marked>>

\* The request as the backend has come to, or left, it.
Proceeds(request, outcome) ==
  /\ requests' =
       (requests \ {request}) \cup {[request EXCEPT !.outcome = outcome]}
  /\ UNCHANGED <<page, panel, clicks, previewed, marked>>

\* The order is open, as far as the request can see.  That is all there is
\* to a preview.
Check(request) ==
  /\ request.outcome = "sent"
  /\ request.order \notin expired
  /\ Proceeds(request, IF request.action = "mark" THEN "checked" ELSE "ok")
  /\ UNCHANGED expired

\* The transaction of a mark; an EXPIRE event that is there by now is a
\* clash of primary keys.
Commit(request) ==
  /\ request.outcome = "checked"
  /\ request.order \notin expired
  /\ expired' = expired \cup {request.order}
  /\ Proceeds(request, "ok")

\* It refuses: the order is not open any more, or not for long enough, or
\* the transaction fails.
Refuse(request) ==
  /\ request.outcome \in {"sent", "checked"}
  /\ Proceeds(request, "refused")
  /\ UNCHANGED expired

\* Mutation: the page is not refreshed after a mark.
RefreshesAsBefore(action) == refreshes

\* A mark asks for the page anew.
RefreshesAfter(action) ==
  IF action = "mark" THEN refreshes + 1 ELSE refreshes

\* The answer of a success: the other result goes away.
Receive(request) ==
  /\ request.outcome = "ok"
  /\ IF request.action = "mark"
       THEN /\ mark' = request.order /\ preview' = None
            /\ marked' = marked \cup ({request.order} \cap expired)
            /\ UNCHANGED previewed
       ELSE /\ preview' = request.order /\ mark' = None
            /\ previewed' = previewed \cup {request.order}
            /\ UNCHANGED marked
  /\ refreshes' = RefreshesAfter(request.action)
  /\ pending' = NoAction
  /\ requests' = requests \ {request}
  /\ UNCHANGED <<expired, candidates, rendering, failed, clicks>>

\* Mutation: an error leaves the action pending.
PendingAfterError == pending

\* The finally branch, whichever action is pending by now.
PendingAfter == NoAction

\* A refusal, or a broken connection at any point.  What was sent may be
\* handled still: Expire.
ReceiveError(request) ==
  /\ failed' = TRUE
  /\ pending' = PendingAfter
  /\ requests' = requests \ {request}
  /\ UNCHANGED
       <<expired, page, preview, mark, clicks, previewed, marked>>

\* A mark of another panel expires the order, or one this panel does not
\* wait for any more.
Expire(order) ==
  /\ order \notin expired
  /\ expired' = expired \cup {order}
  /\ UNCHANGED <<page, panel, visit>>

\* The run is recorded anew, its EXPIRE event deleted.
Record(order) ==
  /\ order \in expired
  /\ expired' = expired \ {order}
  /\ marked' = marked \ {order}
  /\ UNCHANGED <<page, panel, requests, clicks, previewed>>

Next ==
  \/ Visit
  \/ RefreshReads
  \/ RefreshArrives
  \/ \E order \in Orders :
       \/ Expire(order)
       \/ Record(order)
       \/ \E action \in {"preview", "mark"} : Click(action, order)
  \/ \E request \in requests :
       \/ Check(request)
       \/ Commit(request)
       \/ Refuse(request)
       \/ Receive(request)
       \/ ReceiveError(request)

(***************************************************************************)
(* A connection ends: with the answer, or with an error.                   *)
(***************************************************************************)
Ends(id) ==
  \E request \in requests :
    request.id = id /\ (Receive(request) \/ ReceiveError(request))

Fairness == \A id \in 0..(MaxClicks - 1) : WF_vars(Ends(id))

Spec == Init /\ [][Next]_vars /\ Fairness

-----------------------------------------------------------------------------

TypeOK ==
  /\ {expired, candidates, previewed, marked} \subseteq SUBSET Orders
  /\ refreshes \in Nat
  /\ rendering \in {{}} \cup {{seen} : seen \in SUBSET Orders}
  /\ {preview, mark} \subseteq Orders \cup {None}
  /\ preview = None \/ mark = None
  /\ failed \in BOOLEAN
  /\ pending \in
       [action : {"preview", "mark"}, order : Orders] \cup {NoAction}
  /\ \A request \in requests :
       /\ request.id \in 0..(MaxClicks - 1)
       /\ request.order \in Orders
       /\ request.action \in {"preview", "mark"}
       /\ request.outcome \in {"sent", "checked", "ok", "refused"}
  /\ clicks \in 0..MaxClicks

(***************************************************************************)
(* An order the panel says it has marked is not offered again: once the    *)
(* refreshes have arrived it is none of the candidates, unless it was      *)
(* recorded anew since.  Marks and refreshes overlap, and a refresh may    *)
(* have read the candidates before the mark of another order committed.    *)
(***************************************************************************)
MarkedIsGone ==
  refreshes = 0 /\ rendering = {} => marked \cap candidates = {}

(***************************************************************************)
(* What the panel marks, its reader has seen previewed in the same visit,  *)
(* over late answers and refreshes of the candidates.                      *)
(***************************************************************************)
PreviewedBeforeMarked ==
  \A request \in requests :
    request.action = "mark" => request.order \in previewed

=============================================================================
