------------------------- MODULE BrokerPreviewPanel -------------------------
(***************************************************************************)
(* The preview of the paper broker simulation                              *)
(* (frontend/app/components/PaperBrokerSimulationModelPanel.tsx): a form   *)
(* with a quote and an intent, sent to the backend, which simulates it or  *)
(* refuses it and stores nothing.  The form stays editable while the       *)
(* request, which has no timeout of its own, is under way.                 *)
(***************************************************************************)
EXTENDS Naturals

CONSTANTS
  Forms,     \* what the form may hold: intent and quote
  Accepted,  \* the forms the backend simulates
  None,      \* no result
  MaxClicks  \* bound on the submissions of a visit

ConstantsAssumption ==
  /\ Accepted \subseteq Forms
  /\ None \notin Forms
  /\ MaxClicks \in Nat

VARIABLES
  form,        \* the fields
  previewing,  \* isPreviewing
  result,      \* the form whose result is shown
  error,       \* whether errorMessage is shown
  status,      \* statusMessage
  requests,    \* requests under way
  clicks       \* submissions so far, and the form of the last one

vars == <<form, previewing, result, error, status, requests, clicks>>

-----------------------------------------------------------------------------

Init ==
  /\ form \in Forms
  /\ previewing = FALSE
  /\ result = None
  /\ error = FALSE
  /\ status = "initial"
  /\ requests = {}
  /\ clicks = [count |-> 0, last |-> None]

Edit ==
  /\ form' \in Forms
  /\ UNCHANGED <<previewing, result, error, status, requests, clicks>>

\* Mutation: the button stays enabled.
AlwaysEnabled == TRUE

Enabled == ~previewing

\* previewSimulation, up to its await.
Submit ==
  /\ Enabled
  /\ clicks.count < MaxClicks
  /\ clicks' = [count |-> clicks.count + 1, last |-> form]
  /\ previewing' = TRUE
  /\ result' = None
  /\ error' = FALSE
  /\ status' = "previewing"
  /\ requests' = requests \cup {[id |-> clicks.count, form |-> form]}
  /\ UNCHANGED form

\* The result, which is paper only: assertSafePaperSimulationResult lets it
\* through.
Receive(request) ==
  /\ request.form \in Accepted
  /\ requests' = requests \ {request}
  /\ previewing' = FALSE
  /\ result' = request.form
  /\ status' = "ready"
  /\ UNCHANGED <<form, error, clicks>>

\* The finally branch.
PreviewingAfter == FALSE

\* A refusal, an answer that is not safe, or a broken connection.
ReceiveError(request) ==
  /\ requests' = requests \ {request}
  /\ previewing' = PreviewingAfter
  /\ error' = TRUE
  /\ status' = "none"
  /\ UNCHANGED <<form, result, clicks>>

\* In view below the form: the button, the status, the error, and the
\* outcome, fill and flags of the result.
View ==
  [busy |-> previewing, status |-> status, error |-> error, result |-> result]

Next ==
  \/ Edit
  \/ Submit
  \/ \E request \in requests : Receive(request) \/ ReceiveError(request)

(***************************************************************************)
(* A connection ends: with the answer, or with an error.                   *)
(***************************************************************************)
Ends(id) ==
  \E request \in requests :
    request.id = id /\ (Receive(request) \/ ReceiveError(request))

Fairness == \A id \in 0..(MaxClicks - 1) : WF_vars(Ends(id))

Spec == Init /\ [][Next]_vars /\ Fairness

-----------------------------------------------------------------------------

TypeOK ==
  /\ form \in Forms
  /\ previewing \in BOOLEAN /\ error \in BOOLEAN
  /\ result \in Accepted \cup {None}
  /\ status \in {"initial", "previewing", "ready", "none"}
  /\ \A request \in requests :
       request.id \in 0..(MaxClicks - 1) /\ request.form \in Forms
  /\ clicks \in [count : 0..MaxClicks, last : Forms \cup {None}]

(***************************************************************************)
(* A result is shown only for the last submission, and never next to an    *)
(* error or while another preview is under way, however late answers come. *)
(***************************************************************************)
ResultIsOfLastSubmission ==
  View.result # None =>
    View = [ busy |-> FALSE, status |-> "ready", error |-> FALSE,
             result |-> clicks.last ]

=============================================================================
