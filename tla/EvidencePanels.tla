--------------------------- MODULE EvidencePanels ---------------------------
(***************************************************************************)
(* The viewers of exported evidence: a file that scripts/export-*.py or    *)
(* scripts/verify-paper-audit-integrity.py wrote is chosen in the browser, *)
(* read, validated and shown (PaperDemoEvidencePanel,                      *)
(* PaperAuditIntegrityEvidencePanel, PaperBrokerSimulationEvidencePanel,   *)
(* HostedPaperTenantBoundaryEvidencePanel, ResearchReviewPacketJsonLoader  *)
(* in frontend/app/components).                                            *)
(*                                                                         *)
(* Exporter, validator and view each have their own list of safety flags;  *)
(* these are kept by name.  The other fields of a payload are the parts    *)
(* its validator looks at, each of which is in order or not.               *)
(***************************************************************************)
EXTENDS Naturals

CONSTANTS
  None,     \* no evidence
  MaxPicks  \* bound on the files chosen in a visit

VARIABLES
  kind,      \* of the panel
  evidence,  \* the file whose payload is shown
  source,    \* the file that is named as the source
  state,     \* loaderState
  reading,   \* files being read
  picks      \* files chosen so far

vars == <<kind, evidence, source, state, reading, picks>>

Kinds == {"paperDemo", "audit", "broker", "tenant", "packet"}

-----------------------------------------------------------------------------
\* Payloads: their kind, the parts that are not in order, what they report as
\* failed, their flags

Flags(true, false) == [f \in true \cup false |-> f \in true]

Payload(k, broken, reported, flags) ==
  [kind |-> k, broken |-> broken, failed |-> reported, flags |-> flags]

DemoFlags(gateway) ==
  Flags(
    { "paper_only", "local_sqlite_only" }
      \cup IF gateway THEN {"paper_broker_gateway_called"} ELSE {},
    { "live_trading_enabled", "broker_api_called", "external_db_written",
      "broker_credentials_collected", "real_order_created",
      "approval_for_live", "investment_advice" }
      \cup IF gateway THEN {} ELSE {"paper_broker_gateway_called"})

AuditFlags ==
  Flags(
    {"paper_only", "local_sqlite_only"},
    { "live_trading_enabled", "broker_api_called", "database_written",
      "external_db_written", "worm_ledger", "immutable_audit_log",
      "centralized_audit_service", "production_audit_compliance",
      "broker_credentials_collected" })

BrokerFlags ==
  Flags(
    {"paper_only"},
    { "live_trading_enabled", "broker_api_called",
      "external_market_data_downloaded", "production_execution_model",
      "database_written", "order_created", "risk_engine_called", "oms_called",
      "broker_credentials_collected", "investment_advice" })

\* broker_provider is TRUE when it is "paper".
TenantFlags ==
  Flags(
    {"paper_only", "read_only", "broker_provider"},
    { "hosted_paper_enabled", "live_trading_enabled", "broker_api_called",
      "order_created", "risk_engine_called", "oms_called",
      "broker_gateway_called", "authenticated",
      "hosted_auth_provider_enabled", "session_cookie_issued",
      "credentials_collected", "broker_credentials_collected",
      "database_written", "hosted_datastore_enabled",
      "hosted_datastore_written", "external_db_written",
      "local_sqlite_access", "production_trading_ready",
      "investment_advice" })

PacketFlags ==
  Flags(
    {"research_only", "simulated_metrics_only"},
    { "execution_eligible", "order_created", "broker_api_called",
      "risk_engine_called", "oms_called", "performance_claim",
      "external_data_downloaded", "ranking_generated",
      "best_strategy_selected", "approval_for_live",
      "approval_for_paper_execution", "persisted" })

\* What the exporters write.  A run that the risk engine rejects is not sent
\* to the gateway; one without an order has no order_id; one whose approval
\* is not in the store has no decisions.  A chain that does not verify is
\* reported, and a hash that was tampered with may be no hash at all.  The
\* checks of a simulation may fail.
Exports(k) ==
  CASE k = "paperDemo" ->
         { Payload(k, broken, {}, DemoFlags(gateway)) :
             broken \in SUBSET {"order", "decisions"}, gateway \in BOOLEAN }
    [] k = "audit" ->
         { Payload(k, {}, {}, AuditFlags),
           Payload(k, {}, {"verified"}, AuditFlags),
           Payload(k, {"checks"}, {"verified"}, AuditFlags) }
    [] k = "broker" ->
         { Payload(k, {}, reported, BrokerFlags) :
              reported \in SUBSET {"checks"} }
    [] k = "tenant" -> {Payload(k, {}, {}, TenantFlags)}
    [] k = "packet" -> {Payload(k, {}, {}, PacketFlags)}

\* The parts the validators look at, besides the flags.
Parts(k) ==
  CASE k = "paperDemo" ->
         { "identity", "order", "event_counts", "decisions",
           "decision_flags", "warnings" }
    [] k = "audit" ->
         { "identity", "counts", "verified", "workflow_run_id", "root_flags",
           "checks", "warnings" }
    [] k = "broker" ->
         {"identity", "input", "result", "warnings"}
    [] k = "tenant" ->
         { "identity", "persisted", "session", "tenant_id", "schemas",
           "granted_permissions", "denied_permissions", "safety_defaults",
           "boundary_assertions", "warnings" }
    [] k = "packet" ->
         { "identity", "counts", "decision_summary", "included_sections",
           "checksums", "reproducibility_hash", "warnings" }

\* An export that was edited: one part or one flag.
Edited(k) ==
  UNION { {[p EXCEPT !.broken = @ \cup {part}] : part \in Parts(k)}
            \cup {[p EXCEPT !.flags[f] = ~@] : f \in DOMAIN p.flags} :
          p \in Exports(k) }

\* Files: the name may not end in .json, the size be too large, the text
\* not parse.
Written == [payload : UNION {Exports(k) : k \in Kinds}, fault : {"none"}]

Chosen(k) ==
  Written
    \cup [payload : Edited(k), fault : {"none"}]
    \cup [payload : Exports(k), fault : {"extension", "size", "text"}]

ConstantsAssumption ==
  /\ MaxPicks \in Nat
  /\ \A k \in Kinds : None \notin Chosen(k)

-----------------------------------------------------------------------------
\* The validators

Holds(p, true, false) ==
  /\ \A f \in true : p.flags[f]
  /\ \A f \in false : ~p.flags[f]

ValidatePaperDemoEvidence(p) ==
  Holds(p, {"paper_only"},
    { "live_trading_enabled", "broker_api_called", "approval_for_live",
      "real_order_created" })

ValidatePaperAuditIntegrityEvidence(p) ==
  Holds(p, {"paper_only", "local_sqlite_only"},
    { "live_trading_enabled", "broker_api_called", "worm_ledger",
      "immutable_audit_log", "centralized_audit_service",
      "production_audit_compliance", "database_written",
      "external_db_written", "broker_credentials_collected" })

\* The second five must be false when they are present.
ValidatePaperBrokerSimulationEvidence(p) ==
  Holds(p, {"paper_only"},
    { "live_trading_enabled", "broker_api_called",
      "external_market_data_downloaded", "production_execution_model",
      "database_written", "order_created", "risk_engine_called",
      "oms_called", "broker_credentials_collected" })

ValidateHostedPaperTenantBoundaryEvidence(p) ==
  Holds(p, {"paper_only", "read_only", "broker_provider"},
    DOMAIN TenantFlags \ {"paper_only", "read_only", "broker_provider"})

ValidateResearchReviewPacket(p) ==
  Holds(p, {"research_only", "simulated_metrics_only"},
    DOMAIN PacketFlags \ {"research_only", "simulated_metrics_only"})

\* The parts of a payload are looked at in every validator.
Validate(k, p) ==
  /\ p.kind = k
  /\ p.broken = {}
  /\ CASE k = "paperDemo" -> ValidatePaperDemoEvidence(p)
       [] k = "audit"     -> ValidatePaperAuditIntegrityEvidence(p)
       [] k = "broker"    -> ValidatePaperBrokerSimulationEvidence(p)
       [] k = "tenant"    -> ValidateHostedPaperTenantBoundaryEvidence(p)
       [] k = "packet"    -> ValidateResearchReviewPacket(p)

-----------------------------------------------------------------------------
\* The views

\* isSafeEvidenceFlag of a panel: these flags are green when true, the others
\* when false.
IsSafeEvidenceFlag(true, flag, value) == value <=> flag \in true

\* The flags of a payload in red.
RedFlags(p, true) ==
  {f \in DOMAIN p.flags : ~IsSafeEvidenceFlag(true, f, p.flags[f])}

\* The panel of a file: its name, whether it was accepted and, if there is
\* evidence, what is in red; red is not evaluated without.
View(red) ==
  [ source |-> source, state |-> state, empty |-> evidence = None,
    red |-> IF evidence = None THEN {} ELSE red ]

PaperDemoEvidencePanel ==
  View(RedFlags(evidence.payload,
    {"paper_only", "local_sqlite_only", "paper_broker_gateway_called"}))

\* That a chain does not verify is red, next to its flags.
PaperAuditIntegrityEvidencePanel ==
  View((evidence.payload.failed \cap {"verified"})
         \cup RedFlags(evidence.payload, {"paper_only", "local_sqlite_only"}))

\* So are the checks of a simulation that failed.
PaperBrokerSimulationEvidencePanel ==
  View((evidence.payload.failed \cap {"checks"})
         \cup RedFlags(evidence.payload, {"paper_only"}))

\* Mutation: the exception that only this panel knows is forgotten.
TenantPanelCommon ==
  View((evidence.payload.broken \cap {"boundary_assertions"})
         \cup RedFlags(evidence.payload, {"paper_only", "read_only"}))

\* And the boundary assertions that are not what they should be.
HostedPaperTenantBoundaryEvidencePanel ==
  View((evidence.payload.broken \cap {"boundary_assertions"})
         \cup RedFlags(evidence.payload,
                {"paper_only", "read_only", "broker_provider"}))

ResearchReviewPacketPanel ==
  View(RedFlags(evidence.payload,
    {"research_only", "simulated_metrics_only"}))

Shown ==
  CASE kind = "paperDemo" -> PaperDemoEvidencePanel
    [] kind = "audit"     -> PaperAuditIntegrityEvidencePanel
    [] kind = "broker"    -> PaperBrokerSimulationEvidencePanel
    [] kind = "tenant"    -> HostedPaperTenantBoundaryEvidencePanel
    [] kind = "packet"    -> ResearchReviewPacketPanel

-----------------------------------------------------------------------------

\* The packet loader starts with the packet of the page, which is a file
\* like the others here.
Sample ==
  [payload |-> Payload("packet", {}, {}, PacketFlags), fault |-> "none"]

Initial(k) == IF k = "packet" THEN Sample ELSE None

Init ==
  /\ kind \in Kinds
  /\ evidence = Initial(kind)
  /\ source = Initial(kind)
  /\ state = "idle"
  /\ reading = {}
  /\ picks = 0

\* Mutation: a refused file leaves the evidence before it in view.
RejectKeeps == state' = "error" /\ UNCHANGED <<evidence, source>>

\* reject.  The packet loader keeps the packet it has.
Reject ==
  IF kind = "packet" THEN RejectKeeps
  ELSE state' = "error" /\ evidence' = None /\ source' = None

\* A refusal by name or size; here the demo panel too keeps what it has.
RejectEarly ==
  IF kind = "paperDemo" THEN RejectKeeps ELSE Reject

\* handleEvidenceFileChange, up to the await of the text.
Pick(file) ==
  /\ picks < MaxPicks
  /\ picks' = picks + 1
  /\ IF file.fault \in {"extension", "size"}
       THEN RejectEarly /\ UNCHANGED reading
       ELSE /\ reading' = reading \cup {[id |-> picks, file |-> file]}
            /\ UNCHANGED <<evidence, source, state>>
  /\ UNCHANGED kind

\* The text has come: files are shown in the order in which they were read.
Read(r) ==
  /\ reading' = reading \ {r}
  /\ IF r.file.fault = "none" /\ Validate(kind, r.file.payload)
       THEN evidence' = r.file /\ source' = r.file /\ state' = "ok"
       ELSE Reject
  /\ UNCHANGED <<kind, picks>>

\* clearEvidence, clearLocalJson
Clear ==
  /\ evidence' = Initial(kind)
  /\ source' = Initial(kind)
  /\ state' = "idle"
  /\ UNCHANGED <<kind, reading, picks>>

\* loadBundledSafeSample
LoadBundledSafeSample ==
  /\ kind = "packet"
  /\ evidence' = Sample
  /\ source' = Sample
  /\ state' = "ok"
  /\ UNCHANGED <<kind, reading, picks>>

Next ==
  \/ \E file \in Chosen(kind) : Pick(file)
  \/ \E r \in reading : Read(r)
  \/ Clear
  \/ LoadBundledSafeSample

Spec == Init /\ [][Next]_vars

-----------------------------------------------------------------------------

TypeOK ==
  /\ kind \in Kinds
  /\ \A file \in {evidence, source} \ {None} :
       file.payload.kind = kind /\ file.fault = "none"
  /\ state \in {"idle", "ok", "error"}
  /\ \A r \in reading :
       r.id \in 0..(MaxPicks - 1) /\ r.file.fault \in {"none", "text"}
  /\ picks \in 0..MaxPicks

(***************************************************************************)
(* What the panel says of its file and what it shows agree, in whichever   *)
(* order the files are read: evidence is shown under the name of its own   *)
(* file; "loaded" means that it is shown.  Except where a panel keeps what *)
(* it has, an error means that nothing is shown, so that the evidence of   *)
(* one file is not taken for that of a refused one.                        *)
(***************************************************************************)
StatusTellsEvidence ==
  /\ Shown.source = evidence
  /\ Shown.state = "ok" => ~Shown.empty
  /\ kind \in {"audit", "broker", "tenant"} =>
       (Shown.state = "ok" <=> ~Shown.empty)

(***************************************************************************)
(* The three lists agree.  What an exporter writes of a complete record is *)
(* accepted, and shown with exactly what it reports as failed in red,      *)
(* except that a demo run which was not sent to the paper gateway has that *)
(* flag in red.  What shows of an edited export has something in red.      *)
(***************************************************************************)
ListsAgree ==
  /\ \A r \in reading :
       r.file.payload \in {p \in Exports(kind) : p.broken = {}} =>
         Validate(kind, r.file.payload)
  /\ ~Shown.empty =>
       IF evidence.payload \in Exports(kind)
         THEN Shown.red =
                evidence.payload.failed
                  \cup IF evidence.payload.flags = DemoFlags(FALSE)
                         THEN {"paper_broker_gateway_called"} ELSE {}
         ELSE Shown.red # {}

=============================================================================
