------------------------ MODULE CommandCenterPanels ------------------------
(***************************************************************************)
(* What the read-only panels of the Command Center show of a page          *)
(* (frontend/app/components and frontend/app/page.tsx).                    *)
(*                                                                         *)
(* A page holds, for each resource of the backend, the answer or the       *)
(* fallback.  Of an answer only what can vary is kept: the settings of the *)
(* backend, whether the audit chain verifies, the run it is about.  The    *)
(* rest is constant metadata, and layout and wording are left out.         *)
(***************************************************************************)

CONSTANT NoRun

Answer(settings, sound, run) ==
  [settings |-> settings, sound |-> sound, run |-> run]

PaperSettings == [mode |-> "paper", live |-> FALSE, broker |-> "paper"]

\* The validator of the backend: live trading needs mode live, and mode live
\* needs a broker other than paper.
LegalSettings ==
  { s \in [mode : {"paper", "shadow", "live"}, live : BOOLEAN,
           broker : {"paper", "external"}] :
      /\ s.live => s.mode = "live"
      /\ s.mode = "live" => s.broker # "paper" }

\* Every fallback is paper-safe; that of the verification says "verified".
Fallback == Answer(PaperSettings, TRUE, NoRun)

-----------------------------------------------------------------------------
\* Marks: what is shown of a flag, and in which tone

Mark(flag, value, tone) == [flag |-> flag, value |-> value, tone |-> tone]

\* Mutation: the tone is the opposite of what it should be.
JudgedSwapped(flag, value, safe) ==
  Mark(flag, value, IF value = safe THEN "danger" ELSE "ok")

\* renderSafetyFlag, renderFlag, Flag: green for the safe value, else red.
Judged(flag, value, safe) ==
  Mark(flag, value, IF value = safe THEN "ok" ELSE "danger")

PaperOnly(s) == s.mode = "paper" /\ s.broker = "paper" /\ ~s.live

\* TRADING_MODE, ENABLE_LIVE_TRADING and BROKER_PROVIDER, without a tone.
Plain(s) ==
  { Mark("mode", s.mode, "plain"), Mark("live", s.live, "plain"),
    Mark("broker", s.broker, "plain") }

\* All three in green, whatever they say.
AlwaysGreen(s) ==
  { Mark("mode", s.mode, "ok"), Mark("live", s.live, "ok"),
    Mark("broker", s.broker, "ok") }

\* Only ENABLE_LIVE_TRADING is judged.
RedWhenLive(s) ==
  { Mark("mode", s.mode, "ok"), Judged("live", s.live, FALSE),
    Mark("broker", s.broker, "ok") }

\* The rows of safety_flags, without a tone.
PlainFlags(s) ==
  {Mark("paper_only", PaperOnly(s), "plain"), Mark("live", s.live, "plain")}

\* The rows of safety_flags, judged.
JudgedFlags(s) ==
  {Judged("paper_only", PaperOnly(s), TRUE), Judged("live", s.live, FALSE)}

\* A section shows resources, and a notice when one of those it watches came
\* as a fallback.
Section(shows, watches, p, marks) ==
  [ shows |-> shows, notice |-> \E r \in watches : ~p[r].available,
    marks |-> marks ]

Panel(resources, p, marks) == Section(resources, resources, p, marks)

Of(p, resource) == p[resource].data.settings

-----------------------------------------------------------------------------
\* Above the tabs

\* The card of the backend health: connected iff its answer came.
HealthCard(p) ==
  Panel({"health"}, p, {})

\* The hero strip and the cards of the safety mode and the risk defaults
\* have no notice of their own.
SafetyCard(p) ==
  Section({"paperStatus"}, {}, p, RedWhenLive(Of(p, "paperStatus")))

-----------------------------------------------------------------------------
\* The release tab

ReleaseBaselinePanel(p) ==
  Panel({"releaseBaseline"}, p, RedWhenLive(Of(p, "releaseBaseline")))

\* The connection counts as available with health and readiness; session
\* and tenant are shown as they came.
HostedWebCommandCenterPanel(p) ==
  Section({"health", "webReadiness", "session", "tenant"},
    {"health", "webReadiness"}, p, PlainFlags(Of(p, "webReadiness")))

HostedPaperEnvironmentPanel(p) ==
  Panel({"environment"}, p,
    RedWhenLive(Of(p, "environment")) \cup PlainFlags(Of(p, "environment")))

HostedPaperDatastoreReadinessPanel(p) ==
  Panel({"datastore"}, p,
    RedWhenLive(Of(p, "datastore")) \cup PlainFlags(Of(p, "datastore")))

HostedPaperProductionDatastoreReadinessPanel(p) ==
  Panel({"productionDatastore"}, p,
    RedWhenLive(Of(p, "productionDatastore"))
      \cup PlainFlags(Of(p, "productionDatastore")))

HostedPaperReadinessPanel(p) ==
  Panel({"hostedReadiness"}, p,
    RedWhenLive(Of(p, "hostedReadiness"))
      \cup PlainFlags(Of(p, "hostedReadiness")))

HostedPaperSandboxOnboardingPanel(p) ==
  Panel({"sandbox"}, p,
    RedWhenLive(Of(p, "sandbox")) \cup PlainFlags(Of(p, "sandbox")))

\* Mutation: the panel forgets its notice.
IdentityWithoutNotice(p) ==
  Section({"identity"}, {}, p,
    Plain(Of(p, "identity")) \cup PlainFlags(Of(p, "identity")))

HostedPaperIdentityReadinessPanel(p) ==
  Panel({"identity"}, p,
    Plain(Of(p, "identity")) \cup PlainFlags(Of(p, "identity")))

HostedPaperIdentityAccessContractPanel(p) ==
  Panel({"identityAccess"}, p,
    Plain(Of(p, "identityAccess")) \cup PlainFlags(Of(p, "identityAccess")))

HostedPaperAuthProviderSelectionPanel(p) ==
  Panel({"authProvider"}, p,
    Plain(Of(p, "authProvider")) \cup PlainFlags(Of(p, "authProvider")))

HostedPaperSecurityOperationsPanel(p) ==
  Panel({"securityOperations"}, p,
    Plain(Of(p, "securityOperations"))
      \cup PlainFlags(Of(p, "securityOperations")))

\* The tenant is constant.
HostedPaperMockSessionPanel(p) ==
  Panel({"session", "tenant"}, p, PlainFlags(Of(p, "session")))

\* The two panels on running it locally show constant copy, in green; their
\* only state is whether their commands were copied.
LocalPanel(warnings) ==
  [ shows |-> {}, notice |-> FALSE,
    marks |-> AlwaysGreen(PaperSettings)
                \cup {Mark(flag, FALSE, "warn") : flag \in warnings} ]

LocalDemoSetupPanel ==
  LocalPanel({"hosted_accounts", "credentials", "production"})

LocalBackendDemoModePanel == LocalPanel({"production_sqlite", "production"})

ReleaseTab(p) ==
  { ReleaseBaselinePanel(p), LocalDemoSetupPanel, LocalBackendDemoModePanel,
    HostedWebCommandCenterPanel(p),
    HostedPaperEnvironmentPanel(p), HostedPaperDatastoreReadinessPanel(p),
    HostedPaperProductionDatastoreReadinessPanel(p),
    HostedPaperReadinessPanel(p), HostedPaperSandboxOnboardingPanel(p),
    HostedPaperIdentityReadinessPanel(p),
    HostedPaperIdentityAccessContractPanel(p),
    HostedPaperAuthProviderSelectionPanel(p),
    HostedPaperSecurityOperationsPanel(p), HostedPaperMockSessionPanel(p) }

-----------------------------------------------------------------------------
\* The paper tab

\* Its notice is about the status only; the persistence strip, without one,
\* is part of the section.
PaperWorkflowSection(p) ==
  Section({"executionStatus", "persistence"}, {"executionStatus"}, p,
    AlwaysGreen(Of(p, "executionStatus")))

\* Guarded by the error as well, which is set with every fallback.
PaperRiskGuardrailsPanel(p) ==
  Panel({"riskStatus"}, p,
    AlwaysGreen(Of(p, "riskStatus")) \cup {Mark("paper_only", TRUE, "ok")})

PaperRiskCrossAccountReadinessPanel(p) ==
  Panel({"crossAccount"}, p, JudgedFlags(Of(p, "crossAccount")))

PaperApprovalQueuePanel(p) ==
  Panel({"approvalStatus", "approvalQueue", "approvalHistory"}, p,
    AlwaysGreen(Of(p, "approvalStatus")))

PaperComplianceApprovalReadinessPanel(p) ==
  Panel({"compliance"}, p,
    Plain(Of(p, "compliance")) \cup PlainFlags(Of(p, "compliance")))

PaperBrokerSimulationReadinessPanel(p) ==
  Panel({"brokerSimulation"}, p, JudgedFlags(Of(p, "brokerSimulation")))

PaperExecutionRecordsPanel(p) ==
  Panel({"runs", "omsEvents", "auditEvents"}, p, {})

\* Whatever its settings, this answer says paper_only and not live.
PaperOmsReliabilityPanel(p) ==
  Panel({"reliability", "outbox", "candidates", "reports"}, p,
    JudgedFlags(PaperSettings))

PaperOmsProductionReadinessPanel(p) ==
  Panel({"omsReadiness"}, p, JudgedFlags(Of(p, "omsReadiness")))

PaperAuditIntegrityPanel(p) ==
  Panel({"auditStatus", "verification"}, p,
    {Judged("verified", p["verification"].data.sound, TRUE)}
      \cup JudgedFlags(PaperSettings))

PaperAuditWormReadinessPanel(p) ==
  Panel({"worm"}, p, JudgedFlags(Of(p, "worm")))

PaperTab(p) ==
  { PaperWorkflowSection(p), PaperRiskGuardrailsPanel(p),
    PaperRiskCrossAccountReadinessPanel(p), PaperApprovalQueuePanel(p),
    PaperComplianceApprovalReadinessPanel(p),
    PaperBrokerSimulationReadinessPanel(p), PaperExecutionRecordsPanel(p),
    PaperOmsReliabilityPanel(p), PaperOmsProductionReadinessPanel(p),
    PaperAuditIntegrityPanel(p), PaperAuditWormReadinessPanel(p) }

-----------------------------------------------------------------------------
\* The packet tab and the contracts tab

PacketTab(p) == {Panel({"reviewPacket"}, p, {})}

\* Roadmap and contracts have no notice of their own.
ContractsTab(p) == {Section({"roadmap", "contracts"}, {}, p, {})}

=============================================================================
