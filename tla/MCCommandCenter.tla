-------------------------- MODULE MCCommandCenter --------------------------
(***************************************************************************)
(* Values for model checking CommandCenter.                                *)
(***************************************************************************)
EXTENDS CommandCenter

\* Paper, and what the page must not pass off as paper.
PaperAndLive ==
  { [mode |-> "paper", live |-> FALSE, broker |-> "paper"],
    [mode |-> "live", live |-> TRUE, broker |-> "external"] }

\* Each resource is watched, alone or with those shown next to it.
WatchedTogether ==
  { {"health", "roadmap"}, {"contracts", "paperStatus"},
    {"executionStatus", "persistence"}, {"runs", "omsEvents", "reports"},
    {"auditEvents"}, {"reliability", "outbox"}, {"candidates"},
    {"auditStatus", "verification"}, {"approvalStatus"},
    {"approvalQueue", "approvalHistory"}, {"webReadiness", "session"},
    {"tenant"}, {"releaseBaseline", "environment"},
    {"datastore", "productionDatastore"}, {"hostedReadiness", "sandbox"},
    {"identity"}, {"identityAccess", "authProvider"},
    {"securityOperations"}, {"riskStatus"}, {"crossAccount", "compliance"},
    {"brokerSimulation", "omsReadiness"}, {"worm", "reviewPacket"} }

=============================================================================
