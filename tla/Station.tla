-------------------------------- MODULE Station --------------------------------
(***************************************************************************)
(* The station's page in one specification: the parts of the digital twin  *)
(* and the agent's access to Control.  The parts write no state of each    *)
(* other and no property relates two of them (that telemetry replaces the  *)
(* containers is the page's ContainersReplaced), so that it is enough to   *)
(* let one part at a time act: `part` names the one a behaviour is about.  *)
(***************************************************************************)
EXTENDS StationTelemetry, EnergyTrend, StationPage, SceneLoading, TemperatureFilter,
        LabelLayout, AgentAccess

VARIABLE part

Parts == {"telemetry", "trend", "page", "loading", "filter", "labels", "access"}
allVars == <<telVars, trendVars, pageVars, loadVars, filterVars, labelVars, accVars, part>>

NotTelemetry == <<trendVars, pageVars, loadVars, filterVars, labelVars, accVars, part>>
NotTrend == <<telVars, pageVars, loadVars, filterVars, labelVars, accVars, part>>
NotPage == <<telVars, trendVars, loadVars, filterVars, labelVars, accVars, part>>
NotLoading == <<telVars, trendVars, pageVars, filterVars, labelVars, accVars, part>>
NotFilter == <<telVars, trendVars, pageVars, loadVars, labelVars, accVars, part>>
NotLabels == <<telVars, trendVars, pageVars, loadVars, filterVars, accVars, part>>
NotAccess == <<telVars, trendVars, pageVars, loadVars, filterVars, labelVars, part>>

\* A part that may be mounted in several states starts in one of them unless it acts.
Mounted ==
  /\ part = "trend" \/ choice = [scope |-> CHOOSE s \in Scopes : TRUE, range |-> "24h", nr |-> 0]
  /\ part = "page" \/ url = [view |-> "data", device |-> Nobody]
  /\ part = "loading" \/ toLoad = CHOOSE n \in Models : TRUE
  /\ part = "labels" \/ candidates = CHOOSE f \in Candidates : TRUE
  /\ part = "access" \/ server = [user |-> CHOOSE u \in Users : TRUE, secret |-> 0, issued |-> 0]

StationInit ==
  /\ part \in Parts
  /\ Mounted
  /\ TelInit /\ TrendInit /\ PageInit /\ LoadInit /\ FilterInit /\ LabelInit /\ AccInit

StationNext ==
  \/ part = "telemetry" /\ TelNext /\ UNCHANGED NotTelemetry
  \/ part = "trend" /\ TrendNext /\ UNCHANGED NotTrend
  \/ part = "page" /\ PageNext /\ UNCHANGED NotPage
  \/ part = "loading" /\ LoadNext /\ UNCHANGED NotLoading
  \/ part = "filter" /\ FilterNext /\ UNCHANGED NotFilter
  \/ part = "labels" /\ LabelNext /\ UNCHANGED NotLabels
  \/ part = "access" /\ AccNext /\ UNCHANGED NotAccess

\* TelFairness and LoadFairness, of the part that acts.
StationFairness ==
  /\ \A g \in Gens : WF_telVars(part = "telemetry" /\ Bridge(g))
  /\ WF_telVars(part = "telemetry" /\ StaleCheck)
  /\ WF_telVars(part = "telemetry" /\ Tick)
  /\ WF_loadVars(part = "loading" /\ LoadStep)

StationSpec == StationInit /\ [][StationNext]_allVars /\ StationFairness

-----------------------------------------------------------------------------
\* The panel's figures come back after every broken socket, refused token and refresh.
TelemetryComesBack == part = "telemetry" => BackToLive

\* The overlay over the scene is gone at last.
OverlayIsGone == part = "loading" => OverlayGoes
=============================================================================
