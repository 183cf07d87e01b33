---------------------------- MODULE MCHostServices ----------------------------
(***************************************************************************)
(* Instances for TLC of three parts of a host that share no state: the      *)
(* discovery collector, the release updater and the supervisor of the GJC   *)
(* worker. Every behaviour is one of a single part, under the fairness of   *)
(* that part; the others stay as they are.                                  *)
(***************************************************************************)
EXTENDS DiscoveryCollector, ReleaseUpdate, GjcSupervisor

CONSTANTS k1, k2

AllLive == [k \in Keys |-> "live"]
OneName == [k \in Keys |-> "name"]

VARIABLE part

Collecting == part = "collector"
Updating == part = "updater"
Supervising == part = "supervisor"

vars == <<part, cvars, uvars, gvars>>

Init ==
  /\ part \in {"collector", "updater", "supervisor"} /\ CollectorInit /\ UpdateInit /\ GjcInit
  /\ platform = "windows" => Supervising

CollectorPart == Collecting /\ CollectorStep /\ UNCHANGED <<part, uvars, gvars>>

UpdaterPart == Updating /\ UpdateStep /\ UNCHANGED <<part, cvars, gvars>>

SupervisorPart == Supervising /\ GjcStep /\ UNCHANGED <<part, cvars, uvars>>

Next == CollectorPart \/ UpdaterPart \/ SupervisorPart

\* CollectorFairness, UpdateFairness and GjcFairness.
Fairness ==
  /\ WF_cvars(Collecting /\ TimerTick)
  /\ WF_cvars(Collecting /\ (ProbeFindsChange \/ ProbeSkips))
  /\ WF_cvars(Collecting /\ Scan) /\ WF_cvars(Collecting /\ Apply)
  /\ WF_cvars(Collecting /\ FullScanAges)
  /\ \A j \in Jobs : /\ WF_uvars(Updating /\ WorkerStep(j))
                     /\ WF_uvars(Updating /\ (Launches(j) \/ LaunchFails(j)))
  /\ WF_uvars(Updating /\ Polls) /\ WF_uvars(Updating /\ ServerStarts)
  /\ WF_gvars(Supervising /\ StartTimesOut) /\ WF_gvars(Supervising /\ ShutdownTimesOut)
  /\ WF_gvars(Supervising /\ (TerminationEnds \/ TerminationFails))

Spec == Init /\ [][Next]_vars /\ Fairness

(* RowsCatchUp of the collector. *)
CollectorCatchesUp == Collecting => RowsCatchUp

(* WaitsEnd of the supervisor. *)
SupervisorWaitsEnd == Supervising => WaitsEnd
=============================================================================
