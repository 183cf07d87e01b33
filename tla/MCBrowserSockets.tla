--------------------------- MODULE MCBrowserSockets ---------------------------
(***************************************************************************)
(* Instances for TLC of two of the sockets a browser has to the server,     *)
(* which share no state: the discovery stream and the terminals. Every      *)
(* behaviour is one of a single part, under the fairness of that part; the  *)
(* other stays as it is. Rows are panes of the live lane, all of one name.  *)
(***************************************************************************)
EXTENDS DiscoveryStream, ShellSessions

AllLive == [k \in Keys |-> "live"]
OneName == [k \in Keys |-> "name"]

VARIABLE part

Streaming == part = "stream"
InShell == part = "shell"

vars == <<part, svars, shellvars>>

Init == part \in {"stream", "shell"} /\ StreamInit /\ ShellInit /\ (Streaming => mode = "plain")

StreamPart == Streaming /\ StreamStep /\ UNCHANGED <<part, shellvars>>

ShellPart == InShell /\ ShellStep /\ UNCHANGED <<part, svars>>

Next == StreamPart \/ ShellPart

\* StreamFairness; nothing has to happen in a shell.
Fairness ==
  /\ WF_svars(Streaming /\ (HandlesSubscribe \/ HandlesResync))
  /\ WF_svars(Streaming /\ Receives) /\ WF_svars(Streaming /\ Connects)
  /\ WF_svars(Streaming /\ ReadExpires) /\ WF_svars(Streaming /\ FrameAges)
  /\ WF_svars(Streaming /\ WindowPasses)
  /\ WF_svars(Streaming /\ RecoveryFires) /\ WF_svars(Streaming /\ ChecksFrames)

Spec == Init /\ [][Next]_vars /\ Fairness

(* EpisodeEnds of the stream. *)
StreamEpisodeEnds == Streaming => EpisodeEnds
=============================================================================
