------------------------------ MODULE DiscoveryFeed ------------------------------
(***************************************************************************)
(* What the discovery collector promises its listeners: numbered snapshots  *)
(* of the agents in the host's panes. A snapshot that says anything else    *)
(* than the one before it has the next number, and one look that misses a   *)
(* pane does not take its row away.                                         *)
(***************************************************************************)
EXTENDS Integers, FiniteSets

CONSTANTS
  Lanes,          \* the lanes scanned, "external" and "live"
  Keys,           \* rows a snapshot may hold: a pane in a lane
  LaneOf,         \* the lane of a key
  NameOf,         \* the tmux session name of a key; keys of one name are different sessions
  Processes,      \* process generations of an agent
  Conversations,  \* native sessions a row is bound to
  Idle            \* the synthetic id of a live row that is bound to none

ASSUME FeedAssumption ==
  /\ Lanes \subseteq {"external", "live"} /\ LaneOf \in [Keys -> Lanes]
  /\ Idle \notin Conversations

VARIABLES
  rows,      \* the rows of the snapshot
  revision,  \* its number
  health     \* of each lane: "unknown" before its first scan, "ok" or "failed"

feed == <<rows, revision, health>>

Healths == [Lanes -> {"unknown", "ok", "failed"}]
Partial(S, T) == UNION {[D -> T] : D \in SUBSET S}
Contents == [process : Processes, conversation : Conversations \cup {Idle}]
Rows == [process : Processes, conversation : Conversations \cup {Idle},
         presence : {"present", "stale"}]

FeedInit == rows = << >> /\ revision = 0 /\ health = [l \in Lanes |-> "unknown"]

\* Another session of the same name is there now.
Succeeded(k, new) ==
  \E j \in DOMAIN new \ {k} : LaneOf[j] = LaneOf[k] /\ NameOf[j] = NameOf[k]
                              /\ new[j].presence = "present"

MayFollow(old, new) ==
  /\ \A k \in DOMAIN old \ DOMAIN new : old[k].presence = "stale" \/ Succeeded(k, new)
  /\ \A k \in DOMAIN new : new[k].presence = "stale" =>
       k \in DOMAIN old /\ new[k] = [old[k] EXCEPT !.presence = "stale"]

Publish(new, status) ==
  /\ MayFollow(rows, new)
  /\ \A l \in Lanes : status[l] = "unknown" => health[l] = "unknown"
  /\ new # rows \/ status # health
  /\ rows' = new /\ health' = status

FeedNext ==
  /\ revision' = revision + 1
  /\ \E new \in Partial(Keys, Rows), status \in Healths : Publish(new, status)

FeedSpec == FeedInit /\ [][FeedNext]_feed
=============================================================================
