------------------------------ MODULE ReleaseUpdate ------------------------------
(***************************************************************************)
(* The release updater: the server's routes that start an update and clean  *)
(* up after it, the worker that downloads, swaps the link of the installed  *)
(* release and rolls back, and the job records both keep on disk. Either    *)
(* process may die between two steps, and a write of a record may fail      *)
(* before or after it is durable. One newer release is published.           *)
(***************************************************************************)
EXTENDS Integers

CONSTANTS
  MaxJobs,    \* bound: updates started
  MaxMishaps  \* bound: deaths of a process and failed writes

ASSUME UpdateAssumption == MaxJobs \in Nat \ {0} /\ MaxMishaps \in Nat

Jobs == 1..MaxJobs

VARIABLES
  job,        \* the durable job records
  current,    \* the link: 0 for the prior release, else the job that made it the target
  installed,  \* the target's directory is among the releases
  server,     \* the release the server process runs, or "down"
  good,       \* external: whether the target starts at all
  launching,  \* jobs whose worker the server is about to launch
  at,         \* where the worker of a job is
  mishaps     \* how many so far

disk == <<job, current, installed>>
uvars == <<disk, server, good, launching, at, mishaps>>

Preparing == {"queued", "downloading", "verifying", "staging"}
PostCutover == {"cutting_over", "restarting", "verifying_health", "rolling_back"}
Terminal == {"succeeded", "failed", "failed_rolled_back", "failed_rollback", "manual_required"}

(* cutover "none": no recovery descriptor yet.                                *)
Recovery == [cutover : {"none", "prepared", "live_link_swapped"},
             rollback : {"not_started", "in_progress", "completed", "failed"}]
NoRecovery == [cutover |-> "none", rollback |-> "not_started"]

\* Steps at which a worker is about to change the releases, the link or the server.
Acting == {"staging", "cutting_over", "restarting", "in_progress", "restarting_prior",
           "healthy_prior"}

Active(r) == r.phase \in Preparing \cup PostCutover
Running(j) == at[j] \notin {"none", "gone"}

UpdateInit ==
  /\ job = [j \in Jobs |-> [phase |-> "none", recovery |-> NoRecovery]]
  /\ current = 0 /\ installed = FALSE
  /\ server = "prior" /\ good \in BOOLEAN
  /\ launching = {} /\ at = [j \in Jobs |-> "none"] /\ mishaps = 0

-----------------------------------------------------------------------------
(* The records.                                                              *)

CutoverRank == [none |-> 0, prepared |-> 1, live_link_swapped |-> 2]
RollbackRank == [not_started |-> 0, in_progress |-> 1, completed |-> 2, failed |-> 2]

\* isRecoveryAdvance.
Advances(old, new) ==
  /\ CutoverRank[new.cutover] >= CutoverRank[old.cutover]
  /\ RollbackRank[new.rollback] >= RollbackRank[old.rollback]
  /\ old.rollback \notin {"completed", "failed"}

\* The worker writes a record and goes on; when the store refuses or the write fails,
\* at its lock or after the new file is in place, it goes where the code handles that.
Writes(j, from, new, refused, next, error) ==
  /\ at[j] = from
  /\ \/ /\ Active(job[j]) /\ ~refused
        /\ job' = [job EXCEPT ![j] = new]
        /\ at' = [at EXCEPT ![j] = next]
        /\ UNCHANGED mishaps
     \/ /\ ~Active(job[j]) \/ refused
        /\ at' = [at EXCEPT ![j] = error]
        /\ UNCHANGED <<job, mishaps>>
     \/ /\ Active(job[j]) /\ ~refused
        /\ mishaps < MaxMishaps /\ mishaps' = mishaps + 1
        /\ job' \in {job, [job EXCEPT ![j] = new]}
        /\ at' = [at EXCEPT ![j] = error]
  /\ UNCHANGED <<current, installed, server, good, launching>>

\* transition.
Enters(j, from, phase, next, error) ==
  Writes(j, from, [job[j] EXCEPT !.phase = phase], FALSE, next, error)

\* persistRecoveryCheckpoint.
Checkpoints(j, from, cutover, rollback, next, error) ==
  LET recovery == [cutover |-> cutover, rollback |-> rollback]
  IN Writes(j, from, [job[j] EXCEPT !.recovery = recovery],
            ~Advances(job[j].recovery, recovery), next, error)

Goes(j, from, next) == at[j] = from /\ at' = [at EXCEPT ![j] = next]

-----------------------------------------------------------------------------
(* The worker up to the cutover.                                             *)

Starts(j) ==
  /\ Goes(j, "launched", IF job[j].phase = "queued" THEN "queued" ELSE "gone")
  /\ UNCHANGED <<disk, server, good, launching, mishaps>>

\* The job is for the release that is installed, or fails before it downloads.
Downloads(j) ==
  \/ current = 0 /\ Enters(j, "queued", "downloading", "downloading", "failing")
  \/ Enters(j, "downloading", "verifying", "verifying", "failing")
  \/ Enters(j, "verifying", "staging", "staging", "failing")

\* A request, a check, a command or a change of the file system fails.
FailsBeforeCutover(j) ==
  /\ \E step \in Preparing \cup {"cutting_over"} : Goes(j, step, "failing")
  /\ UNCHANGED <<disk, server, good, launching, mishaps>>

\* The staged release does not allow to go back to the installed one.
RefusesRelease(j) == Enters(j, "staging", "manual_required", "gone", "failing")

\* Only where no directory of that name exists already.
MovesIntoPlace(j) ==
  /\ ~installed /\ installed' = TRUE
  /\ Goes(j, "staging", "staged")
  /\ UNCHANGED <<job, current, server, good, launching, mishaps>>

\* Faulty variant: the cutover begins without a recovery descriptor.
PreparesUnrecorded(j) == Enters(j, "staged", "cutting_over", "cutting_over", "failing")

PreparesCutover(j) ==
  \/ Checkpoints(j, "staged", "prepared", "not_started", "prepared", "failing")
  \/ Enters(j, "prepared", "cutting_over", "cutting_over", "failing")

EndsFailed(j) == Enters(j, "failing", "failed", "gone", "gone")

-----------------------------------------------------------------------------
(* Cutover, restart and health.                                              *)

SwapsLink(j) ==
  /\ Goes(j, "cutting_over", "swapped")
  /\ current' = j
  /\ UNCHANGED <<job, installed, server, good, launching, mishaps>>

\* What systemd starts: the release the link points to.
Booted == IF current = 0 THEN "prior" ELSE IF good /\ installed THEN "target" ELSE "down"

\* systemctl restart, which may report an error whatever it has done.
RestartsServer(j, from, next, error) ==
  /\ \/ Goes(j, from, next) /\ server' = Booted
     \/ Goes(j, from, error) /\ server' \in {server, Booted}
  /\ launching' = IF server' = server THEN launching ELSE {}
  /\ UNCHANGED <<disk, good, mishaps>>

\* pollHealth: an answer of the expected release, or none in time.
ChecksHealth(j, from, release, next, error) ==
  /\ \/ server = release /\ Goes(j, from, next)
     \/ Goes(j, from, error)
  /\ UNCHANGED <<disk, server, good, launching, mishaps>>

CutsOver(j) ==
  \/ SwapsLink(j)
  \/ Checkpoints(j, "swapped", "live_link_swapped", "not_started", "recorded", "unwinding")
  \/ Enters(j, "recorded", "restarting", "restarting", "unwinding")
  \/ RestartsServer(j, "restarting", "restarted", "unwinding")
  \/ Enters(j, "restarted", "verifying_health", "verifying_health", "unwinding")
  \/ ChecksHealth(j, "verifying_health", "target", "healthy", "unwinding")
  \/ Enters(j, "healthy", "succeeded", "gone", "unwinding")

-----------------------------------------------------------------------------
(* Rollback.                                                                 *)

BeginsRollback(j) ==
  \/ Enters(j, "unwinding", "rolling_back", "rolling_back", "gone")
  \/ Checkpoints(j, "rolling_back", "live_link_swapped", "in_progress", "in_progress", "gone")

RestoresLink(j) ==
  /\ \/ Goes(j, "in_progress", "restored") /\ current' = 0
     \/ Goes(j, "in_progress", "broken") /\ UNCHANGED current
  /\ UNCHANGED <<job, installed, server, good, launching, mishaps>>

RemovesTarget(j) ==
  /\ \/ Goes(j, "healthy_prior", "removed") /\ installed' = FALSE
     \/ Goes(j, "healthy_prior", "broken") /\ UNCHANGED installed
  /\ UNCHANGED <<job, current, server, good, launching, mishaps>>

RollsBack(j) ==
  \/ BeginsRollback(j)
  \/ RestoresLink(j)
  \/ Checkpoints(j, "restored", "live_link_swapped", "in_progress", "restarting_prior", "broken")
  \/ RestartsServer(j, "restarting_prior", "restarted_prior", "broken")
  \/ ChecksHealth(j, "restarted_prior", "prior", "healthy_prior", "broken")
  \/ RemovesTarget(j)
  \/ Checkpoints(j, "removed", "live_link_swapped", "completed", "completed", "broken")
  \/ Enters(j, "completed", "failed_rolled_back", "gone", "gone")

\* A rollback that failed says so as far as it can.
GivesUp(j) ==
  \/ Checkpoints(j, "broken", "live_link_swapped", "failed", "given_up", "given_up")
  \/ Enters(j, "given_up", "failed_rollback", "gone", "gone")

WorkerStep(j) ==
  \/ Starts(j) \/ Downloads(j) \/ FailsBeforeCutover(j) \/ RefusesRelease(j)
  \/ MovesIntoPlace(j) \/ PreparesCutover(j) \/ EndsFailed(j)
  \/ CutsOver(j) \/ RollsBack(j) \/ GivesUp(j)

WorkerDies(j) ==
  /\ Running(j) /\ mishaps < MaxMishaps /\ mishaps' = mishaps + 1
  /\ at' = [at EXCEPT ![j] = "gone"]
  /\ UNCHANGED <<disk, server, good, launching>>

-----------------------------------------------------------------------------
(* The server.                                                               *)

\* Faulty variant: a rollback that has begun is not looked at.
TargetIsRunningAnyhow(r) == r.recovery.cutover = "live_link_swapped" /\ server = "target"

TargetIsRunning(r) ==
  /\ r.recovery.cutover = "live_link_swapped" /\ r.recovery.rollback = "not_started"
  /\ server = "target"

\* The phase failIfInactive records for a job whose worker is not running.
InactivePhase(r) ==
  IF r.phase \in Preparing THEN "failed"
  ELSE IF TargetIsRunning(r) THEN "succeeded"
  ELSE IF r.recovery.rollback = "completed" THEN "failed_rolled_back"
  ELSE IF r.phase = "rolling_back" \/ r.recovery.rollback # "not_started" THEN "failed_rollback"
  ELSE "manual_required"

\* Faulty variant: nobody asks whether the worker's unit is live.
ReconcilableAnyhow(j) ==
  Active(job[j]) /\ (job[j].phase \in PostCutover => job[j].recovery.cutover # "none")

\* A post-cutover record without recovery descriptor makes failIfInactive throw.
Reconcilable(j) ==
  /\ Active(job[j]) /\ ~Running(j)
  /\ job[j].phase \in PostCutover => job[j].recovery.cutover # "none"

Reconciled ==
  [j \in Jobs |-> IF Reconcilable(j) THEN [job[j] EXCEPT !.phase = InactivePhase(job[j])]
                  ELSE job[j]]

\* Faulty variant: only a server that starts looks after the job.
PollsAtStart ==
  /\ server = "down" /\ Booted # "down" /\ server' = Booted
  /\ job' = Reconciled /\ job' # job
  /\ UNCHANGED <<current, installed, good, launching, at, mishaps>>

\* GET /update/status, also of a browser that just waits for a launch.
Polls ==
  /\ server # "down"
  /\ job' = Reconciled /\ job' # job
  /\ UNCHANGED <<current, installed, server, good, launching, at, mishaps>>

\* POST /update: on the prior release the target is newer.
Posts ==
  /\ server = "prior"
  /\ \A j \in Jobs : ~Active(Reconciled[j])
  /\ \E j \in Jobs :
       /\ job[j].phase = "none" /\ \A i \in 1..(j - 1) : job[i].phase # "none"
       /\ job' = [Reconciled EXCEPT ![j].phase = "queued"]
       /\ launching' = launching \cup {j}
  /\ UNCHANGED <<current, installed, server, good, at, mishaps>>

\* systemd-run has started the unit.
Launches(j) ==
  /\ j \in launching /\ launching' = launching \ {j}
  /\ at' = [at EXCEPT ![j] = "launched"]
  /\ UNCHANGED <<disk, server, good, mishaps>>

\* It has not; the job is over, unless a poll has said so already.
LaunchFails(j) ==
  /\ j \in launching /\ launching' = launching \ {j}
  /\ job' = IF Active(job[j]) THEN [job EXCEPT ![j].phase = "failed"] ELSE job
  /\ UNCHANGED <<current, installed, server, good, at, mishaps>>

ServerDies ==
  /\ server # "down" /\ mishaps < MaxMishaps /\ mishaps' = mishaps + 1
  /\ server' = "down" /\ launching' = {}
  /\ UNCHANGED <<disk, good, at>>

\* The router looks after the job as a poll does, at the next one.
ServerStarts ==
  /\ server = "down" /\ Booted # "down" /\ server' = Booted
  /\ UNCHANGED <<disk, good, launching, at, mishaps>>

UpdateStep ==
  \/ \E j \in Jobs : WorkerStep(j) \/ WorkerDies(j) \/ Launches(j) \/ LaunchFails(j)
  \/ Polls \/ Posts \/ ServerDies \/ ServerStarts

UpdateSpec == UpdateInit /\ [][UpdateStep]_uvars

\* Commands, requests and launches return; a server that died is started again when
\* it can be, and somebody asks for the status now and then.
UpdateFairness ==
  /\ \A j \in Jobs : WF_uvars(WorkerStep(j)) /\ WF_uvars(Launches(j) \/ LaunchFails(j))
  /\ WF_uvars(Polls) /\ WF_uvars(ServerStarts)

-----------------------------------------------------------------------------
(* Type invariant; a rollback is recorded only in its phase, of a link that   *)
(* was swapped.                                                               *)
UpdateTypeOK ==
  /\ \A j \in Jobs :
       /\ job[j].phase \in {"none"} \cup Preparing \cup PostCutover \cup Terminal
       /\ job[j].recovery \in Recovery
       /\ job[j].recovery.rollback # "not_started" =>
            /\ job[j].phase \in {"rolling_back"} \cup Terminal
            /\ job[j].recovery.cutover = "live_link_swapped"
  /\ current \in 0..MaxJobs /\ {installed, good} \subseteq BOOLEAN
  /\ server \in {"prior", "target", "down"} /\ launching \subseteq Jobs
  /\ mishaps \in 0..MaxMishaps

(* "Persists the release-link recovery authority before any live-link         *)
(* mutation": whatever died when, a job whose phase or link says that it has  *)
(* reached the cutover has the record that tells how to go on.                *)
AuthorityFirst ==
  \A j \in Jobs : job[j].phase \in PostCutover \/ current = j
                    => job[j].recovery.cutover # "none"

(* The link never points to a release that has been removed.                  *)
NeverDangling == current # 0 => installed

(* Whoever dies or fails to write, and when: the release link can be relied   *)
(* on and there is a record of how to go on with it.                          *)
LinkIsSafe == UpdateTypeOK /\ AuthorityFirst /\ NeverDangling

(* Workers of two jobs never work on the installation at a time, although a   *)
(* poll may end a job whose worker is still being launched, and a job may be  *)
(* over for the store when its worker takes the last write for failed.        *)
OneWorkerActs ==
  \A i, j \in Jobs : at[i] \in Acting /\ at[j] \in Acting => i = j

(* The outcome recorded of a job is true of the installation at that moment,  *)
(* whether the worker records it or the server on behalf of a dead one.       *)
OutcomeIsTrue ==
  [][\A j \in Jobs : Active(job[j]) =>
       /\ job'[j].phase = "succeeded" => current' = j
       /\ job'[j].phase = "failed" => current' # j
       /\ job'[j].phase = "failed_rolled_back" => current' # j /\ ~installed']_uvars

(* An update comes to an end, whoever dies, so that another may start; unless *)
(* nobody can start the server any more.                                      *)
UpdateEnds ==
  \A j \in Jobs :
    [](Active(job[j]) => <>(job[j].phase \in Terminal \/ [](server = "down")))
=============================================================================
