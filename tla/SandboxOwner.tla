----------------------------- MODULE SandboxOwner -----------------------------
(***************************************************************************)
(* The owner of one sandbox (sandbox/src/lifecycle/owner.ts): its startup, *)
(* its one process, file transfers and live file operations, and the stop  *)
(* and destroy that any of them, the caller or the backend may start.      *)
(*                                                                         *)
(* An action is the code between two awaits.  The driver, the callbacks of *)
(* a transfer and the caller are the environment.  The bounded waits       *)
(* (observe) of stop and destroy change nothing but what their caller is   *)
(* told; those of the other operations are the actions ...Interrupted.     *)
(***************************************************************************)
EXTENDS Integers

CONSTANT MaxFailures     \* bound: failures of the driver's and the files' cleanup

ASSUME SandboxAssumption == MaxFailures \in Nat

VARIABLES
  snapshot,
  startup,     \* [at: where the once-only startup is, aborted: its signal, opened: this.ready,
               \*  lost: infrastructureFailure]
  process,     \* the once-only process reservation
  streams,
  files,       \* [kind, at]: this.transfer and this.live, of which one at most is set
  stop,        \* [at: where stopActual is, files: its cleanup of the files it found]
  destroy,     \* [at: where destroyActual is, files: the same, wanted: it was ever asked for]
  failures     \* failed cleanup steps

sandboxVars == <<snapshot, startup, process, streams, files, stop, destroy, failures>>

\* What an attempt knows of its cleanup of the files: none found, in progress, rejected.
Joins == {"none", "waits", "failed"}

Snapshots ==
  {"reserved", "starting", "ready", "stopping", "stopped", "destroying", "destroyed", "uncertain"}
StartupRecord ==
  [at : {"none", "journal", "driver", "over"}, aborted : BOOLEAN, opened : BOOLEAN, lost : BOOLEAN]
FilesRecord ==
  [kind : {"import", "export", "live"}, at : {"running", "dirty", "closing"}]
    \cup {[kind |-> "none", at |-> "clean"]}
StopRecord ==
  [at : {"idle", "done"}, files : {"none"}] \cup [at : {"physical", "join", "files"}, files : Joins]
DestroyRecord ==
  [at : {"idle", "driver"}, files : {"none"}, wanted : BOOLEAN]
    \cup [at : {"stop", "rejected", "files"}, files : Joins, wanted : {TRUE}]

SandboxTypeOK ==
  /\ snapshot \in Snapshots
  /\ startup \in StartupRecord
  /\ process \in {"none", "reserved", "starting", "over"}
  /\ streams \in {"none", "open", "closed", "settled"}
  /\ files \in FilesRecord
  /\ stop \in StopRecord
  /\ destroy \in DestroyRecord
  /\ failures \in 0..MaxFailures

NoFiles == [kind |-> "none", at |-> "clean"]
NoStop == [at |-> "idle", files |-> "none"]

SandboxInit ==
  /\ snapshot = "reserved"
  /\ startup = [at |-> "none", aborted |-> FALSE, opened |-> FALSE, lost |-> FALSE]
  /\ process = "none" /\ streams = "none" /\ files = NoFiles
  /\ stop = NoStop
  /\ destroy = [at |-> "idle", files |-> "none", wanted |-> FALSE]
  /\ failures = 0

--------------------------------------------------------------------------------
(* fence, beginStop *)

\* Mutant: an admission that closes over a cleanup under way.
FencedLate(s) == IF s \in {"destroyed", "destroying"} THEN s ELSE "uncertain"

\* fence: what the snapshot becomes when an operation has an uncertain end.
Fenced(s) == IF s \in {"destroyed", "destroying", "stopping", "stopped"} THEN s ELSE "uncertain"

Closed(s) == IF s = "open" THEN "closed" ELSE s

\* Mutant: a release that failed before is only joined.
JoinedOnly(held) == held

\* cleanupTransfer and cleanupLive begin with the files they find: work under way is
\* joined, and a release that failed before is retried.
Retried(held) == IF held.at = "dirty" THEN [held EXCEPT !.at = "closing"] ELSE held

\* beginStop up to its first wait: shared when it is under way or has succeeded.  Every
\* signal is aborted and the streams are closed, driver.stop is entered before anything is
\* joined, and the cleanup of the files begins, but for an export.
StopFrom(s, started, out, held) ==
  LET found == held.kind \in {"import", "live"}
  IN IF stop.at # "idle"
     THEN snapshot' = s /\ startup' = started /\ streams' = out /\ files' = held /\ UNCHANGED stop
     ELSE /\ snapshot' = IF s = "destroying" THEN s ELSE "stopping"
          /\ startup' = [started EXCEPT !.aborted = TRUE]
          /\ streams' = Closed(out)
          /\ files' = IF found THEN Retried(held) ELSE held
          /\ stop' = [at |-> "physical", files |-> IF found THEN "waits" ELSE "none"]

\* stop()
Stops(s, started, out, held) ==
  IF s \in {"destroyed", "stopped"}
  THEN snapshot' = s /\ startup' = started /\ streams' = out /\ files' = held /\ UNCHANGED stop
  ELSE StopFrom(s, started, out, held)

\* fence, and stop() with its rejection dropped.
FenceAndStop(started, out, held) == Stops(Fenced(snapshot), started, out, held)

--------------------------------------------------------------------------------
(* Startup *)

Starting == startup.at \in {"journal", "driver"}
StartupOver == [startup EXCEPT !.at = "over"]

\* start, with a signal that may have been aborted before.
Start ==
  /\ snapshot = "reserved"
  /\ \/ /\ snapshot' = "starting"
        /\ startup' = [startup EXCEPT !.at = "journal"]
        /\ UNCHANGED <<streams, files, stop>>
     \/ Stops(Fenced("starting"), [startup EXCEPT !.at = "over", !.aborted = TRUE], streams, files)
  /\ UNCHANGED <<process, destroy, failures>>

\* journal.initialize has persisted the record.
JournalInitialized ==
  /\ startup.at = "journal"
  /\ IF startup.aborted
     THEN startup' = StartupOver /\ snapshot' = Fenced(snapshot)
     ELSE startup' = [startup EXCEPT !.at = "driver"] /\ UNCHANGED snapshot
  /\ UNCHANGED <<process, streams, files, stop, destroy, failures>>

\* A checkpoint fails: the startup it belongs to is interrupted; a later one only fences.
JournalFails ==
  /\ snapshot \in {"starting", "ready"}
  /\ IF Starting
     THEN FenceAndStop([startup EXCEPT !.aborted = TRUE,
                                       !.at = IF @ = "journal" THEN "over" ELSE @], streams, files)
     ELSE /\ snapshot' = Fenced(snapshot) /\ startup' = [startup EXCEPT !.aborted = TRUE]
          /\ UNCHANGED <<streams, files, stop>>
  /\ UNCHANGED <<process, destroy, failures>>

\* Mutant: the reply of the driver is believed.
Believed == TRUE

\* The driver's reply opens the sandbox only if nothing has closed its admission.
StillStarting == ~startup.aborted /\ snapshot = "starting"

DriverStarted ==
  /\ startup.at = "driver"
  /\ \/ /\ StillStarting
        /\ snapshot' = "ready" /\ startup' = [StartupOver EXCEPT !.opened = TRUE]
     \/ /\ snapshot' = Fenced(snapshot)          \* rejected, late, or not what was asked for
        /\ \E opened \in BOOLEAN : startup' = [StartupOver EXCEPT !.opened = opened]
  /\ UNCHANGED <<process, streams, files, stop, destroy, failures>>

\* The startup deadline or the caller's signal.
StartInterrupted ==
  /\ Starting /\ ~startup.aborted
  /\ FenceAndStop([startup EXCEPT !.aborted = TRUE], streams, files)
  /\ UNCHANGED <<process, destroy, failures>>

\* onInfrastructureFailure, which the driver has from its start on.
InfrastructureFails ==
  /\ startup.at = "driver" \/ startup.opened
  /\ ~startup.lost /\ snapshot # "destroyed"
  /\ FenceAndStop([startup EXCEPT !.aborted = TRUE, !.lost = TRUE], streams, files)
  /\ UNCHANGED <<process, destroy, failures>>

--------------------------------------------------------------------------------
(* The process *)

\* reserveProcess closes imports for good.
ReserveProcess ==
  /\ snapshot = "ready" /\ process = "none" /\ files.kind \in {"none", "live"}
  /\ process' = "reserved"
  /\ UNCHANGED <<snapshot, startup, streams, files, stop, destroy, failures>>

StartProcess ==
  /\ snapshot = "ready" /\ process = "reserved"
  /\ process' = "starting"
  /\ UNCHANGED <<snapshot, startup, streams, files, stop, destroy, failures>>

\* The driver's streams, which a sandbox no longer ready closes, or its refusal.
ProcessStarted ==
  /\ process = "starting"
  /\ process' = "over"
  /\ \/ snapshot = "ready" /\ streams' = "open" /\ UNCHANGED <<snapshot, startup, files, stop>>
     \/ snapshot # "ready" /\ FenceAndStop(startup, "closed", files)
     \/ FenceAndStop(startup, streams, files)
  /\ UNCHANGED <<destroy, failures>>

ProcessInterrupted ==
  /\ process = "starting" /\ snapshot = "ready"
  /\ FenceAndStop(startup, streams, files)
  /\ UNCHANGED <<process, destroy, failures>>

\* A stream or the exit fails, or a byte limit is exceeded.
StreamsFail ==
  /\ streams = "open"
  /\ Stops(snapshot, startup, "closed", files)
  /\ UNCHANGED <<process, destroy, failures>>

StreamsSettle ==
  /\ streams \in {"open", "closed"}
  /\ streams' = "settled"
  /\ UNCHANGED <<snapshot, startup, process, files, stop, destroy, failures>>

--------------------------------------------------------------------------------
(* Files *)

EnterFiles(kind) ==
  /\ files' = [kind |-> kind, at |-> "running"]
  /\ UNCHANGED <<snapshot, startup, process, streams, stop, destroy, failures>>

ImportTree == snapshot = "ready" /\ process = "none" /\ files = NoFiles /\ EnterFiles("import")
EnterLive == snapshot = "ready" /\ files = NoFiles /\ EnterFiles("live")

\* Storage may be read when compute is completely stopped.
ComputeStopped == snapshot = "stopped"

ExportTree == ComputeStopped /\ startup.opened /\ files = NoFiles /\ EnterFiles("export")

\* An attempt that waits for the files learns that they could not be released.
Rejected(attempt) ==
  IF attempt.files = "waits" THEN [attempt EXCEPT !.files = "failed"] ELSE attempt

\* The work ends and its resources are released.  A failed import fences; a failed live
\* operation, or one of unknown effect, also stops.
FilesEnd ==
  /\ files.at = "running"
  /\ \/ files' = NoFiles /\ UNCHANGED <<snapshot, startup, streams, stop>>
     \/ /\ files.kind = "import" /\ files' = NoFiles /\ snapshot' = Fenced(snapshot)
        /\ UNCHANGED <<startup, streams, stop>>
     \/ files.kind = "live" /\ FenceAndStop(startup, streams, NoFiles)
  /\ UNCHANGED <<process, destroy, failures>>

\* The release fails.  A cleanup that waits for a transfer fails with it; one that waits
\* for a live operation tries again.
FilesEndDirty ==
  /\ files.at = "running" /\ failures < MaxFailures /\ failures' = failures + 1
  /\ IF files.kind = "live"
     THEN /\ FenceAndStop(startup, streams,
                [files EXCEPT !.at = IF stop.files = "waits" THEN "closing" ELSE "dirty"])
          /\ UNCHANGED destroy
     ELSE /\ files' = [files EXCEPT !.at = "dirty"]
          /\ snapshot' = IF files.kind = "import" THEN Fenced(snapshot) ELSE snapshot
          /\ stop' = Rejected(stop) /\ destroy' = Rejected(destroy)
          /\ UNCHANGED <<startup, streams>>
  /\ UNCHANGED process

\* A retried release ends.
FilesClosed ==
  /\ files.at = "closing"
  /\ \/ files' = NoFiles /\ UNCHANGED <<stop, destroy, failures>>
     \/ /\ failures < MaxFailures /\ failures' = failures + 1
        /\ files' = [files EXCEPT !.at = "dirty"]
        /\ stop' = Rejected(stop) /\ destroy' = Rejected(destroy)
  /\ UNCHANGED <<snapshot, startup, process, streams>>

\* The deadline or the signal of an import or a live operation; an export is left alone.
FilesInterrupted ==
  /\ files.at = "running" /\ files.kind # "export"
  /\ FenceAndStop(startup, streams, files)
  /\ UNCHANGED <<process, destroy, failures>>

--------------------------------------------------------------------------------
(* stop and destroy *)

Stop ==
  /\ snapshot \notin {"destroyed", "stopped"} /\ stop.at = "idle"
  /\ StopFrom(snapshot, startup, streams, files)
  /\ UNCHANGED <<process, destroy, failures>>

\* destroy(): a destruction under way is shared.  It cleans up a transfer of either kind.
Destroy ==
  LET found == files.kind \in {"import", "export"}
  IN /\ snapshot # "destroyed" /\ destroy.at = "idle"
     /\ destroy' = [at |-> "stop", files |-> IF found THEN "waits" ELSE "none", wanted |-> TRUE]
     /\ StopFrom("destroying", startup, streams, IF found THEN Retried(files) ELSE files)
     /\ UNCHANGED <<process, failures>>

Cleans(s) == s \notin {"destroyed", "destroying"}

\* A failed stop is forgotten, so that another may begin.  A destruction that waits for it
\* fails with it.
StopFails ==
  /\ stop' = NoStop
  /\ snapshot' = IF Cleans(snapshot) THEN "uncertain" ELSE snapshot
  /\ destroy' = IF destroy.at = "stop" THEN [destroy EXCEPT !.at = "rejected"] ELSE destroy
  /\ UNCHANGED <<startup, process, streams, files>>

\* The startup, the process opening and the streams have settled.
WorkOver == ~Starting /\ process # "starting" /\ streams \in {"none", "settled"}

\* driver.stop
PhysicalStop ==
  /\ stop.at = "physical"
  /\ \/ failures < MaxFailures /\ failures' = failures + 1 /\ StopFails
     \/ /\ stop' = [stop EXCEPT !.at = "join"]
        /\ UNCHANGED <<snapshot, startup, process, streams, files, destroy, failures>>

JoinWork ==
  /\ stop.at = "join" /\ WorkOver
  /\ stop' = [stop EXCEPT !.at = "files"]
  /\ UNCHANGED <<snapshot, startup, process, streams, files, destroy, failures>>

\* The cleanup an attempt began is over.
FilesFree(attempt) == attempt.files = "waits" => files = NoFiles

StopCompletes ==
  /\ stop.at = "files"
  /\ \/ stop.files = "failed" /\ StopFails
     \/ /\ stop.files # "failed" /\ FilesFree(stop)
        /\ stop' = [at |-> "done", files |-> "none"]
        /\ snapshot' = IF Cleans(snapshot) THEN "stopped" ELSE snapshot
        /\ UNCHANGED <<startup, process, streams, files, destroy>>
  /\ UNCHANGED failures

DestroyOver == [destroy EXCEPT !.at = "idle", !.files = "none"]

\* Mutant: the failed destruction is shared by everyone who asks again.
DestroyKept ==
  /\ snapshot = "destroying" /\ snapshot' = "uncertain"
  /\ UNCHANGED <<startup, process, streams, files, stop, destroy>>

\* A failed destruction is forgotten too.
DestroyFails ==
  /\ destroy' = DestroyOver
  /\ snapshot' = "uncertain"
  /\ UNCHANGED <<startup, process, streams, files, stop>>

DestroyRejected == destroy.at = "rejected" /\ DestroyFails /\ UNCHANGED failures

ComputeGone ==
  /\ destroy.at = "stop" /\ stop.at = "done"
  /\ destroy' = [destroy EXCEPT !.at = "files"]
  /\ UNCHANGED <<snapshot, startup, process, streams, files, stop, failures>>

\* Mutant: storage is destroyed without waiting for the transfer that reads or fills it.
EnterDestroyEarly ==
  /\ destroy.at = "files"
  /\ destroy' = [destroy EXCEPT !.at = "driver", !.files = "none"]
  /\ UNCHANGED <<snapshot, startup, process, streams, files, stop, failures>>

\* The transfer found by destroy is cleaned up before driver.destroy is entered.
EnterDestroy ==
  /\ destroy.at = "files"
  /\ \/ destroy.files = "failed" /\ DestroyFails
     \/ /\ destroy.files # "failed" /\ FilesFree(destroy)
        /\ destroy' = [destroy EXCEPT !.at = "driver", !.files = "none"]
        /\ UNCHANGED <<snapshot, startup, process, streams, files, stop>>
  /\ UNCHANGED failures

\* driver.destroy
DriverDestroyed ==
  /\ destroy.at = "driver"
  /\ \/ failures < MaxFailures /\ failures' = failures + 1 /\ DestroyFails
     \/ /\ snapshot' = "destroyed" /\ destroy' = DestroyOver
        /\ UNCHANGED <<startup, process, streams, files, stop, failures>>

--------------------------------------------------------------------------------

Use ==
  \/ Start \/ StartInterrupted \/ ReserveProcess \/ StartProcess \/ ProcessInterrupted
  \/ ImportTree \/ EnterLive \/ ExportTree \/ FilesInterrupted

\* What the driver and the host's callbacks may take for ever to do ...
Work ==
  \/ JournalInitialized \/ DriverStarted \/ ProcessStarted \/ StreamsSettle
  \/ FilesEnd \/ FilesEndDirty

\* ... but not once their signals are aborted and compute is gone.
WorkAfterStop == stop.at \in {"join", "files", "done"} /\ Work

Cleanup ==
  \/ PhysicalStop \/ JoinWork \/ StopCompletes \/ FilesClosed
  \/ DestroyRejected \/ ComputeGone \/ EnterDestroy \/ DriverDestroyed

SandboxNext ==
  Use \/ Work \/ JournalFails \/ InfrastructureFails \/ StreamsFail \/ Stop \/ Destroy \/ Cleanup

SandboxSpec == SandboxInit /\ [][SandboxNext]_sandboxVars

\* driver.stop, driver.destroy and a retried release return; work ends after it was aborted
\* and compute is gone; whoever asked for a destruction that failed asks again.
SandboxFairness ==
  /\ WF_sandboxVars(Cleanup) /\ WF_sandboxVars(WorkAfterStop)
  /\ WF_sandboxVars(destroy.wanted /\ Destroy)

FairSandboxSpec == SandboxSpec /\ SandboxFairness

--------------------------------------------------------------------------------
(* Properties *)

\* A sandbox is reported ready only while nothing has begun to take it away, whatever
\* the driver replies and when.
ReadyIsLive ==
  snapshot = "ready" =>
    /\ startup = [at |-> "over", aborted |-> FALSE, opened |-> TRUE, lost |-> FALSE]
    /\ stop.at = "idle" /\ destroy.at = "idle"

Quiet == WorkOver /\ ~(files.kind \in {"import", "live"} /\ files.at = "running")

\* README: export "only after complete stop and stream settlement".  A sandbox is
\* reported stopped, and its storage read, only when no startup, process opening, stream,
\* import or live operation is under way.
StoppedIsQuiet ==
  snapshot \in {"stopped", "destroyed"} \/ files.kind = "export" => Quiet

\* What the host reads in the snapshot is so, whichever reply or failure comes late.
SnapshotIsTrue == ReadyIsLive /\ StoppedIsQuiet

\* While storage is being destroyed, and ever after, compute is gone, no stop is inside
\* the driver and no file operation is open, though each of them may fail and be retried.
StorageLast ==
  destroy.at = "driver" \/ snapshot = "destroyed" =>
    stop.at = "done" /\ files = NoFiles /\ Quiet

\* No late failure of anything moves the sandbox back: a destroyed one stays destroyed,
\* a stopped one is only destroyed, and one being destroyed or stopped settles before
\* it is anything else.
NoWayBack ==
  [][/\ snapshot = "destroyed" => snapshot' = "destroyed"
     /\ snapshot = "stopped" => snapshot' \in {"stopped", "destroying"}
     /\ snapshot = "destroying" => snapshot' \in {"destroying", "destroyed", "uncertain"}
     /\ snapshot = "stopping" /\ snapshot' = "uncertain" => stop'.at = "idle"]_sandboxVars

\* A release an attempt waits for is under way: it has not failed unnoticed.
Awaited(attempt) == attempt.files = "waits" => files.at # "dirty"

\* Nobody waits for somebody who has given up: what is reported as stopping or being
\* destroyed has an attempt behind it, a destruction that waits for compute has a stop
\* to wait for, and no attempt waits for a release that failed and nobody retries,
\* whichever of release, stop and destruction failed and began again in between.
NobodyStuck ==
  /\ snapshot = "destroying" => destroy.at # "idle"
  /\ snapshot = "stopping" => stop.at \in {"physical", "join", "files"}
  /\ destroy.at = "stop" => stop.at # "idle"
  /\ Awaited(stop) /\ Awaited(destroy)

\* README: "failed or uncertain cleanup keeps the same retry owner": a destruction that
\* was asked for is completed, though any step of it may fail, and though work may need the
\* physical shutdown in order to end: nobody in it waits for somebody who waits for him.
DestroyCompletes == snapshot = "destroying" ~> snapshot = "destroyed"

================================================================================
