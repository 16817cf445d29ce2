-------------------------- MODULE SandboxOwnerProofs --------------------------
(***************************************************************************)
(* Machine-checked facts about SandboxOwner, for every number of failures. *)
(***************************************************************************)
EXTENDS SandboxOwner, TLAPS

\* Before compute is taken away nothing of it has begun, and the startup is where the
\* snapshot says.
Untouched ==
  /\ snapshot \in {"reserved", "starting", "ready"} =>
       stop.at = "idle" /\ destroy.at = "idle" /\ ~startup.lost /\ ~startup.aborted
  /\ snapshot = "reserved" => startup.at = "none"
  /\ snapshot = "ready" => startup.at = "over" /\ startup.opened

\* What is destroyed, or being destroyed, has its one destruction under way.
DestructionShown == snapshot = "destroying" <=> destroy.at # "idle"

\* A stop that is past the join has found the work over, and one that succeeded has left
\* no import and no live operation; what it found when it began it still knows of.
StopTrue ==
  /\ stop.at \in {"files", "done"} => WorkOver
  /\ stop.at = "done" => files.kind \in {"none", "export"}
  /\ stop.at \in {"physical", "join", "files"} /\ files.kind \in {"import", "live"}
       => stop.files # "none"

\* Storage is read, and a destruction goes on to it, only behind a completed stop.
BehindStop ==
  /\ snapshot \in {"stopped", "destroyed"} => stop.at = "done"
  /\ files.kind = "export" => stop.at = "done"
  /\ destroy.at \in {"files", "driver"} => stop.at = "done"

\* A destruction knows of the export it found; none begins under it.
DestroyTrue ==
  /\ destroy.at \in {"stop", "rejected", "files"} /\ files.kind = "export"
       => destroy.files # "none"
  /\ destroy.at = "driver" \/ snapshot = "destroyed" => files = NoFiles

\* The inductive invariant of a sandbox.
SandboxInv ==
  SandboxTypeOK /\ Untouched /\ DestructionShown /\ StopTrue /\ BehindStop /\ DestroyTrue

\* fence yields a snapshot.
LEMMA FencedType == ASSUME NEW s \in Snapshots PROVE Fenced(s) \in Snapshots
BY DEF Fenced, Snapshots

\* The states of a file operation.
LEMMA FilesTypes ==
  ASSUME NEW held \in FilesRecord
  PROVE  /\ Retried(held) \in FilesRecord
         /\ held.kind \in {"none", "import", "export", "live"}
         /\ held.at \in {"clean", "running", "dirty", "closing"}
         /\ held.at # "clean" =>
              /\ [held EXCEPT !.at = "dirty"] \in FilesRecord
              /\ [held EXCEPT !.at = "closing"] \in FilesRecord
         /\ held.kind = "none" <=> held = NoFiles
BY DEF FilesRecord, Retried, NoFiles

\* The states of a stop.
LEMMA StopTypes ==
  ASSUME NEW attempt \in StopRecord
  PROVE  /\ attempt.at \in {"idle", "physical", "join", "files", "done"}
         /\ attempt.files \in Joins
         /\ attempt.at \in {"idle", "done"} => attempt.files = "none"
         /\ Rejected(attempt) \in StopRecord
         /\ Rejected(attempt).at = attempt.at
         /\ Rejected(attempt).files = "none" <=> attempt.files = "none"
BY DEF StopRecord, Joins, Rejected

\* The states of a destruction.
LEMMA DestroyTypes ==
  ASSUME NEW attempt \in DestroyRecord
  PROVE  /\ attempt.at \in {"idle", "stop", "rejected", "files", "driver"}
         /\ attempt.files \in Joins
         /\ attempt.wanted \in BOOLEAN
         /\ Rejected(attempt) \in DestroyRecord
         /\ Rejected(attempt).at = attempt.at
         /\ Rejected(attempt).files = "none" <=> attempt.files = "none"
BY DEF DestroyRecord, Joins, Rejected

\* A stop leaves records of their types, from whatever it starts with ...
LEMMA StopFromType ==
  ASSUME NEW s \in Snapshots, NEW started \in StartupRecord, NEW held \in FilesRecord,
         NEW out \in {"none", "open", "closed", "settled"},
         stop \in StopRecord, StopFrom(s, started, out, held)
  PROVE  /\ snapshot' \in Snapshots /\ startup' \in StartupRecord
         /\ streams' \in {"none", "open", "closed", "settled"}
         /\ files' \in FilesRecord /\ stop' \in StopRecord
<1>1. CASE stop.at # "idle"
  BY <1>1 DEF StopFrom
<1>2. CASE stop.at = "idle"
  <2>1. snapshot' \in Snapshots
    BY <1>2 DEF StopFrom, Snapshots
  <2>2. startup' \in StartupRecord
    BY <1>2 DEF StopFrom, StartupRecord
  <2>3. streams' \in {"none", "open", "closed", "settled"}
    BY <1>2 DEF StopFrom, Closed
  <2>4. files' \in FilesRecord
    BY <1>2, FilesTypes DEF StopFrom
  <2>5. stop' \in StopRecord
    BY <1>2 DEF StopFrom, StopRecord, Joins
  <2> QED BY <2>1, <2>2, <2>3, <2>4, <2>5
<1> QED BY <1>1, <1>2

\* ... and so does one that may be under way already ...
LEMMA StopsType ==
  ASSUME NEW s \in Snapshots, NEW started \in StartupRecord, NEW held \in FilesRecord,
         NEW out \in {"none", "open", "closed", "settled"},
         stop \in StopRecord, Stops(s, started, out, held)
  PROVE  /\ snapshot' \in Snapshots /\ startup' \in StartupRecord
         /\ streams' \in {"none", "open", "closed", "settled"}
         /\ files' \in FilesRecord /\ stop' \in StopRecord
BY StopFromType DEF Stops

\* ... or that fences first.
LEMMA FenceAndStopType ==
  ASSUME NEW started \in StartupRecord, NEW held \in FilesRecord,
         NEW out \in {"none", "open", "closed", "settled"},
         snapshot \in Snapshots, stop \in StopRecord, FenceAndStop(started, out, held)
  PROVE  /\ snapshot' \in Snapshots /\ startup' \in StartupRecord
         /\ streams' \in {"none", "open", "closed", "settled"}
         /\ files' \in FilesRecord /\ stop' \in StopRecord
BY FencedType, StopsType DEF FenceAndStop

\* start
LEMMA StartInv == SandboxInv /\ Start => SandboxInv'
<1> SUFFICES ASSUME SandboxInv, Start PROVE SandboxInv'
  OBVIOUS
<1> USE DEF SandboxInv
<1>1. SandboxTypeOK'
  <2> DEFINE started == [startup EXCEPT !.at = "over", !.aborted = TRUE]
  <2>1. started \in StartupRecord /\ [startup EXCEPT !.at = "journal"] \in StartupRecord
    BY DEF SandboxTypeOK, StartupRecord
  <2>2. "starting" \in Snapshots /\ Fenced("starting") \in Snapshots
    BY FencedType DEF Snapshots
  <2>3. CASE Stops(Fenced("starting"), started, streams, files)
    <3> HIDE DEF started
    <3> QED BY <2>1, <2>2, <2>3, StopsType DEF SandboxTypeOK, Start
  <2> QED BY <2>1, <2>2, <2>3 DEF SandboxTypeOK, Start
<1> USE DEF SandboxTypeOK, NoFiles, StartupRecord, FilesRecord, StopRecord, DestroyRecord, Joins
<1>2. Untouched'
  BY DEF Untouched, DestructionShown, Start, Stops, StopFrom, Fenced, Closed, Retried
<1>3. DestructionShown'
  BY DEF Untouched, DestructionShown, Start, Stops, StopFrom, Fenced, Closed, Retried
<1>4. StopTrue'
  BY DEF Untouched, DestructionShown, StopTrue, BehindStop, Start, Stops, StopFrom, Fenced,
     Closed, Retried, WorkOver, Starting
<1>5. BehindStop'
  BY DEF Untouched, DestructionShown, BehindStop, StopTrue, WorkOver, Starting, Start, Stops,
     StopFrom, Fenced, Closed, Retried
<1>6. DestroyTrue'
  BY DEF Untouched, DestructionShown, DestroyTrue, StopTrue, BehindStop, Start, Stops,
     StopFrom, Fenced, Closed, Retried
<1> QED BY <1>1, <1>2, <1>3, <1>4, <1>5, <1>6

\* The journal is ready.
LEMMA JournalInitializedInv == SandboxInv /\ JournalInitialized => SandboxInv'
<1> SUFFICES ASSUME SandboxInv, JournalInitialized PROVE SandboxInv'
  OBVIOUS
<1> USE DEF SandboxInv
<1>1. SandboxTypeOK'
  <2>1. startup' \in StartupRecord
    BY DEF SandboxTypeOK, StartupRecord, JournalInitialized, StartupOver
  <2> QED BY <2>1, FencedType DEF SandboxTypeOK, JournalInitialized
<1> USE DEF SandboxTypeOK, NoFiles, StartupRecord, FilesRecord, StopRecord, DestroyRecord, Joins
<1>2. Untouched'
  BY DEF Untouched, DestructionShown, JournalInitialized, StartupOver, Fenced
<1>3. DestructionShown'
  BY DEF Untouched, DestructionShown, JournalInitialized, StartupOver, Fenced
<1>4. StopTrue'
  BY DEF Untouched, DestructionShown, StopTrue, BehindStop, JournalInitialized, StartupOver,
     Fenced, WorkOver, Starting
<1>5. BehindStop'
  BY DEF Untouched, DestructionShown, BehindStop, StopTrue, WorkOver, Starting,
     JournalInitialized, StartupOver, Fenced
<1>6. DestroyTrue'
  BY DEF Untouched, DestructionShown, DestroyTrue, StopTrue, BehindStop, JournalInitialized,
     StartupOver, Fenced
<1> QED BY <1>1, <1>2, <1>3, <1>4, <1>5, <1>6

\* The journal fails during a start or a later write.
LEMMA JournalFailsInv == SandboxInv /\ JournalFails => SandboxInv'
<1> SUFFICES ASSUME SandboxInv, JournalFails PROVE SandboxInv'
  OBVIOUS
<1> USE DEF SandboxInv
<1>1. SandboxTypeOK'
  <2> DEFINE started == [startup EXCEPT !.aborted = TRUE,
                                        !.at = IF @ = "journal" THEN "over" ELSE @]
  <2>1. started \in StartupRecord /\ [startup EXCEPT !.aborted = TRUE] \in StartupRecord
    BY DEF SandboxTypeOK, StartupRecord
  <2>2. CASE FenceAndStop(started, streams, files)
    <3> HIDE DEF started
    <3> QED BY <2>1, <2>2, FenceAndStopType DEF SandboxTypeOK, JournalFails
  <2> QED BY <2>1, <2>2, FencedType DEF SandboxTypeOK, JournalFails
<1> USE DEF SandboxTypeOK, NoFiles, StartupRecord, FilesRecord, StopRecord, DestroyRecord, Joins
<1>2. Untouched'
  BY DEF Untouched, DestructionShown, JournalFails, Starting, FenceAndStop, Stops, StopFrom,
     Fenced, Closed, Retried
<1>3. DestructionShown'
  BY DEF Untouched, DestructionShown, JournalFails, Starting, FenceAndStop, Stops, StopFrom,
     Fenced, Closed, Retried
<1>4. StopTrue'
  BY DEF Untouched, DestructionShown, StopTrue, BehindStop, JournalFails, Starting,
     FenceAndStop, Stops, StopFrom, Fenced, Closed, Retried, WorkOver
<1>5. BehindStop'
  BY DEF Untouched, DestructionShown, BehindStop, StopTrue, WorkOver, Starting, JournalFails,
     FenceAndStop, Stops, StopFrom, Fenced, Closed, Retried
<1>6. DestroyTrue'
  BY DEF Untouched, DestructionShown, DestroyTrue, StopTrue, BehindStop, JournalFails,
     Starting, FenceAndStop, Stops, StopFrom, Fenced, Closed, Retried
<1> QED BY <1>1, <1>2, <1>3, <1>4, <1>5, <1>6

\* The driver has started compute.
LEMMA DriverStartedInv == SandboxInv /\ DriverStarted => SandboxInv'
<1> SUFFICES ASSUME SandboxInv, DriverStarted PROVE SandboxInv'
  OBVIOUS
<1> USE DEF SandboxInv
<1>1. SandboxTypeOK'
  <2>1. startup' \in StartupRecord
    BY DEF SandboxTypeOK, StartupRecord, DriverStarted, StartupOver
  <2>2. "ready" \in Snapshots
    BY DEF Snapshots
  <2> QED BY <2>1, <2>2, FencedType DEF SandboxTypeOK, DriverStarted
<1> USE DEF SandboxTypeOK, NoFiles, StartupRecord, FilesRecord, StopRecord, DestroyRecord, Joins
<1>2. Untouched'
  BY DEF Untouched, DestructionShown, DriverStarted, StillStarting, StartupOver, Fenced
<1>3. DestructionShown'
  BY DEF Untouched, DestructionShown, DriverStarted, StillStarting, StartupOver, Fenced
<1>4. StopTrue'
  BY DEF Untouched, DestructionShown, StopTrue, BehindStop, DriverStarted, StillStarting,
     StartupOver, Fenced, WorkOver, Starting
<1>5. BehindStop'
  BY DEF Untouched, DestructionShown, BehindStop, StopTrue, WorkOver, Starting, DriverStarted,
     StillStarting, StartupOver, Fenced
<1>6. DestroyTrue'
  BY DEF Untouched, DestructionShown, DestroyTrue, StopTrue, BehindStop, DriverStarted,
     StillStarting, StartupOver, Fenced
<1> QED BY <1>1, <1>2, <1>3, <1>4, <1>5, <1>6

\* A start is aborted.
LEMMA StartInterruptedInv == SandboxInv /\ StartInterrupted => SandboxInv'
<1> SUFFICES ASSUME SandboxInv, StartInterrupted PROVE SandboxInv'
  OBVIOUS
<1> USE DEF SandboxInv
<1>1. SandboxTypeOK'
  <2>1. [startup EXCEPT !.aborted = TRUE] \in StartupRecord
    BY DEF SandboxTypeOK, StartupRecord
  <2> QED BY <2>1, FenceAndStopType DEF SandboxTypeOK, StartInterrupted
<1> USE DEF SandboxTypeOK, NoFiles, StartupRecord, FilesRecord, StopRecord, DestroyRecord, Joins
<1>2. Untouched'
  BY DEF Untouched, DestructionShown, StartInterrupted, Starting, FenceAndStop, Stops,
     StopFrom, Fenced, Closed, Retried
<1>3. DestructionShown'
  BY DEF Untouched, DestructionShown, StartInterrupted, Starting, FenceAndStop, Stops,
     StopFrom, Fenced, Closed, Retried
<1>4. StopTrue'
  BY DEF Untouched, DestructionShown, StopTrue, BehindStop, StartInterrupted, Starting,
     FenceAndStop, Stops, StopFrom, Fenced, Closed, Retried, WorkOver
<1>5. BehindStop'
  BY DEF Untouched, DestructionShown, BehindStop, StopTrue, WorkOver, Starting,
     StartInterrupted, FenceAndStop, Stops, StopFrom, Fenced, Closed, Retried
<1>6. DestroyTrue'
  BY DEF Untouched, DestructionShown, DestroyTrue, StopTrue, BehindStop, StartInterrupted,
     Starting, FenceAndStop, Stops, StopFrom, Fenced, Closed, Retried
<1> QED BY <1>1, <1>2, <1>3, <1>4, <1>5, <1>6

\* The driver reports that compute was lost.
LEMMA InfrastructureFailsInv == SandboxInv /\ InfrastructureFails => SandboxInv'
<1> SUFFICES ASSUME SandboxInv, InfrastructureFails PROVE SandboxInv'
  OBVIOUS
<1> USE DEF SandboxInv
<1>1. SandboxTypeOK'
  <2>1. [startup EXCEPT !.aborted = TRUE, !.lost = TRUE] \in StartupRecord
    BY DEF SandboxTypeOK, StartupRecord
  <2> QED BY <2>1, FenceAndStopType DEF SandboxTypeOK, InfrastructureFails
<1> USE DEF SandboxTypeOK, NoFiles, StartupRecord, FilesRecord, StopRecord, DestroyRecord, Joins
<1>2. Untouched'
  BY DEF Untouched, DestructionShown, InfrastructureFails, FenceAndStop, Stops, StopFrom,
     Fenced, Closed, Retried
<1>3. DestructionShown'
  BY DEF Untouched, DestructionShown, InfrastructureFails, FenceAndStop, Stops, StopFrom,
     Fenced, Closed, Retried
<1>4. StopTrue'
  <2>1. CASE stop.at = "idle"
    BY <2>1 DEF InfrastructureFails, FenceAndStop, Stops, StopFrom, Fenced, StopTrue,
       BehindStop, Retried
  <2>2. CASE stop.at # "idle"
    <3>1. UNCHANGED <<stop, process, streams, files>> /\ startup'.at = startup.at
      BY <2>2 DEF InfrastructureFails, FenceAndStop, Stops, StopFrom
    <3> QED BY <3>1 DEF StopTrue, WorkOver, Starting
  <2> QED BY <2>1, <2>2
<1>5. BehindStop'
  BY DEF Untouched, DestructionShown, BehindStop, StopTrue, WorkOver, Starting,
     InfrastructureFails, FenceAndStop, Stops, StopFrom, Fenced, Closed, Retried
<1>6. DestroyTrue'
  BY DEF Untouched, DestructionShown, DestroyTrue, StopTrue, BehindStop, InfrastructureFails,
     FenceAndStop, Stops, StopFrom, Fenced, Closed, Retried
<1> QED BY <1>1, <1>2, <1>3, <1>4, <1>5, <1>6

\* The one process is reserved.
LEMMA ReserveProcessInv == SandboxInv /\ ReserveProcess => SandboxInv'
<1> SUFFICES ASSUME SandboxInv, ReserveProcess PROVE SandboxInv'
  OBVIOUS
<1> USE DEF SandboxInv
<1>1. SandboxTypeOK'
  BY DEF SandboxTypeOK, ReserveProcess
<1> USE DEF SandboxTypeOK, NoFiles, StartupRecord, FilesRecord, StopRecord, DestroyRecord, Joins
<1>2. Untouched'
  BY DEF Untouched, DestructionShown, ReserveProcess
<1>3. DestructionShown'
  BY DEF Untouched, DestructionShown, ReserveProcess
<1>4. StopTrue'
  BY DEF Untouched, DestructionShown, StopTrue, BehindStop, ReserveProcess, WorkOver, Starting
<1>5. BehindStop'
  BY DEF Untouched, DestructionShown, BehindStop, StopTrue, WorkOver, Starting, ReserveProcess
<1>6. DestroyTrue'
  BY DEF Untouched, DestructionShown, DestroyTrue, StopTrue, BehindStop, ReserveProcess
<1> QED BY <1>1, <1>2, <1>3, <1>4, <1>5, <1>6

\* The process is started.
LEMMA StartProcessInv == SandboxInv /\ StartProcess => SandboxInv'
<1> SUFFICES ASSUME SandboxInv, StartProcess PROVE SandboxInv'
  OBVIOUS
<1> USE DEF SandboxInv
<1>1. SandboxTypeOK'
  BY DEF SandboxTypeOK, StartProcess
<1> USE DEF SandboxTypeOK, NoFiles, StartupRecord, FilesRecord, StopRecord, DestroyRecord, Joins
<1>2. Untouched'
  BY DEF Untouched, DestructionShown, StartProcess
<1>3. DestructionShown'
  BY DEF Untouched, DestructionShown, StartProcess
<1>4. StopTrue'
  BY DEF Untouched, DestructionShown, StopTrue, BehindStop, StartProcess, WorkOver, Starting
<1>5. BehindStop'
  BY DEF Untouched, DestructionShown, BehindStop, StopTrue, WorkOver, Starting, StartProcess
<1>6. DestroyTrue'
  BY DEF Untouched, DestructionShown, DestroyTrue, StopTrue, BehindStop, StartProcess
<1> QED BY <1>1, <1>2, <1>3, <1>4, <1>5, <1>6

\* The driver has started the process.
LEMMA ProcessStartedInv == SandboxInv /\ ProcessStarted => SandboxInv'
<1> SUFFICES ASSUME SandboxInv, ProcessStarted PROVE SandboxInv'
  OBVIOUS
<1> USE DEF SandboxInv
<1>1. SandboxTypeOK'
  BY FenceAndStopType DEF SandboxTypeOK, ProcessStarted
<1> USE DEF SandboxTypeOK, NoFiles, StartupRecord, FilesRecord, StopRecord, DestroyRecord, Joins
<1>2. Untouched'
  BY DEF Untouched, DestructionShown, ProcessStarted, FenceAndStop, Stops, StopFrom, Fenced,
     Closed, Retried
<1>3. DestructionShown'
  BY DEF Untouched, DestructionShown, ProcessStarted, FenceAndStop, Stops, StopFrom, Fenced,
     Closed, Retried
<1>4. StopTrue'
  BY DEF Untouched, DestructionShown, StopTrue, BehindStop, ProcessStarted, FenceAndStop,
     Stops, StopFrom, Fenced, Closed, Retried, WorkOver, Starting
<1>5. BehindStop'
  BY DEF Untouched, DestructionShown, BehindStop, StopTrue, WorkOver, Starting,
     ProcessStarted, FenceAndStop, Stops, StopFrom, Fenced, Closed, Retried
<1>6. DestroyTrue'
  BY DEF Untouched, DestructionShown, DestroyTrue, StopTrue, BehindStop, ProcessStarted,
     FenceAndStop, Stops, StopFrom, Fenced, Closed, Retried
<1> QED BY <1>1, <1>2, <1>3, <1>4, <1>5, <1>6

\* The start of the process is aborted.
LEMMA ProcessInterruptedInv == SandboxInv /\ ProcessInterrupted => SandboxInv'
<1> SUFFICES ASSUME SandboxInv, ProcessInterrupted PROVE SandboxInv'
  OBVIOUS
<1> USE DEF SandboxInv
<1>1. SandboxTypeOK'
  BY FenceAndStopType DEF SandboxTypeOK, ProcessInterrupted
<1> USE DEF SandboxTypeOK, NoFiles, StartupRecord, FilesRecord, StopRecord, DestroyRecord, Joins
<1>2. Untouched'
  BY DEF Untouched, DestructionShown, ProcessInterrupted, FenceAndStop, Stops, StopFrom,
     Fenced, Closed, Retried
<1>3. DestructionShown'
  BY DEF Untouched, DestructionShown, ProcessInterrupted, FenceAndStop, Stops, StopFrom,
     Fenced, Closed, Retried
<1>4. StopTrue'
  BY DEF Untouched, DestructionShown, StopTrue, BehindStop, ProcessInterrupted, FenceAndStop,
     Stops, StopFrom, Fenced, Closed, Retried, WorkOver, Starting
<1>5. BehindStop'
  BY DEF Untouched, DestructionShown, BehindStop, StopTrue, WorkOver, Starting,
     ProcessInterrupted, FenceAndStop, Stops, StopFrom, Fenced, Closed, Retried
<1>6. DestroyTrue'
  BY DEF Untouched, DestructionShown, DestroyTrue, StopTrue, BehindStop, ProcessInterrupted,
     FenceAndStop, Stops, StopFrom, Fenced, Closed, Retried
<1> QED BY <1>1, <1>2, <1>3, <1>4, <1>5, <1>6

\* A stream of the process fails.
LEMMA StreamsFailInv == SandboxInv /\ StreamsFail => SandboxInv'
<1> SUFFICES ASSUME SandboxInv, StreamsFail PROVE SandboxInv'
  OBVIOUS
<1> USE DEF SandboxInv
<1>1. SandboxTypeOK'
  BY StopsType DEF SandboxTypeOK, StreamsFail
<1> USE DEF SandboxTypeOK, NoFiles, StartupRecord, FilesRecord, StopRecord, DestroyRecord, Joins
<1>2. Untouched'
  BY DEF Untouched, DestructionShown, StreamsFail, Stops, StopFrom, Closed, Retried
<1>3. DestructionShown'
  BY DEF Untouched, DestructionShown, StreamsFail, Stops, StopFrom, Closed, Retried
<1>4. StopTrue'
  BY DEF Untouched, DestructionShown, StopTrue, BehindStop, StreamsFail, Stops, StopFrom,
     Closed, Retried, WorkOver, Starting
<1>5. BehindStop'
  BY DEF Untouched, DestructionShown, BehindStop, StopTrue, WorkOver, Starting, StreamsFail,
     Stops, StopFrom, Closed, Retried
<1>6. DestroyTrue'
  BY DEF Untouched, DestructionShown, DestroyTrue, StopTrue, BehindStop, StreamsFail, Stops,
     StopFrom, Closed, Retried
<1> QED BY <1>1, <1>2, <1>3, <1>4, <1>5, <1>6

\* The streams of the process settle.
LEMMA StreamsSettleInv == SandboxInv /\ StreamsSettle => SandboxInv'
<1> SUFFICES ASSUME SandboxInv, StreamsSettle PROVE SandboxInv'
  OBVIOUS
<1> USE DEF SandboxInv
<1>1. SandboxTypeOK'
  BY DEF SandboxTypeOK, StreamsSettle
<1> USE DEF SandboxTypeOK, NoFiles, StartupRecord, FilesRecord, StopRecord, DestroyRecord, Joins
<1>2. Untouched'
  BY DEF Untouched, DestructionShown, StreamsSettle
<1>3. DestructionShown'
  BY DEF Untouched, DestructionShown, StreamsSettle
<1>4. StopTrue'
  BY DEF Untouched, DestructionShown, StopTrue, BehindStop, StreamsSettle, WorkOver, Starting
<1>5. BehindStop'
  BY DEF Untouched, DestructionShown, BehindStop, StopTrue, WorkOver, Starting, StreamsSettle
<1>6. DestroyTrue'
  BY DEF Untouched, DestructionShown, DestroyTrue, StopTrue, BehindStop, StreamsSettle
<1> QED BY <1>1, <1>2, <1>3, <1>4, <1>5, <1>6

\* A tree is imported.
LEMMA ImportTreeInv == SandboxInv /\ ImportTree => SandboxInv'
<1> SUFFICES ASSUME SandboxInv, ImportTree PROVE SandboxInv'
  OBVIOUS
<1> USE DEF SandboxInv
<1>1. SandboxTypeOK'
  <2>1. files' \in FilesRecord
    BY DEF ImportTree, EnterFiles, FilesRecord
  <2> QED BY <2>1 DEF SandboxTypeOK, ImportTree, EnterFiles
<1> USE DEF SandboxTypeOK, NoFiles, StartupRecord, FilesRecord, StopRecord, DestroyRecord, Joins
<1>2. Untouched'
  BY DEF Untouched, DestructionShown, ImportTree, EnterFiles
<1>3. DestructionShown'
  BY DEF Untouched, DestructionShown, ImportTree, EnterFiles
<1>4. StopTrue'
  BY DEF Untouched, DestructionShown, StopTrue, BehindStop, ImportTree, EnterFiles, WorkOver,
     Starting
<1>5. BehindStop'
  BY DEF Untouched, DestructionShown, BehindStop, StopTrue, WorkOver, Starting, ImportTree,
     EnterFiles
<1>6. DestroyTrue'
  BY DEF Untouched, DestructionShown, DestroyTrue, StopTrue, BehindStop, ImportTree, EnterFiles
<1> QED BY <1>1, <1>2, <1>3, <1>4, <1>5, <1>6

\* A live file operation begins.
LEMMA EnterLiveInv == SandboxInv /\ EnterLive => SandboxInv'
<1> SUFFICES ASSUME SandboxInv, EnterLive PROVE SandboxInv'
  OBVIOUS
<1> USE DEF SandboxInv
<1>1. SandboxTypeOK'
  <2>1. files' \in FilesRecord
    BY DEF EnterLive, EnterFiles, FilesRecord
  <2> QED BY <2>1 DEF SandboxTypeOK, EnterLive, EnterFiles
<1> USE DEF SandboxTypeOK, NoFiles, StartupRecord, FilesRecord, StopRecord, DestroyRecord, Joins
<1>2. Untouched'
  BY DEF Untouched, DestructionShown, EnterLive, EnterFiles
<1>3. DestructionShown'
  BY DEF Untouched, DestructionShown, EnterLive, EnterFiles
<1>4. StopTrue'
  BY DEF Untouched, DestructionShown, StopTrue, BehindStop, EnterLive, EnterFiles, WorkOver,
     Starting
<1>5. BehindStop'
  BY DEF Untouched, DestructionShown, BehindStop, StopTrue, WorkOver, Starting, EnterLive,
     EnterFiles
<1>6. DestroyTrue'
  BY DEF Untouched, DestructionShown, DestroyTrue, StopTrue, BehindStop, EnterLive, EnterFiles
<1> QED BY <1>1, <1>2, <1>3, <1>4, <1>5, <1>6

\* A tree is exported.
LEMMA ExportTreeInv == SandboxInv /\ ExportTree => SandboxInv'
<1> SUFFICES ASSUME SandboxInv, ExportTree PROVE SandboxInv'
  OBVIOUS
<1> USE DEF SandboxInv
<1>1. SandboxTypeOK'
  <2>1. files' \in FilesRecord
    BY DEF ExportTree, EnterFiles, FilesRecord
  <2> QED BY <2>1 DEF SandboxTypeOK, ExportTree, EnterFiles
<1> USE DEF SandboxTypeOK, NoFiles, StartupRecord, FilesRecord, StopRecord, DestroyRecord, Joins
<1>2. Untouched'
  BY DEF Untouched, DestructionShown, ExportTree, ComputeStopped, EnterFiles
<1>3. DestructionShown'
  BY DEF Untouched, DestructionShown, ExportTree, ComputeStopped, EnterFiles
<1>4. StopTrue'
  BY DEF Untouched, DestructionShown, StopTrue, BehindStop, ExportTree, ComputeStopped,
     EnterFiles, WorkOver, Starting
<1>5. BehindStop'
  BY DEF Untouched, DestructionShown, BehindStop, StopTrue, WorkOver, Starting, ExportTree,
     ComputeStopped, EnterFiles
<1>6. DestroyTrue'
  BY DEF Untouched, DestructionShown, DestroyTrue, StopTrue, BehindStop, ExportTree,
     ComputeStopped, EnterFiles
<1> QED BY <1>1, <1>2, <1>3, <1>4, <1>5, <1>6

\* A file operation ends clean.
LEMMA FilesEndInv == SandboxInv /\ FilesEnd => SandboxInv'
<1> SUFFICES ASSUME SandboxInv, FilesEnd PROVE SandboxInv'
  OBVIOUS
<1> USE DEF SandboxInv
<1>1. SandboxTypeOK'
  <2>1. NoFiles \in FilesRecord
    BY DEF NoFiles, FilesRecord
  <2> QED BY <2>1, FencedType, FenceAndStopType DEF SandboxTypeOK, FilesEnd
<1> USE DEF SandboxTypeOK, NoFiles, StartupRecord, FilesRecord, StopRecord, DestroyRecord, Joins
<1>2. Untouched'
  BY DEF Untouched, DestructionShown, FilesEnd, FenceAndStop, Stops, StopFrom, Fenced, Closed,
     Retried
<1>3. DestructionShown'
  BY DEF Untouched, DestructionShown, FilesEnd, FenceAndStop, Stops, StopFrom, Fenced, Closed,
     Retried
<1>4. StopTrue'
  BY DEF Untouched, DestructionShown, StopTrue, BehindStop, FilesEnd, FenceAndStop, Stops,
     StopFrom, Fenced, Closed, Retried, WorkOver, Starting
<1>5. BehindStop'
  BY DEF Untouched, DestructionShown, BehindStop, StopTrue, WorkOver, Starting, FilesEnd,
     FenceAndStop, Stops, StopFrom, Fenced, Closed, Retried
<1>6. DestroyTrue'
  BY DEF Untouched, DestructionShown, DestroyTrue, StopTrue, BehindStop, FilesEnd,
     FenceAndStop, Stops, StopFrom, Fenced, Closed, Retried
<1> QED BY <1>1, <1>2, <1>3, <1>4, <1>5, <1>6

\* A file operation ends with a resource to close.
LEMMA FilesEndDirtyInv == SandboxInv /\ FilesEndDirty => SandboxInv'
<1> SUFFICES ASSUME SandboxInv, FilesEndDirty PROVE SandboxInv'
  OBVIOUS
<1> USE DEF SandboxInv
<1>1. SandboxTypeOK'
  <2> DEFINE next == IF stop.files = "waits" THEN "closing" ELSE "dirty"
  <2>1. /\ [files EXCEPT !.at = next] \in FilesRecord
        /\ [files EXCEPT !.at = "dirty"] \in FilesRecord
    BY FilesTypes DEF SandboxTypeOK, FilesEndDirty
  <2>2. failures' \in 0..MaxFailures
    BY SandboxAssumption DEF SandboxTypeOK, FilesEndDirty
  <2>3. CASE files.kind = "live"
    <3>1. FenceAndStop(startup, streams, [files EXCEPT !.at = next]) /\ UNCHANGED <<destroy, process>>
      BY <2>3 DEF FilesEndDirty
    <3> HIDE DEF next
    <3> QED BY <2>1, <2>2, <3>1, FenceAndStopType DEF SandboxTypeOK
  <2>4. CASE files.kind # "live"
    BY <2>1, <2>2, <2>4, FencedType, StopTypes, DestroyTypes DEF SandboxTypeOK, FilesEndDirty
  <2> QED BY <2>3, <2>4
<1> USE DEF SandboxTypeOK, NoFiles, StartupRecord, FilesRecord, StopRecord, DestroyRecord, Joins
<1>r. /\ Rejected(stop).at = stop.at /\ (Rejected(stop).files = "none" <=> stop.files = "none")
      /\ Rejected(destroy).at = destroy.at
      /\ Rejected(destroy).files = "none" <=> destroy.files = "none"
  BY StopTypes, DestroyTypes
<1>2. Untouched'
  BY <1>r DEF Untouched, DestructionShown, FilesEndDirty, FenceAndStop, Stops, StopFrom,
     Fenced, Closed, Retried
<1>3. DestructionShown'
  BY <1>r DEF Untouched, DestructionShown, FilesEndDirty, FenceAndStop, Stops, StopFrom,
     Fenced, Closed, Retried
<1>4. StopTrue'
  BY <1>r DEF Untouched, DestructionShown, StopTrue, BehindStop, FilesEndDirty, FenceAndStop,
     Stops, StopFrom, Fenced, Closed, Retried, WorkOver, Starting
<1>5. BehindStop'
  BY ZenonT(60), <1>r DEF Untouched, DestructionShown, BehindStop, StopTrue, WorkOver, Starting,
     FilesEndDirty, FenceAndStop, Stops, StopFrom, Fenced, Closed, Retried
<1>6. DestroyTrue'
  <2>1. destroy.at # "driver" /\ snapshot # "destroyed"
    BY DEF DestroyTrue, FilesEndDirty
  <2>2. destroy'.at = destroy.at /\ (destroy'.files = "none" <=> destroy.files = "none")
    BY <1>r DEF FilesEndDirty
  <2>3. files'.kind = "export" => files.kind = "export"
    BY DEF FilesEndDirty, FenceAndStop, Stops, StopFrom, Retried
  <2>4. snapshot' # "destroyed"
    BY <2>1 DEF FilesEndDirty, FenceAndStop, Stops, StopFrom, Fenced
  <2> QED BY <2>1, <2>2, <2>3, <2>4 DEF DestroyTrue
<1> QED BY <1>1, <1>2, <1>3, <1>4, <1>5, <1>6

\* The resource is closed, or is not.
LEMMA FilesClosedInv == SandboxInv /\ FilesClosed => SandboxInv'
<1> SUFFICES ASSUME SandboxInv, FilesClosed PROVE SandboxInv'
  OBVIOUS
<1> USE DEF SandboxInv
<1>1. SandboxTypeOK'
  <2>1. NoFiles \in FilesRecord /\ [files EXCEPT !.at = "dirty"] \in FilesRecord
    BY FilesTypes DEF SandboxTypeOK, FilesClosed, NoFiles, FilesRecord
  <2>2. failures' \in 0..MaxFailures
    BY SandboxAssumption DEF SandboxTypeOK, FilesClosed
  <2> QED BY <2>1, <2>2, StopTypes, DestroyTypes DEF SandboxTypeOK, FilesClosed
<1> USE DEF SandboxTypeOK, NoFiles, StartupRecord, FilesRecord, StopRecord, DestroyRecord, Joins
<1>r. /\ Rejected(stop).at = stop.at /\ (Rejected(stop).files = "none" <=> stop.files = "none")
      /\ Rejected(destroy).at = destroy.at
      /\ Rejected(destroy).files = "none" <=> destroy.files = "none"
  BY StopTypes, DestroyTypes
<1>2. Untouched'
  BY <1>r DEF Untouched, DestructionShown, FilesClosed
<1>3. DestructionShown'
  BY <1>r DEF Untouched, DestructionShown, FilesClosed
<1>4. StopTrue'
  BY <1>r DEF Untouched, DestructionShown, StopTrue, BehindStop, FilesClosed, WorkOver, Starting
<1>5. BehindStop'
  BY <1>r DEF Untouched, DestructionShown, BehindStop, StopTrue, WorkOver, Starting, FilesClosed
<1>6. DestroyTrue'
  BY <1>r DEF Untouched, DestructionShown, DestroyTrue, StopTrue, BehindStop, FilesClosed
<1> QED BY <1>1, <1>2, <1>3, <1>4, <1>5, <1>6

\* A file operation is aborted.
LEMMA FilesInterruptedInv == SandboxInv /\ FilesInterrupted => SandboxInv'
<1> SUFFICES ASSUME SandboxInv, FilesInterrupted PROVE SandboxInv'
  OBVIOUS
<1> USE DEF SandboxInv
<1>1. SandboxTypeOK'
  BY FenceAndStopType DEF SandboxTypeOK, FilesInterrupted
<1> USE DEF SandboxTypeOK, NoFiles, StartupRecord, FilesRecord, StopRecord, DestroyRecord, Joins
<1>2. Untouched'
  BY DEF Untouched, DestructionShown, FilesInterrupted, FenceAndStop, Stops, StopFrom, Fenced,
     Closed, Retried
<1>3. DestructionShown'
  BY DEF Untouched, DestructionShown, FilesInterrupted, FenceAndStop, Stops, StopFrom, Fenced,
     Closed, Retried
<1>4. StopTrue'
  BY DEF Untouched, DestructionShown, StopTrue, BehindStop, FilesInterrupted, FenceAndStop,
     Stops, StopFrom, Fenced, Closed, Retried, WorkOver, Starting
<1>5. BehindStop'
  BY DEF Untouched, DestructionShown, BehindStop, StopTrue, WorkOver, Starting,
     FilesInterrupted, FenceAndStop, Stops, StopFrom, Fenced, Closed, Retried
<1>6. DestroyTrue'
  BY DEF Untouched, DestructionShown, DestroyTrue, StopTrue, BehindStop, FilesInterrupted,
     FenceAndStop, Stops, StopFrom, Fenced, Closed, Retried
<1> QED BY <1>1, <1>2, <1>3, <1>4, <1>5, <1>6

\* stop
LEMMA StopInv == SandboxInv /\ Stop => SandboxInv'
<1> SUFFICES ASSUME SandboxInv, Stop PROVE SandboxInv'
  OBVIOUS
<1> USE DEF SandboxInv
<1>1. SandboxTypeOK'
  BY StopFromType DEF SandboxTypeOK, Stop
<1> USE DEF SandboxTypeOK, NoFiles, StartupRecord, FilesRecord, StopRecord, DestroyRecord, Joins
<1>2. Untouched'
  BY DEF Untouched, DestructionShown, Stop, StopFrom, Closed, Retried
<1>3. DestructionShown'
  BY DEF Untouched, DestructionShown, Stop, StopFrom, Closed, Retried
<1>4. StopTrue'
  BY DEF Untouched, DestructionShown, StopTrue, BehindStop, Stop, StopFrom, Closed, Retried,
     WorkOver, Starting
<1>5. BehindStop'
  BY DEF Untouched, DestructionShown, BehindStop, StopTrue, WorkOver, Starting, Stop,
     StopFrom, Closed, Retried
<1>6. DestroyTrue'
  BY DEF Untouched, DestructionShown, DestroyTrue, StopTrue, BehindStop, Stop, StopFrom,
     Closed, Retried
<1> QED BY <1>1, <1>2, <1>3, <1>4, <1>5, <1>6

\* destroy
LEMMA DestroyInv == SandboxInv /\ Destroy => SandboxInv'
<1> SUFFICES ASSUME SandboxInv, Destroy PROVE SandboxInv'
  OBVIOUS
<1> USE DEF SandboxInv
<1>1. SandboxTypeOK'
  <2> DEFINE held == IF files.kind \in {"import", "export"} THEN Retried(files) ELSE files
  <2>1. held \in FilesRecord /\ "destroying" \in Snapshots
    BY FilesTypes DEF SandboxTypeOK, Snapshots
  <2>2. destroy' \in DestroyRecord
    BY DEF Destroy, DestroyRecord, Joins
  <2>3. StopFrom("destroying", startup, streams, held) /\ UNCHANGED <<process, failures>>
    BY DEF Destroy
  <2> HIDE DEF held
  <2> QED BY <2>1, <2>2, <2>3, StopFromType DEF SandboxTypeOK
<1> USE DEF SandboxTypeOK, NoFiles, StartupRecord, FilesRecord, StopRecord, DestroyRecord, Joins
<1>2. Untouched'
  BY DEF Untouched, DestructionShown, Destroy, StopFrom, Closed, Retried
<1>3. DestructionShown'
  BY DEF Untouched, DestructionShown, Destroy, StopFrom, Closed, Retried
<1>4. StopTrue'
  BY DEF Untouched, DestructionShown, StopTrue, BehindStop, Destroy, StopFrom, Closed,
     Retried, WorkOver, Starting
<1>5. BehindStop'
  BY DEF Untouched, DestructionShown, BehindStop, StopTrue, WorkOver, Starting, Destroy,
     StopFrom, Closed, Retried
<1>6. DestroyTrue'
  BY DEF Untouched, DestructionShown, DestroyTrue, StopTrue, BehindStop, Destroy, StopFrom,
     Closed, Retried
<1> QED BY <1>1, <1>2, <1>3, <1>4, <1>5, <1>6

\* The driver has stopped compute, or has failed to.
LEMMA PhysicalStopInv == SandboxInv /\ PhysicalStop => SandboxInv'
<1> SUFFICES ASSUME SandboxInv, PhysicalStop PROVE SandboxInv'
  OBVIOUS
<1> USE DEF SandboxInv
<1>1. SandboxTypeOK'
  <2>1. failures' \in 0..MaxFailures
    BY SandboxAssumption DEF SandboxTypeOK, PhysicalStop
  <2>2. stop' \in StopRecord
    BY DEF SandboxTypeOK, PhysicalStop, StopFails, NoStop, StopRecord
  <2>3. destroy' \in DestroyRecord
    BY DEF SandboxTypeOK, PhysicalStop, StopFails, DestroyRecord
  <2>4. snapshot' \in Snapshots
    BY DEF SandboxTypeOK, PhysicalStop, StopFails, Snapshots
  <2> QED BY <2>1, <2>2, <2>3, <2>4 DEF SandboxTypeOK, PhysicalStop, StopFails
<1> USE DEF SandboxTypeOK, NoFiles, StartupRecord, FilesRecord, StopRecord, DestroyRecord, Joins
<1>2. Untouched'
  BY DEF Untouched, DestructionShown, PhysicalStop, StopFails, Cleans, NoStop
<1>3. DestructionShown'
  BY DEF Untouched, DestructionShown, PhysicalStop, StopFails, Cleans, NoStop
<1>4. StopTrue'
  BY DEF Untouched, DestructionShown, StopTrue, BehindStop, PhysicalStop, StopFails, Cleans,
     NoStop, WorkOver, Starting
<1>5. BehindStop'
  BY DEF Untouched, DestructionShown, BehindStop, StopTrue, WorkOver, Starting, PhysicalStop,
     StopFails, Cleans, NoStop
<1>6. DestroyTrue'
  BY DEF Untouched, DestructionShown, DestroyTrue, StopTrue, BehindStop, PhysicalStop,
     StopFails, Cleans, NoStop
<1> QED BY <1>1, <1>2, <1>3, <1>4, <1>5, <1>6

\* The work that was under way is over.
LEMMA JoinWorkInv == SandboxInv /\ JoinWork => SandboxInv'
<1> SUFFICES ASSUME SandboxInv, JoinWork PROVE SandboxInv'
  OBVIOUS
<1> USE DEF SandboxInv
<1>1. SandboxTypeOK'
  <2>1. stop' \in StopRecord
    BY DEF SandboxTypeOK, JoinWork, StopRecord
  <2> QED BY <2>1 DEF SandboxTypeOK, JoinWork
<1> USE DEF SandboxTypeOK, NoFiles, StartupRecord, FilesRecord, StopRecord, DestroyRecord, Joins
<1>2. Untouched'
  BY DEF Untouched, DestructionShown, JoinWork, WorkOver
<1>3. DestructionShown'
  BY DEF Untouched, DestructionShown, JoinWork, WorkOver
<1>4. StopTrue'
  BY DEF Untouched, DestructionShown, StopTrue, BehindStop, JoinWork, WorkOver, Starting
<1>5. BehindStop'
  BY DEF Untouched, DestructionShown, BehindStop, StopTrue, WorkOver, Starting, JoinWork
<1>6. DestroyTrue'
  BY DEF Untouched, DestructionShown, DestroyTrue, StopTrue, BehindStop, JoinWork, WorkOver
<1> QED BY <1>1, <1>2, <1>3, <1>4, <1>5, <1>6

\* The file operation is over too, and the stop with it.
LEMMA StopCompletesInv == SandboxInv /\ StopCompletes => SandboxInv'
<1> SUFFICES ASSUME SandboxInv, StopCompletes PROVE SandboxInv'
  OBVIOUS
<1> USE DEF SandboxInv
<1>1. SandboxTypeOK'
  <2>2. stop' \in StopRecord
    BY DEF SandboxTypeOK, StopCompletes, StopFails, NoStop, StopRecord
  <2>3. destroy' \in DestroyRecord
    BY DEF SandboxTypeOK, StopCompletes, StopFails, DestroyRecord
  <2>4. snapshot' \in Snapshots
    BY DEF SandboxTypeOK, StopCompletes, StopFails, Snapshots
  <2> QED BY <2>2, <2>3, <2>4 DEF SandboxTypeOK, StopCompletes, StopFails
<1> USE DEF SandboxTypeOK, NoFiles, StartupRecord, FilesRecord, StopRecord, DestroyRecord, Joins
<1>2. Untouched'
  BY DEF Untouched, DestructionShown, StopCompletes, StopFails, Cleans, NoStop, FilesFree
<1>3. DestructionShown'
  BY DEF Untouched, DestructionShown, StopCompletes, StopFails, Cleans, NoStop, FilesFree
<1>4. StopTrue'
  BY DEF Untouched, DestructionShown, StopTrue, BehindStop, StopCompletes, StopFails, Cleans,
     NoStop, FilesFree, WorkOver, Starting
<1>5. BehindStop'
  <2>1. CASE stop'.at = "done"
    BY <2>1 DEF BehindStop
  <2>2. CASE StopFails
    <3>1. files' = files /\ snapshot' \in {"uncertain", "destroying", "destroyed"}
      BY <2>2 DEF StopFails, Cleans
    <3>2. snapshot \notin {"stopped", "destroyed"} /\ files.kind # "export"
          /\ destroy.at \notin {"files", "driver"}
      BY DEF BehindStop, StopCompletes
    <3>3. destroy'.at \notin {"files", "driver"}
      BY <2>2, <3>2 DEF StopFails
    <3>4. snapshot' # "destroyed"
      BY <2>2, <3>2 DEF StopFails, Cleans
    <3> QED BY <3>1, <3>2, <3>3, <3>4 DEF BehindStop
  <2> QED BY <2>1, <2>2 DEF StopCompletes
<1>6. DestroyTrue'
  BY DEF Untouched, DestructionShown, DestroyTrue, StopTrue, BehindStop, StopCompletes,
     StopFails, Cleans, NoStop, FilesFree
<1> QED BY <1>1, <1>2, <1>3, <1>4, <1>5, <1>6

\* A destruction whose stop was rejected.
LEMMA DestroyRejectedInv == SandboxInv /\ DestroyRejected => SandboxInv'
<1> SUFFICES ASSUME SandboxInv, DestroyRejected PROVE SandboxInv'
  OBVIOUS
<1> USE DEF SandboxInv
<1>1. SandboxTypeOK'
  <2>1. destroy' \in DestroyRecord
    BY DEF SandboxTypeOK, DestroyRejected, DestroyFails, DestroyOver, DestroyRecord
  <2> QED BY <2>1 DEF SandboxTypeOK, DestroyRejected, DestroyFails, Snapshots
<1> USE DEF SandboxTypeOK, NoFiles, StartupRecord, FilesRecord, StopRecord, DestroyRecord, Joins
<1>2. Untouched'
  BY DEF Untouched, DestructionShown, DestroyRejected, DestroyFails, DestroyOver
<1>3. DestructionShown'
  BY DEF Untouched, DestructionShown, DestroyRejected, DestroyFails, DestroyOver
<1>4. StopTrue'
  BY DEF Untouched, DestructionShown, StopTrue, BehindStop, DestroyRejected, DestroyFails,
     DestroyOver, WorkOver, Starting
<1>5. BehindStop'
  BY DEF Untouched, DestructionShown, BehindStop, StopTrue, WorkOver, Starting,
     DestroyRejected, DestroyFails, DestroyOver
<1>6. DestroyTrue'
  BY DEF Untouched, DestructionShown, DestroyTrue, StopTrue, BehindStop, DestroyRejected,
     DestroyFails, DestroyOver
<1> QED BY <1>1, <1>2, <1>3, <1>4, <1>5, <1>6

\* A destruction goes on behind a completed stop.
LEMMA ComputeGoneInv == SandboxInv /\ ComputeGone => SandboxInv'
<1> SUFFICES ASSUME SandboxInv, ComputeGone PROVE SandboxInv'
  OBVIOUS
<1> USE DEF SandboxInv
<1>1. SandboxTypeOK'
  <2>1. destroy' \in DestroyRecord
    BY DEF SandboxTypeOK, ComputeGone, DestroyRecord
  <2> QED BY <2>1 DEF SandboxTypeOK, ComputeGone
<1> USE DEF SandboxTypeOK, NoFiles, StartupRecord, FilesRecord, StopRecord, DestroyRecord, Joins
<1>2. Untouched'
  BY DEF Untouched, DestructionShown, ComputeGone
<1>3. DestructionShown'
  BY DEF Untouched, DestructionShown, ComputeGone
<1>4. StopTrue'
  BY DEF Untouched, DestructionShown, StopTrue, BehindStop, ComputeGone, WorkOver, Starting
<1>5. BehindStop'
  BY DEF Untouched, DestructionShown, BehindStop, StopTrue, WorkOver, Starting, ComputeGone
<1>6. DestroyTrue'
  BY DEF Untouched, DestructionShown, DestroyTrue, StopTrue, BehindStop, ComputeGone
<1> QED BY <1>1, <1>2, <1>3, <1>4, <1>5, <1>6

\* The export a destruction found is over.
LEMMA EnterDestroyInv == SandboxInv /\ EnterDestroy => SandboxInv'
<1> SUFFICES ASSUME SandboxInv, EnterDestroy PROVE SandboxInv'
  OBVIOUS
<1> USE DEF SandboxInv
<1>1. SandboxTypeOK'
  <2>1. destroy' \in DestroyRecord
    BY DEF SandboxTypeOK, EnterDestroy, DestroyFails, DestroyOver, DestroyRecord
  <2> QED BY <2>1 DEF SandboxTypeOK, EnterDestroy, DestroyFails, Snapshots
<1> USE DEF SandboxTypeOK, NoFiles, StartupRecord, FilesRecord, StopRecord, DestroyRecord, Joins
<1>2. Untouched'
  BY DEF Untouched, DestructionShown, EnterDestroy, DestroyFails, DestroyOver, FilesFree
<1>3. DestructionShown'
  BY DEF Untouched, DestructionShown, EnterDestroy, DestroyFails, DestroyOver, FilesFree
<1>4. StopTrue'
  BY DEF Untouched, DestructionShown, StopTrue, BehindStop, EnterDestroy, DestroyFails,
     DestroyOver, FilesFree, WorkOver, Starting
<1>5. BehindStop'
  BY DEF Untouched, DestructionShown, BehindStop, StopTrue, WorkOver, Starting, EnterDestroy,
     DestroyFails, DestroyOver, FilesFree
<1>6. DestroyTrue'
  BY DEF Untouched, DestructionShown, DestroyTrue, StopTrue, BehindStop, EnterDestroy,
     DestroyFails, DestroyOver, FilesFree
<1> QED BY <1>1, <1>2, <1>3, <1>4, <1>5, <1>6

\* The driver has destroyed storage, or has failed to.
LEMMA DriverDestroyedInv == SandboxInv /\ DriverDestroyed => SandboxInv'
<1> SUFFICES ASSUME SandboxInv, DriverDestroyed PROVE SandboxInv'
  OBVIOUS
<1> USE DEF SandboxInv
<1>1. SandboxTypeOK'
  <2>1. destroy' \in DestroyRecord
    BY DEF SandboxTypeOK, DriverDestroyed, DestroyFails, DestroyOver, DestroyRecord
  <2>2. failures' \in 0..MaxFailures
    BY SandboxAssumption DEF SandboxTypeOK, DriverDestroyed, DestroyFails
  <2> QED BY <2>1, <2>2 DEF SandboxTypeOK, DriverDestroyed, DestroyFails, Snapshots
<1> USE DEF SandboxTypeOK, NoFiles, StartupRecord, FilesRecord, StopRecord, DestroyRecord, Joins
<1>2. Untouched'
  BY DEF Untouched, DestructionShown, DriverDestroyed, DestroyFails, DestroyOver
<1>3. DestructionShown'
  BY DEF Untouched, DestructionShown, DriverDestroyed, DestroyFails, DestroyOver
<1>4. StopTrue'
  BY DEF Untouched, DestructionShown, StopTrue, BehindStop, DriverDestroyed, DestroyFails,
     DestroyOver, WorkOver, Starting
<1>5. BehindStop'
  BY DEF Untouched, DestructionShown, BehindStop, StopTrue, WorkOver, Starting,
     DriverDestroyed, DestroyFails, DestroyOver
<1>6. DestroyTrue'
  BY DEF Untouched, DestructionShown, DestroyTrue, StopTrue, BehindStop, DriverDestroyed,
     DestroyFails, DestroyOver
<1> QED BY <1>1, <1>2, <1>3, <1>4, <1>5, <1>6

\* The invariant holds of a sandbox that was just made.
LEMMA SandboxInitInv == SandboxInit => SandboxInv
BY SandboxAssumption DEF SandboxInit, SandboxInv, SandboxTypeOK, Snapshots, StartupRecord,
   FilesRecord, StopRecord, DestroyRecord, Untouched, DestructionShown, StopTrue, BehindStop,
   DestroyTrue, NoFiles, NoStop

\* Every step keeps the invariant.
LEMMA SandboxNextInv == SandboxInv /\ [SandboxNext]_sandboxVars => SandboxInv'
<1> SUFFICES ASSUME SandboxInv, [SandboxNext]_sandboxVars PROVE SandboxInv'
  OBVIOUS
<1>1. CASE Use
  BY <1>1, StartInv, StartInterruptedInv, ReserveProcessInv, StartProcessInv,
     ProcessInterruptedInv, ImportTreeInv, EnterLiveInv, ExportTreeInv,
     FilesInterruptedInv DEF Use
<1>2. CASE Work
  BY <1>2, JournalInitializedInv, DriverStartedInv, ProcessStartedInv, StreamsSettleInv,
     FilesEndInv, FilesEndDirtyInv DEF Work
<1>3. CASE Cleanup
  BY <1>3, PhysicalStopInv, JoinWorkInv, StopCompletesInv, FilesClosedInv, DestroyRejectedInv,
     ComputeGoneInv, EnterDestroyInv, DriverDestroyedInv DEF Cleanup
<1>4. CASE UNCHANGED sandboxVars
  BY <1>4 DEF sandboxVars, SandboxInv, SandboxTypeOK, Untouched, DestructionShown, StopTrue,
     BehindStop, DestroyTrue, WorkOver, Starting
<1> QED BY <1>1, <1>2, <1>3, <1>4, JournalFailsInv, InfrastructureFailsInv, StreamsFailInv,
           StopInv, DestroyInv DEF SandboxNext

\* The inductive invariant holds throughout the life of a sandbox, however its starts, stops,
\* file operations and destruction interleave and fail.
THEOREM SandboxInvariant == SandboxSpec => []SandboxInv
BY SandboxInitInv, SandboxNextInv, PTL DEF SandboxSpec

\* What inspect() shows is true (sandbox owner.ts): a sandbox shown ready has its compute, and
\* one shown stopped has no work under way.
THEOREM TrueSnapshot == SandboxSpec => []SnapshotIsTrue
<1>1. SandboxInv => SnapshotIsTrue
  <2> SUFFICES ASSUME SandboxInv PROVE SnapshotIsTrue
    OBVIOUS
  <2>1. ReadyIsLive
    BY DEF SandboxInv, SandboxTypeOK, StartupRecord, Untouched, ReadyIsLive
  <2>2. StoppedIsQuiet
    BY DEF SandboxInv, StopTrue, BehindStop, StoppedIsQuiet, Quiet
  <2> QED BY <2>1, <2>2 DEF SnapshotIsTrue
<1> QED BY <1>1, SandboxInvariant, PTL

\* Storage is destroyed, and exported, only behind a completed stop (sandbox owner.ts, destroy).
THEOREM StorageGoesLast == SandboxSpec => []StorageLast
<1>1. SandboxInv => StorageLast
  BY DEF SandboxInv, StopTrue, BehindStop, DestroyTrue, StorageLast, Quiet, NoFiles
<1> QED BY <1>1, SandboxInvariant, PTL

\* The snapshots that may follow another.
MayBecome ==
     /\ snapshot = "destroyed" => snapshot' = "destroyed"
     /\ snapshot = "stopped" => snapshot' \in {"stopped", "destroying"}
     /\ snapshot = "destroying" => snapshot' \in {"destroying", "destroyed", "uncertain"}
     /\ snapshot = "stopping" /\ snapshot' = "uncertain" => stop'.at = "idle"

\* Every step moves the snapshot forward.
LEMMA MovesForward == ASSUME SandboxInv, SandboxNext PROVE MayBecome
<1> USE DEF MayBecome
<1>0. /\ destroy.at # "idle" <=> snapshot = "destroying"
      /\ snapshot \in {"stopped", "destroyed"} => stop.at = "done" /\ ~Starting /\ process # "starting"
      /\ stop.at = "done" => ~Starting
  BY DEF SandboxInv, DestructionShown, BehindStop, StopTrue, WorkOver
<1>1. ASSUME NEW started, NEW out, NEW held, FenceAndStop(started, out, held) PROVE MayBecome
  BY <1>0, <1>1 DEF FenceAndStop, Stops, StopFrom, Fenced
<1>2. CASE Use
  BY <1>1, <1>2 DEF Use, Start, StartInterrupted, ReserveProcess, StartProcess,
     ProcessInterrupted, ImportTree, EnterLive, ExportTree, FilesInterrupted, EnterFiles
<1>3. CASE Work
  BY <1>0, <1>1, <1>3 DEF Work, JournalInitialized, DriverStarted, StillStarting,
     ProcessStarted, StreamsSettle, FilesEnd, FilesEndDirty, Fenced, Starting
<1>4. CASE Cleanup
  BY <1>0, <1>4 DEF Cleanup, PhysicalStop, JoinWork, StopCompletes, FilesClosed,
     DestroyRejected, ComputeGone, EnterDestroy, DriverDestroyed, StopFails, DestroyFails,
     NoStop, Cleans
<1>5. CASE JournalFails \/ InfrastructureFails
  BY <1>1, <1>5 DEF JournalFails, InfrastructureFails
<1>6. CASE StreamsFail \/ Stop \/ Destroy
  BY <1>0, <1>6 DEF StreamsFail, Stops, Stop, Destroy, StopFrom
<1> QED BY <1>2, <1>3, <1>4, <1>5, <1>6 DEF SandboxNext

\* A destroyed sandbox stays so, a stopped one is only destroyed, and a destruction does not turn
\* back (sandbox owner.ts, fence and publish).
THEOREM NoReturn == SandboxSpec => NoWayBack
<1>1. SandboxInv /\ [SandboxNext]_sandboxVars => [MayBecome]_sandboxVars
  BY MovesForward
<1> QED BY <1>1, SandboxInvariant, PTL DEF SandboxSpec, NoWayBack, MayBecome

--------------------------------------------------------------------------------
(* Nobody waits for nobody. *)

\* The inductive form: a destruction waits for transfers only, never for a live operation.
WaitInv == NobodyStuck /\ (destroy.files = "waits" => files.kind # "live")

\* A stop that an uncertain end begins, or finds under way, leaves nobody stuck, if the files
\* it is handed have not failed under somebody who waits for them.
LEMMA StopsUnstuck ==
  ASSUME SandboxInv, WaitInv, NEW s \in Snapshots, NEW started, NEW out, NEW held \in FilesRecord,
         Stops(s, started, out, held), UNCHANGED destroy,
         s = "destroying" <=> snapshot = "destroying",
         s = "stopping" <=> snapshot = "stopping",
         held.at = "dirty" => stop.files # "waits" /\ destroy.files # "waits",
         held.kind = "live" => files.kind = "live"
  PROVE  WaitInv'
<1>1. /\ stop \in StopRecord /\ destroy \in DestroyRecord
      /\ stop.at \in {"idle", "done"} => stop.files = "none"
  BY StopTypes DEF SandboxInv, SandboxTypeOK
<1>2. Retried(held).at # "dirty" /\ Retried(held).kind = held.kind
  BY DEF Retried, FilesRecord
<1>3. CASE stop.at # "idle" \/ s \in {"destroyed", "stopped"}
  BY <1>3 DEF Stops, StopFrom, WaitInv, NobodyStuck, Awaited
<1>4. CASE stop.at = "idle" /\ s \notin {"destroyed", "stopped"}
  <2> DEFINE found == held.kind \in {"import", "live"}
  <2>1. /\ snapshot' = IF s = "destroying" THEN s ELSE "stopping"
        /\ files' = IF found THEN Retried(held) ELSE held
        /\ stop' = [at |-> "physical", files |-> IF found THEN "waits" ELSE "none"]
    BY <1>4 DEF Stops, StopFrom
  <2>2. Awaited(stop)'
    BY <1>2, <2>1 DEF Awaited
  <2>3. Awaited(destroy)' /\ (destroy'.files = "waits" => files'.kind # "live")
    BY <1>2, <2>1 DEF Awaited, WaitInv, NobodyStuck
  <2>4. stop'.at = "physical"
    BY <2>1
  <2> QED BY <2>1, <2>2, <2>3, <2>4 DEF WaitInv, NobodyStuck
<1> QED BY <1>3, <1>4

\* The same with the fence in front.
LEMMA FencedUnstuck ==
  ASSUME SandboxInv, WaitInv, NEW started, NEW out, NEW held \in FilesRecord,
         FenceAndStop(started, out, held), UNCHANGED destroy,
         held.at = "dirty" => stop.files # "waits" /\ destroy.files # "waits",
         held.kind = "live" => files.kind = "live"
  PROVE  WaitInv'
<1>1. snapshot \in Snapshots
  BY DEF SandboxInv, SandboxTypeOK
<1>2. /\ Fenced(snapshot) \in Snapshots
      /\ Fenced(snapshot) = "destroying" <=> snapshot = "destroying"
      /\ Fenced(snapshot) = "stopping" <=> snapshot = "stopping"
  BY <1>1, FencedType DEF Fenced
<1> QED BY <1>2, StopsUnstuck DEF FenceAndStop

\* Every step leaves nobody stuck.
LEMMA StepsUnstuck ==
  ASSUME SandboxInv, WaitInv, SandboxNext
  PROVE  WaitInv'
<1>0. /\ stop \in StopRecord /\ destroy \in DestroyRecord /\ files \in FilesRecord
      /\ snapshot \in Snapshots
      /\ stop.at \in {"idle", "done"} => stop.files = "none"
      /\ destroy.at \in {"idle", "driver"} => destroy.files = "none"
      /\ NoFiles \in FilesRecord /\ NoFiles.at = "clean" /\ NoFiles.kind = "none"
  BY StopTypes DEF SandboxInv, SandboxTypeOK, DestroyRecord, NoFiles, FilesRecord
<1>1. /\ destroy.at # "idle" <=> snapshot = "destroying"
      /\ snapshot \in {"reserved", "starting", "ready"} => stop.at = "idle" /\ destroy.at = "idle"
      /\ snapshot = "stopped" => stop.at = "done" /\ destroy.at = "idle"
  BY DEF SandboxInv, DestructionShown, Untouched, BehindStop
<1>2. files.at = "dirty" => stop.files # "waits" /\ destroy.files # "waits"
  BY DEF WaitInv, NobodyStuck, Awaited
<1>3. ASSUME NEW started, NEW out, FenceAndStop(started, out, files), UNCHANGED destroy
      PROVE  WaitInv'
  BY <1>0, <1>2, <1>3, FencedUnstuck
<1>4. CASE Use
  <2>1. CASE Start
    <3>1. CASE /\ snapshot' = "starting" /\ UNCHANGED <<files, stop, destroy>>
      BY <1>0, <1>1, <2>1, <3>1 DEF Start, WaitInv, NobodyStuck, Awaited
    <3>2. ASSUME NEW started, Stops(Fenced("starting"), started, streams, files), UNCHANGED destroy
          PROVE  WaitInv'
      <4>1. Fenced("starting") = "uncertain" /\ "uncertain" \in Snapshots /\ snapshot = "reserved"
        BY <2>1 DEF Fenced, Snapshots, Start
      <4> QED BY <1>0, <1>2, <3>2, <4>1, StopsUnstuck
    <3> QED BY <2>1, <3>1, <3>2 DEF Start
  <2>2. CASE StartInterrupted \/ ProcessInterrupted \/ FilesInterrupted
    BY <1>3, <2>2 DEF StartInterrupted, ProcessInterrupted, FilesInterrupted
  <2>3. CASE ReserveProcess \/ StartProcess
    BY <2>3 DEF ReserveProcess, StartProcess, WaitInv, NobodyStuck, Awaited
  <2>4. CASE ImportTree \/ EnterLive \/ ExportTree
    BY <1>0, <1>1, <2>4 DEF ImportTree, EnterLive, ExportTree, ComputeStopped, EnterFiles, WaitInv,
       NobodyStuck, Awaited
  <2> QED BY <1>4, <2>1, <2>2, <2>3, <2>4 DEF Use
<1>5. CASE Work
  <2>1. CASE JournalInitialized \/ DriverStarted
    <3>1. /\ snapshot' = snapshot \/ snapshot' = Fenced(snapshot)
             \/ (snapshot = "starting" /\ snapshot' = "ready")
          /\ UNCHANGED <<files, stop, destroy>>
      BY <2>1 DEF JournalInitialized, DriverStarted, StillStarting
    <3> QED BY <1>1, <3>1 DEF Fenced, WaitInv, NobodyStuck, Awaited
  <2>2. CASE ProcessStarted
    BY <1>3, <2>2 DEF ProcessStarted, WaitInv, NobodyStuck, Awaited
  <2>3. CASE StreamsSettle
    BY <2>3 DEF StreamsSettle, WaitInv, NobodyStuck, Awaited
  <2>4. CASE FilesEnd
    <3>1. ASSUME FenceAndStop(startup, streams, NoFiles), UNCHANGED destroy PROVE WaitInv'
      BY <1>0, <3>1, FencedUnstuck
    <3>2. CASE /\ files' = NoFiles /\ (snapshot' = snapshot \/ snapshot' = Fenced(snapshot))
               /\ UNCHANGED <<stop, destroy>>
      BY <1>0, <3>2 DEF Fenced, WaitInv, NobodyStuck, Awaited
    <3> QED BY <2>4, <3>1, <3>2 DEF FilesEnd
  <2>5. CASE FilesEndDirty
    <3>1. CASE files.kind = "live"
      <4> DEFINE next == IF stop.files = "waits" THEN "closing" ELSE "dirty"
                 held == [files EXCEPT !.at = next]
      <4>1. FenceAndStop(startup, streams, held) /\ UNCHANGED destroy
        BY <2>5, <3>1 DEF FilesEndDirty
      <4>2. held \in FilesRecord /\ held.kind = "live" /\ held.at = next
        BY <1>0, <2>5, <3>1 DEF FilesRecord, FilesEndDirty
      <4>3. held.at = "dirty" => stop.files # "waits" /\ destroy.files # "waits"
        BY <3>1, <4>2 DEF WaitInv
      <4> HIDE DEF held
      <4> QED BY <3>1, <4>1, <4>2, <4>3, FencedUnstuck
    <3>2. CASE files.kind # "live"
      <4>1. /\ stop' = Rejected(stop) /\ destroy' = Rejected(destroy)
            /\ snapshot' = snapshot \/ snapshot' = Fenced(snapshot)
        BY <2>5, <3>2 DEF FilesEndDirty
      <4>2. /\ stop'.files # "waits" /\ destroy'.files # "waits"
            /\ stop'.at = stop.at /\ destroy'.at = destroy.at
        BY <1>0, <4>1, StopTypes, DestroyTypes DEF Rejected, StopRecord, DestroyRecord, Joins
      <4>3. /\ snapshot' = "destroying" => snapshot = "destroying"
            /\ snapshot' = "stopping" => snapshot = "stopping"
        BY <4>1 DEF Fenced
      <4> QED BY <4>2, <4>3 DEF WaitInv, NobodyStuck, Awaited
    <3> QED BY <3>1, <3>2
  <2> QED BY <1>5, <2>1, <2>2, <2>3, <2>4, <2>5 DEF Work
<1>6. CASE JournalFails
  BY <1>3, <1>6 DEF JournalFails, Fenced, WaitInv, NobodyStuck, Awaited
<1>7. CASE InfrastructureFails
  BY <1>3, <1>7 DEF InfrastructureFails
<1>8. CASE StreamsFail
  BY <1>0, <1>2, <1>8, StopsUnstuck DEF StreamsFail
<1>9. CASE Stop
  <2>1. Stops(snapshot, startup, streams, files) /\ UNCHANGED destroy
    BY <1>9 DEF Stop, Stops
  <2> QED BY <1>0, <1>2, <2>1, StopsUnstuck
<1>10. CASE Destroy
  <2> DEFINE found == files.kind \in {"import", "export"}
             held == IF found THEN Retried(files) ELSE files
  <2>1. /\ destroy' = [at |-> "stop", files |-> IF found THEN "waits" ELSE "none", wanted |-> TRUE]
        /\ StopFrom("destroying", startup, streams, held) /\ snapshot # "destroyed"
    BY <1>10 DEF Destroy
  <2>2. /\ held \in FilesRecord /\ held.kind = files.kind
        /\ found => held.at # "dirty"
        /\ held.at = "dirty" => files.at = "dirty"
    BY <1>0, FilesTypes DEF Retried, FilesRecord
  <2>3. destroy'.at = "stop" /\ (destroy'.files = "waits" <=> found)
    BY <2>1
  <2>4. Retried(held).at # "dirty" /\ Retried(held).kind = held.kind
    BY <2>2 DEF Retried, FilesRecord
  <2> HIDE DEF held
  <2>5. CASE stop.at # "idle"
    BY <1>2, <2>1, <2>2, <2>3, <2>5 DEF StopFrom, WaitInv, NobodyStuck, Awaited
  <2>6. CASE stop.at = "idle"
    BY <2>1, <2>2, <2>3, <2>4, <2>6 DEF StopFrom, WaitInv, NobodyStuck, Awaited
  <2> QED BY <2>5, <2>6
<1>11. CASE Cleanup
  <2>1. CASE StopFails
    <3>1. /\ stop'.at = "idle" /\ stop'.files = "none" /\ UNCHANGED files
          /\ snapshot' = snapshot => snapshot \in {"destroyed", "destroying", "uncertain"}
          /\ snapshot' = snapshot \/ snapshot' = "uncertain"
      BY <2>1 DEF StopFails, NoStop, Cleans
    <3>2. destroy'.at # "stop" /\ destroy'.files = destroy.files
          /\ (destroy.at # "idle" => destroy'.at # "idle")
      BY <1>0, <2>1 DEF StopFails, DestroyRecord
    <3> QED BY <3>1, <3>2 DEF WaitInv, NobodyStuck, Awaited
  <2>2. CASE DestroyFails
    <3>1. destroy'.at = "idle" /\ destroy'.files = "none" /\ snapshot' = "uncertain"
          /\ UNCHANGED <<files, stop>>
      BY <1>0, <2>2 DEF DestroyFails, DestroyOver, DestroyRecord
    <3> QED BY <3>1 DEF WaitInv, NobodyStuck, Awaited
  <2>3. CASE PhysicalStop
    <3>1. CASE /\ stop.at = "physical" /\ stop' = [stop EXCEPT !.at = "join"]
               /\ UNCHANGED <<snapshot, files, destroy>>
      <4>1. stop'.at = "join" /\ stop'.files = stop.files
        BY <1>0, <3>1 DEF StopRecord
      <4> QED BY <3>1, <4>1 DEF WaitInv, NobodyStuck, Awaited
    <3> QED BY <2>1, <2>3, <3>1 DEF PhysicalStop
  <2>4. CASE JoinWork
    <3>1. stop'.at = "files" /\ stop'.files = stop.files /\ UNCHANGED <<snapshot, files, destroy>>
      BY <1>0, <2>4 DEF JoinWork, StopRecord
    <3> QED BY <3>1 DEF WaitInv, NobodyStuck, Awaited
  <2>5. CASE StopCompletes
    <3>1. CASE /\ stop' = [at |-> "done", files |-> "none"] /\ UNCHANGED <<files, destroy>>
               /\ snapshot' = IF Cleans(snapshot) THEN "stopped" ELSE snapshot
      BY <3>1 DEF Cleans, WaitInv, NobodyStuck, Awaited
    <3> QED BY <2>1, <2>5, <3>1 DEF StopCompletes
  <2>6. CASE FilesClosed
    <3>1. CASE files' = NoFiles /\ UNCHANGED <<stop, destroy, snapshot>>
      BY <1>0, <3>1 DEF WaitInv, NobodyStuck, Awaited
    <3>2. CASE stop' = Rejected(stop) /\ destroy' = Rejected(destroy) /\ UNCHANGED snapshot
      <4>1. /\ stop'.files # "waits" /\ destroy'.files # "waits"
            /\ stop'.at = stop.at /\ destroy'.at = destroy.at
        BY <1>0, <3>2, StopTypes, DestroyTypes DEF Rejected, StopRecord, DestroyRecord, Joins
      <4> QED BY <3>2, <4>1 DEF WaitInv, NobodyStuck, Awaited
    <3> QED BY <2>6, <3>1, <3>2 DEF FilesClosed
  <2>7. CASE DestroyRejected
    BY <2>2, <2>7 DEF DestroyRejected
  <2>8. CASE ComputeGone
    <3>1. destroy'.at = "files" /\ destroy'.files = destroy.files /\ UNCHANGED <<snapshot, files, stop>>
      BY <1>0, <2>8 DEF ComputeGone, DestroyRecord
    <3> QED BY <3>1 DEF WaitInv, NobodyStuck, Awaited
  <2>9. CASE EnterDestroy
    <3>1. CASE /\ destroy' = [destroy EXCEPT !.at = "driver", !.files = "none"]
               /\ UNCHANGED <<snapshot, files, stop>>
      <4>1. destroy'.at = "driver" /\ destroy'.files = "none"
        BY <1>0, <3>1 DEF DestroyRecord
      <4> QED BY <3>1, <4>1 DEF WaitInv, NobodyStuck, Awaited
    <3> QED BY <2>2, <2>9, <3>1 DEF EnterDestroy
  <2>10. CASE DriverDestroyed
    <3>1. CASE snapshot' = "destroyed" /\ destroy' = DestroyOver /\ UNCHANGED <<files, stop>>
      <4>1. destroy'.at = "idle" /\ destroy'.files = "none"
        BY <1>0, <3>1 DEF DestroyOver, DestroyRecord
      <4> QED BY <3>1, <4>1 DEF WaitInv, NobodyStuck, Awaited
    <3> QED BY <2>2, <2>10, <3>1 DEF DriverDestroyed
  <2> QED BY <1>11, <2>3, <2>4, <2>5, <2>6, <2>7, <2>8, <2>9, <2>10 DEF Cleanup
<1> QED BY <1>4, <1>5, <1>6, <1>7, <1>8, <1>9, <1>10, <1>11 DEF SandboxNext

\* Nobody waits for somebody who has given up (sandbox owner.ts, stop, destroy and the cleanup of
\* files): the safety half of DestroyCompletes, for any number of failures and retries.
THEOREM NeverStuck == SandboxSpec => []NobodyStuck
<1>1. SandboxInit => WaitInv
  BY DEF SandboxInit, WaitInv, NobodyStuck, Awaited, NoStop, NoFiles
<1>2. SandboxInv /\ WaitInv /\ [SandboxNext]_sandboxVars => WaitInv'
  <2>1. CASE UNCHANGED sandboxVars
    BY <2>1 DEF sandboxVars, WaitInv, NobodyStuck, Awaited
  <2> QED BY <2>1, StepsUnstuck
<1>3. WaitInv => NobodyStuck
  BY DEF WaitInv
<1> QED BY <1>1, <1>2, <1>3, SandboxInvariant, PTL DEF SandboxSpec

================================================================================
