----------------------------- MODULE CameraHelper -----------------------------
(***************************************************************************)
(* The camera of the Android client: CameraHelper.kt and the part of       *)
(* MainActivity.kt that drives it.  Everything here but the analyzer runs  *)
(* on the Java main thread, as tasks of its queue.  The native thread      *)
(* posts "open" and "close"; opening asks CameraX for a provider and gets  *)
(* it in a "start" task of its own, so that a close may come in between.   *)
(*                                                                         *)
(* CameraX is external: when the provider is ready it posts the listener,  *)
(* and a bound analysis hands it one picture at a time while the activity  *)
(* is visible.                                                             *)
(***************************************************************************)
EXTENDS Naturals, Sequences

CONSTANTS MaxTasks,     \* bound: tasks posted and listeners waiting
          MaxRunning    \* bound: analyzers running on all executors

ASSUME CameraAssumption == MaxTasks \in Nat /\ MaxRunning \in Nat

VARIABLES
  life,       \* the activity's Lifecycle
  permission, \* of the user, to use the camera
  tasks,      \* the queue of the Java main thread
  listeners,  \* openCamera() calls whose provider is not ready yet
  executor,   \* cameraExecutor # null; it has not been shut down then
  analysis,   \* imageAnalysis # null
  provider,   \* cameraProvider # null
  bound,      \* the analysis gets pictures, on cameraExecutor
  analyzing,  \* cameraExecutor runs the analyzer
  late,       \* analyzers still running on executors that were shut down
  crash       \* what ended the process, or "none"

helperVars == <<permission, tasks, listeners, executor, analysis, provider,
                bound, analyzing, late>>

(* What a new CameraHelper has, and the call of openCamera() in onCreate() *)
(* when the permission is there already.                                   *)
NewHelper ==
  /\ \E p \in {"asked", "granted"} : /\ permission' = p
                                     /\ listeners' = IF p = "granted" THEN 1 ELSE 0
  /\ tasks' = <<>>
  /\ executor' = TRUE
  /\ analysis' = FALSE
  /\ provider' = FALSE
  /\ bound' = FALSE

HelperInit == /\ life = "created"
              /\ permission \in {"asked", "granted"}
              /\ tasks = <<>>
              /\ listeners = IF permission = "granted" THEN 1 ELSE 0
              /\ executor = TRUE
              /\ analysis = FALSE
              /\ provider = FALSE
              /\ bound = FALSE
              /\ analyzing = FALSE
              /\ late = 0
              /\ crash = "none"

-----------------------------------------------------------------------------
(* Tasks of the Java main thread.                                          *)

(* runOnUiThread { ... }, from the native thread. *)
Post(task) ==
  /\ Len(tasks) + listeners < MaxTasks
  /\ tasks' = Append(tasks, task)
  /\ UNCHANGED <<permission, listeners, executor, analysis, provider, bound,
                 analyzing, late>>

(* openCamera(): without the permission, nothing. *)
OpenCamera ==
  IF permission # "granted" THEN UNCHANGED <<executor, listeners>>
  ELSE /\ executor' = TRUE
       /\ listeners' = listeners + 1

Open == /\ tasks # <<>> /\ Head(tasks) = "open"
        /\ tasks' = Tail(tasks)
        /\ OpenCamera
        /\ UNCHANGED <<permission, analysis, provider, bound, analyzing, late,
                       crash>>

(* onRequestPermissionsResult() *)
PermissionResult ==
  /\ permission = "asked"
  /\ \/ /\ permission' = "denied"
        /\ UNCHANGED <<executor, listeners>>
     \/ /\ permission' = "granted"
        /\ executor' = TRUE
        /\ listeners' = listeners + 1
  /\ UNCHANGED <<tasks, analysis, provider, bound, analyzing, late, crash>>

(* The provider is ready: its listener is a task of the main thread. *)
ProviderReady ==
  /\ listeners > 0
  /\ listeners' = listeners - 1
  /\ tasks' = Append(tasks, "start")
  /\ UNCHANGED <<permission, executor, analysis, provider, bound, analyzing,
                 late, crash>>

(* startCamera(): cameraExecutor!! throws when a close has come between.   *)
StartCamera ==
  /\ tasks # <<>> /\ Head(tasks) = "start"
  /\ tasks' = Tail(tasks)
  /\ provider' = TRUE
  /\ analysis' = TRUE
  /\ IF executor THEN bound' = TRUE /\ UNCHANGED crash
     ELSE crash' = "executor" /\ UNCHANGED bound
  /\ UNCHANGED <<permission, listeners, executor, analyzing, late>>

(* Mutant: the provider keeps the analysis bound. *)
CloseCameraStillBound ==
  /\ tasks # <<>> /\ Head(tasks) = "close"
  /\ tasks' = Tail(tasks)
  /\ executor' = FALSE
  /\ analysis' = FALSE
  /\ provider' = FALSE
  /\ analyzing' = FALSE
  /\ late' = IF analyzing THEN late + 1 ELSE late
  /\ UNCHANGED <<permission, listeners, bound, crash>>

(* closeCamera(): shutdown() lets an analyzer that runs come to its end.   *)
CloseCamera ==
  /\ tasks # <<>> /\ Head(tasks) = "close"
  /\ tasks' = Tail(tasks)
  /\ executor' = FALSE
  /\ analysis' = FALSE
  /\ provider' = FALSE
  /\ bound' = FALSE
  /\ analyzing' = FALSE
  /\ late' = IF analyzing THEN late + 1 ELSE late
  /\ UNCHANGED <<permission, listeners, crash>>

MainTask == Open \/ StartCamera \/ CloseCamera

-----------------------------------------------------------------------------
(* The executor's thread.                                                  *)

Running == late + (IF analyzing THEN 1 ELSE 0)

(* CameraX hands a picture to the analyzer, one at a time. *)
Deliver ==
  /\ bound /\ life = "started" /\ ~ analyzing
  /\ Running < MaxRunning
  /\ analyzing' = TRUE
  /\ UNCHANGED <<permission, tasks, listeners, executor, analysis, provider,
                 bound, late, crash>>

(* An analyzer, of this executor or of one that was shut down, is done. *)
AnalyzerEnds ==
  \/ /\ analyzing
     /\ analyzing' = FALSE
     /\ UNCHANGED <<permission, tasks, listeners, executor, analysis, provider,
                    bound, late>>
  \/ /\ late > 0
     /\ late' = late - 1
     /\ UNCHANGED <<permission, tasks, listeners, executor, analysis, provider,
                    bound, analyzing>>

-----------------------------------------------------------------------------
(* Properties.                                                             *)

HelperTypeOK ==
  /\ life \in {"created", "started", "destroyed"}
  /\ permission \in {"asked", "granted", "denied"}
  /\ tasks \in Seq({"open", "close", "start"})
  /\ listeners \in Nat
  /\ executor \in BOOLEAN
  /\ analysis \in BOOLEAN
  /\ provider \in BOOLEAN
  /\ bound \in BOOLEAN
  /\ analyzing \in BOOLEAN
  /\ late \in Nat
  /\ crash \in {"none", "executor", "logger"}

(* A listener that has not run yet will start the camera. *)
Starting == listeners > 0 \/ \E i \in 1 .. Len(tasks) : tasks[i] = "start"

(* A picture is only ever handed to an executor that takes it, and what    *)
(* close must undo is there to be undone.                                  *)
BoundIsComplete == /\ bound => executor /\ analysis /\ provider
                   /\ analyzing => executor

(* Open and close do not get lost or mixed up: when every listener has     *)
(* run, the camera delivers pictures if and only if it was not closed      *)
(* after it was last opened.                                               *)
CameraFollowsRequests ==
  crash = "none" /\ permission = "granted" /\ ~ Starting => (executor <=> bound)
=============================================================================
