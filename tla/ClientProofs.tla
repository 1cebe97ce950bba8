----------------------------- MODULE ClientProofs -----------------------------
(* The client's inductive invariant, part by part, and the action          *)
(* properties that follow from it: for any number of frames, queued tasks  *)
(* and analyzers.                                                          *)
EXTENDS Client, TLAPS

-----------------------------------------------------------------------------
(* The loop.                                                               *)

LEMMA LoopInitIInv == LoopInit => LoopIInv
<1> SUFFICES ASSUME LoopInit PROVE LoopIInv
  OBVIOUS
<1> USE FramesAssumption DEF LoopInit, NoWorker, Results
<1>1. LoopTypeOK
  BY DEF LoopTypeOK
<1>2. BusyIsWorker /\ MutexIsHeld
  BY DEF BusyIsWorker, MutexIsHeld
<1>3. FramesAreOwned /\ ResponseHidesCamera
  BY DEF FramesAreOwned, ResponseHidesCamera
<1>4. ReadsUpright /\ ShownIsPast
  BY DEF ReadsUpright, ShownIsPast
<1> QED
  BY <1>1, <1>2, <1>3, <1>4 DEF LoopIInv

(* A new frame is an object that nobody owns. *)
LEMMA NewFrameIsFresh ==
  LoadNewFrame => /\ sink' \in Frames
                  /\ sink' \notin Owned
                  /\ sink' # shown
BY DEF LoadNewFrame

(* Every step of the loop keeps its invariant. *)
LEMMA LoopStep == LoopIInv /\ [LoopNext]_loopVars => LoopIInv'
<1> SUFFICES ASSUME LoopIInv, [LoopNext]_loopVars
             PROVE  LoopIInv'
  OBVIOUS
<1> USE FramesAssumption
    DEF LoopIInv, LoopTypeOK, BusyIsWorker, MutexIsHeld, FramesAreOwned,
        ResponseHidesCamera, ReadsUpright, ShownIsPast, Results
<1>1. CASE LoadNewFrame
  <2>1. sink' \in Frames /\ sink' \notin Owned /\ sink' # shown
    BY <1>1, NewFrameIsFresh
  <2>2. UNCHANGED <<showCamera, getResponse, lastResult, busy, mutex, draw,
                    worker, shown>>
        /\ vertical' = vertical \cap Owned
    BY <1>1 DEF LoadNewFrame
  <2>3. LoopTypeOK'
    BY <2>1, <2>2
  <2>4. ReadsUpright'
    BY <2>2 DEF Owned
  <2>5. ShownIsPast'
    BY <2>1, <2>2
  <2> QED
    BY <2>2, <2>3, <2>4, <2>5
<1>2. CASE DrawCamera
  <2> USE <1>2 DEF DrawCamera
  <2>1. sink \in Frames /\ draw'.frame = sink /\ draw'.at = "lock"
    OBVIOUS
  <2>2. CASE busy
    BY <2>1, <2>2
  <2>3. CASE ~ busy
    <3>1. PICK rotateImg \in BOOLEAN :
            /\ vertical' = IF rotateImg THEN vertical \cup {sink} ELSE vertical
            /\ busy' = TRUE
            /\ worker' = [at |-> "read", frame |-> sink,
                          rotated |-> rotateImg, code |-> "none"]
      BY <2>3 DEF Reading
    <3> HIDE DEF DrawCamera
    <3>2. UNCHANGED <<sink, showCamera, getResponse, lastResult, mutex, shown>>
          /\ draw' = [at |-> "lock", frame |-> sink] /\ showCamera
          /\ draw.at = "out"
      BY DEF DrawCamera
    <3>3. LoopTypeOK'
      BY <2>1, <3>1, <3>2
    <3>4. BusyIsWorker' /\ MutexIsHeld' /\ FramesAreOwned'
      BY <2>1, <2>3, <3>1, <3>2
    <3>5. ResponseHidesCamera' /\ ReadsUpright' /\ ShownIsPast'
      BY <2>1, <3>1, <3>2
    <3> QED
      BY <3>3, <3>4, <3>5
  <2> QED
    BY <2>2, <2>3
<1>3. CASE DrawNoCamera
  BY <1>3 DEF DrawNoCamera
<1>4. CASE LookAtResult
  BY <1>4 DEF LookAtResult
<1>5. CASE Answered
  BY <1>5 DEF Answered
<1>6. CASE ShowPicture
  BY <1>6 DEF ShowPicture
<1>7. CASE NoButton
  BY <1>7 DEF NoButton
<1>8. CASE TurnOff
  <2>1. LoopTypeOK'
    BY <1>8 DEF TurnOff
  <2>2. BusyIsWorker' /\ MutexIsHeld' /\ FramesAreOwned'
    BY <1>8 DEF TurnOff
  <2>3. ResponseHidesCamera' /\ ReadsUpright' /\ ShownIsPast'
    BY <1>8 DEF TurnOff
  <2> QED
    BY <2>1, <2>2, <2>3
<1>9. CASE TurnOn
  <2>1. /\ UNCHANGED <<sink, vertical, busy, mutex, shown>>
        /\ draw' = [draw EXCEPT !.at = "out"]
        /\ draw.at = "buttons" /\ lastResult' = "none"
        /\ showCamera' = TRUE /\ getResponse' = FALSE
    BY <1>9 DEF TurnOn
  <2>2. \E c \in Results : worker' = [worker EXCEPT !.code = c]
    <3>1. CASE worker.at = "store" /\ worker.code # "none"
      BY <1>9, <3>1 DEF TurnOn
    <3>2. CASE ~ (worker.at = "store" /\ worker.code # "none")
      <4>1. worker' = [worker EXCEPT !.code = worker.code]
        BY <1>9, <3>2 DEF TurnOn
      <4> QED
        BY <4>1
    <3> QED
      BY <3>1, <3>2
  <2> QED
    BY <2>1, <2>2
<1>10. CASE CopyFrame
  BY <1>10 DEF CopyFrame
<1>11. CASE Detect
  BY <1>11 DEF Detect
<1>12. CASE Decode
  BY <1>12 DEF Decode
<1>13. CASE StoreResult
  BY <1>13 DEF StoreResult
<1>14. CASE Finish
  BY <1>14 DEF Finish, NoWorker
<1>15. CASE UNCHANGED loopVars
  BY <1>15 DEF loopVars
<1> QED
  BY <1>1, <1>2, <1>3, <1>4, <1>5, <1>6, <1>7, <1>8, <1>9, <1>10, <1>11,
     <1>12, <1>13, <1>14, <1>15
  DEF LoopNext, StartDraw, Draw, Recognise

-----------------------------------------------------------------------------
(* The camera.                                                             *)

HelperIInv == HelperTypeOK /\ BoundIsComplete /\ CameraFollowsRequests

LEMMA HelperInitIInv == HelperInit => HelperIInv
<1> SUFFICES ASSUME HelperInit PROVE HelperIInv
  OBVIOUS
<1> USE DEF HelperInit
<1>1. HelperTypeOK
  <2>1. tasks \in Seq({"open", "close", "start"})
    OBVIOUS
  <2>2. listeners \in Nat /\ late \in Nat
    OBVIOUS
  <2> QED
    BY <2>1, <2>2 DEF HelperTypeOK
<1>2. BoundIsComplete
  BY DEF BoundIsComplete
<1>3. CameraFollowsRequests
  BY DEF CameraFollowsRequests, Starting
<1> QED
  BY <1>1, <1>2, <1>3 DEF HelperIInv

(* What a posted task, and a task that is taken, mean for the listeners.   *)
LEMMA StartingAfterAppend ==
  ASSUME tasks \in Seq({"open", "close", "start"}),
         NEW task \in {"open", "close", "start"},
         tasks' = Append(tasks, task)
  PROVE  /\ tasks' \in Seq({"open", "close", "start"})
         /\ (\E i \in 1 .. Len(tasks) : tasks[i] = "start")
            => \E i \in 1 .. Len(tasks') : tasks'[i] = "start"
         /\ task = "start" => \E i \in 1 .. Len(tasks') : tasks'[i] = "start"
<1>1. Len(tasks') = Len(tasks) + 1 /\ Len(tasks) \in Nat
  OBVIOUS
<1>2. tasks'[Len(tasks) + 1] = task
  OBVIOUS
<1>3. \A i \in 1 .. Len(tasks) : tasks'[i] = tasks[i] /\ i \in 1 .. Len(tasks')
  BY <1>1
<1>4. Len(tasks) + 1 \in 1 .. Len(tasks')
  BY <1>1
<1> QED
  BY <1>2, <1>3, <1>4

LEMMA StartingAfterTail ==
  ASSUME tasks \in Seq({"open", "close", "start"}), tasks # <<>>,
         tasks' = Tail(tasks)
  PROVE  /\ tasks' \in Seq({"open", "close", "start"})
         /\ Head(tasks) # "start"
            /\ (\E i \in 1 .. Len(tasks) : tasks[i] = "start")
            => \E i \in 1 .. Len(tasks') : tasks'[i] = "start"
<1>1. Len(tasks') = Len(tasks) - 1 /\ Len(tasks) \in Nat \ {0}
  OBVIOUS
<1>2. SUFFICES ASSUME Head(tasks) # "start",
                      NEW i \in 1 .. Len(tasks), tasks[i] = "start"
               PROVE  \E j \in 1 .. Len(tasks') : tasks'[j] = "start"
  OBVIOUS
<1>3. i # 1
  BY <1>2
<1>4. i - 1 \in 1 .. Len(tasks') /\ tasks'[i - 1] = tasks[i]
  BY <1>1, <1>3
<1> QED
  BY <1>2, <1>4

(* The steps of the camera, alone or as a part of a step of the client.    *)
HelperStep ==
  \/ \E task \in {"open", "close"} : Post(task) /\ UNCHANGED crash
  \/ MainTask
  \/ PermissionResult
  \/ ProviderReady
  \/ Deliver
  \/ AnalyzerEnds /\ crash' \in {"none", "logger"}
  \/ UNCHANGED helperVars /\ crash' \in {crash, "logger"}

LEMMA HelperKeepsIInv ==
  ASSUME HelperIInv, HelperStep, crash = "none",
         life' \in {"created", "started", "destroyed"}
  PROVE  HelperIInv'
<1> USE DEF HelperIInv, HelperTypeOK, BoundIsComplete, CameraFollowsRequests
<1>1. ASSUME NEW task \in {"open", "close"}, Post(task), UNCHANGED crash
      PROVE  HelperIInv'
  <2>1. tasks' = Append(tasks, task)
    BY <1>1 DEF Post
  <2>2. tasks' \in Seq({"open", "close", "start"}) /\ (Starting => Starting')
    BY <1>1, <2>1, StartingAfterAppend DEF Post, Starting
  <2> QED
    BY <1>1, <2>2 DEF Post
<1>2. CASE Open
  <2>0. tasks # <<>> /\ tasks' = Tail(tasks) /\ Head(tasks) # "start"
    BY <1>2 DEF Open
  <2> HIDE DEF HelperIInv, BoundIsComplete, CameraFollowsRequests
  <2>1. tasks' \in Seq({"open", "close", "start"})
    BY <2>0, StartingAfterTail DEF HelperIInv
  <2> USE DEF HelperIInv, BoundIsComplete, CameraFollowsRequests
  <2>2. CASE permission = "granted"
    <3>1. Starting'
      BY <1>2, <2>2 DEF Open, OpenCamera, Starting
    <3> QED
      BY <1>2, <2>1, <2>2, <3>1 DEF Open, OpenCamera
  <2>3. CASE permission # "granted"
    BY <1>2, <2>1, <2>3 DEF Open, OpenCamera
  <2> QED
    BY <2>2, <2>3
<1>3. CASE StartCamera
  <2>0. tasks # <<>> /\ tasks' = Tail(tasks)
    BY <1>3 DEF StartCamera
  <2> HIDE DEF HelperIInv, BoundIsComplete, CameraFollowsRequests
  <2>1. tasks' \in Seq({"open", "close", "start"})
    BY <2>0, StartingAfterTail DEF HelperIInv
  <2> USE DEF HelperIInv, BoundIsComplete, CameraFollowsRequests
  <2>2. CASE executor
    BY <1>3, <2>1, <2>2 DEF StartCamera
  <2>3. CASE ~ executor
    BY <1>3, <2>1, <2>3 DEF StartCamera
  <2> QED
    BY <2>2, <2>3
<1>4. CASE CloseCamera
  <2>1. tasks' \in Seq({"open", "close", "start"})
    BY <1>4, StartingAfterTail DEF CloseCamera
  <2>2. late' \in Nat
    BY <1>4 DEF CloseCamera
  <2>7. HelperTypeOK'
    <3> UNCHANGED <<permission, listeners, crash>>
        /\ executor' = FALSE /\ analysis' = FALSE /\ provider' = FALSE
        /\ bound' = FALSE /\ analyzing' = FALSE
      BY <1>4 DEF CloseCamera
    <3> QED
      BY <2>1, <2>2
  <2>8. BoundIsComplete'
    BY <1>4, <2>1 DEF CloseCamera
  <2>9. CameraFollowsRequests'
    BY <1>4, <2>1 DEF CloseCamera, Starting
  <2> QED
    BY <2>7, <2>8, <2>9
<1>5. CASE PermissionResult
  <2>1. permission' = "granted" => Starting'
    BY <1>5 DEF PermissionResult, Starting
  <2>7. HelperTypeOK'
    <3>1. permission' \in {"granted", "denied"}
          /\ executor' \in {executor, TRUE}
          /\ listeners' \in {listeners, listeners + 1}
      <4> HIDE DEF HelperIInv
      <4> QED
        BY <1>5 DEF PermissionResult
    <3>2. UNCHANGED <<tasks, analysis, provider, bound, analyzing, late, crash>>
      BY <1>5 DEF PermissionResult
    <3>3. listeners' \in Nat
      BY <3>1
    <3>4. executor' \in BOOLEAN
      BY <3>1
    <3> QED
      BY <3>1, <3>2, <3>3, <3>4
  <2>8. BoundIsComplete'
    BY <1>5, <2>1 DEF PermissionResult
  <2>9. CameraFollowsRequests'
    BY <1>5, <2>1 DEF PermissionResult, Starting
  <2> QED
    BY <2>7, <2>8, <2>9
<1>6. CASE ProviderReady
  <2>1. tasks' = Append(tasks, "start")
    BY <1>6 DEF ProviderReady
  <2>2. tasks' \in Seq({"open", "close", "start"}) /\ Starting'
    BY <2>1, StartingAfterAppend DEF Starting
  <2> QED
    BY <1>6, <2>2 DEF ProviderReady
<1>7. CASE Deliver
  <2>7. HelperTypeOK'
    BY <1>7 DEF Deliver
  <2>8. BoundIsComplete'
    BY <1>7 DEF Deliver
  <2>9. CameraFollowsRequests'
    BY <1>7 DEF Deliver, Starting
  <2> QED
    BY <2>7, <2>8, <2>9
<1>8. CASE AnalyzerEnds /\ crash' \in {"none", "logger"}
  <2>7. HelperTypeOK'
    <3>1. late' \in Nat /\ analyzing' \in BOOLEAN
      <4>1. CASE analyzing /\ analyzing' = FALSE /\ late' = late
        BY <4>1
      <4>2. CASE late > 0 /\ late' = late - 1 /\ analyzing' = analyzing
        BY <4>2
      <4> QED
        BY <1>8, <4>1, <4>2 DEF AnalyzerEnds
    <3>2. UNCHANGED <<permission, tasks, listeners, executor, analysis, provider,
                      bound>>
      BY <1>8 DEF AnalyzerEnds
    <3> QED
      BY <1>8, <3>1, <3>2
  <2>8. BoundIsComplete'
    BY <1>8 DEF AnalyzerEnds
  <2>9. CameraFollowsRequests'
    BY <1>8 DEF AnalyzerEnds, Starting
  <2> QED
    BY <2>7, <2>8, <2>9
<1>9. CASE UNCHANGED helperVars /\ crash' \in {crash, "logger"}
  BY <1>9 DEF helperVars, Starting
<1> QED
  BY <1>1, <1>2, <1>3, <1>4, <1>5, <1>6, <1>7, <1>8, <1>9
  DEF HelperStep, MainTask

-----------------------------------------------------------------------------
(* The client: the loop and the camera keep their invariants in it.        *)

ActivityTypeOK == /\ surface \in BOOLEAN
                  /\ cmd \in {"none", "INIT_WINDOW", "TERM_WINDOW", "DESTROY"}
                  /\ initialized \in BOOLEAN
                  /\ logger \in {"default", "android", "none"}
                  /\ thread \in {"running", "returned"}

(* The invariant is the invariants of the parts. *)
LEMMA PartsOfIInv ==
  ClientIInv <=> /\ LoopIInv /\ HelperIInv
                 /\ ActivityTypeOK /\ DrawsIntoWindow /\ CommandsFit
BY DEF ClientIInv, TypeOK, LoopIInv, HelperIInv, ActivityTypeOK

LEMMA InitIInv == Init => ClientIInv
<1> SUFFICES ASSUME Init PROVE ClientIInv
  OBVIOUS
<1>1. LoopIInv
  BY LoopInitIInv DEF Init
<1>2. HelperIInv
  BY HelperInitIInv DEF Init
<1>3. ActivityTypeOK /\ DrawsIntoWindow /\ CommandsFit
  BY DEF Init, LoopInit, HelperInit, ActivityTypeOK, DrawsIntoWindow,
         CommandsFit
<1> QED
  BY <1>1, <1>2, <1>3, PartsOfIInv

(* Every step of the client is a step of the loop or none.                 *)
LEMMA ClientStepsLoop == [Next]_vars => [LoopNext]_loopVars
<1> SUFFICES ASSUME [Next]_vars PROVE [LoopNext]_loopVars
  OBVIOUS
<1>1. CASE NativeThread
  BY <1>1 DEF NativeThread, InitWindow, TermWindow, Destroy, DrawStep, DrawOn,
              LoopNext
<1>2. CASE Buttons \/ Recognition
  BY <1>2 DEF Buttons, Recognition, LoopNext
<1>3. CASE LifeCycle
  BY <1>3 DEF LifeCycle, OnStart, SurfaceCreated, OnStop, SurfaceDestroyed,
              OnDestroy, OnDestroyEnds, Relaunch
<1>4. CASE CameraTask \/ Permission \/ Provider \/ Picture
  BY <1>4 DEF CameraTask, Permission, Provider, Picture
<1>5. CASE OnImageAvailable
  BY <1>5 DEF OnImageAvailable, LoopNext
<1>6. CASE UNCHANGED vars
  BY <1>6 DEF vars
<1> QED
  BY <1>1, <1>2, <1>3, <1>4, <1>5, <1>6 DEF Next

(* A new activity has a new helper; its old one's analyzers still run.     *)
LEMMA RelaunchKeepsHelper ==
  ASSUME HelperIInv, Relaunch, crash = "none"
  PROVE  HelperIInv'
<1>1. CASE logger = "none"
  <2>1. UNCHANGED <<helperVars, life>> /\ crash' = "logger"
    BY <1>1 DEF Relaunch
  <2>2. HelperStep /\ life' \in {"created", "started", "destroyed"}
    BY <2>1 DEF HelperStep, HelperIInv, HelperTypeOK
  <2> QED
    BY <2>2, HelperKeepsIInv
<1>2. CASE logger # "none"
  <2>1. NewHelper /\ analyzing' = FALSE /\ late' = Running
        /\ life' = "created" /\ UNCHANGED crash
    BY <1>2 DEF Relaunch
  <2>2. late' \in Nat
    BY <2>1 DEF Running, HelperIInv, HelperTypeOK
  <2>3. /\ permission' \in {"asked", "granted"}
        /\ listeners' \in Nat
        /\ permission' = "granted" => listeners' = 1
        /\ tasks' = <<>> /\ executor' = TRUE
        /\ analysis' = FALSE /\ provider' = FALSE /\ bound' = FALSE
    BY <2>1 DEF NewHelper
  <2>4. tasks' \in Seq({"open", "close", "start"})
    BY <2>3
  <2>5. HelperTypeOK'
    BY <2>1, <2>2, <2>3, <2>4 DEF HelperTypeOK, HelperIInv
  <2>6. BoundIsComplete'
    BY <2>1, <2>3 DEF BoundIsComplete
  <2>7. CameraFollowsRequests'
    BY <2>3 DEF CameraFollowsRequests, Starting
  <2> QED
    BY <2>5, <2>6, <2>7 DEF HelperIInv
<1> QED
  BY <1>1, <1>2

LEMMA ClientKeepsHelper ==
  ASSUME HelperIInv, [Next]_vars
  PROVE  HelperIInv'
<1> DEFINE Lifes == {"created", "started", "destroyed"}
<1>0. life \in Lifes
  BY DEF HelperIInv, HelperTypeOK
<1>1. CASE NativeThread \/ Recognition
  <2>1. UNCHANGED <<helperVars, life, crash>>
    BY <1>1 DEF NativeThread, InitWindow, TermWindow, Destroy, DrawStep,
                DrawOn, Recognition
  <2> QED
    BY <2>1 DEF helperVars, HelperIInv, HelperTypeOK, BoundIsComplete,
                CameraFollowsRequests, Starting
<1>2. CASE crash = "none" /\ Buttons
  <2>1. HelperStep /\ life' \in Lifes
    BY <1>0, <1>2 DEF Buttons, HelperStep
  <2> QED
    BY <1>2, <2>1, HelperKeepsIInv
<1>3. CASE crash = "none" /\ LifeCycle
  <2>1. CASE Relaunch
    BY <1>3, <2>1, RelaunchKeepsHelper
  <2>2. CASE ~ Relaunch
    <3>1. HelperStep /\ life' \in Lifes
      BY <1>0, <1>3, <2>2
      DEF LifeCycle, OnStart, SurfaceCreated, OnStop, SurfaceDestroyed,
          OnDestroy, OnDestroyEnds, HelperStep
    <3> QED
      BY <1>3, <3>1, HelperKeepsIInv
  <2> QED
    BY <2>1, <2>2
<1>4. CASE crash = "none" /\ (CameraTask \/ Permission \/ Provider \/ Picture)
  <2>1. HelperStep /\ life' \in Lifes
    BY <1>0, <1>4 DEF CameraTask, Permission, Provider, Picture, HelperStep
  <2> QED
    BY <1>4, <2>1, HelperKeepsIInv
<1>5. CASE crash = "none" /\ OnImageAvailable
  <2>1. HelperStep /\ life' \in Lifes
    BY <1>0, <1>5 DEF OnImageAvailable, HelperStep
  <2> QED
    BY <1>5, <2>1, HelperKeepsIInv
<1>6. CASE UNCHANGED vars
  BY <1>6 DEF vars, helperVars, HelperIInv, HelperTypeOK, BoundIsComplete,
              CameraFollowsRequests, Starting
<1> QED
  BY <1>1, <1>2, <1>3, <1>4, <1>5, <1>6 DEF Next

(* The window and the commands.                                            *)
LEMMA ClientKeepsWindow ==
  ASSUME ActivityTypeOK, DrawsIntoWindow, CommandsFit, [Next]_vars
  PROVE  ActivityTypeOK' /\ DrawsIntoWindow' /\ CommandsFit'
<1> USE DEF ActivityTypeOK, DrawsIntoWindow, CommandsFit
<1>1. CASE crash = "none" /\ InitWindow
  <2>1. initialized' = TRUE /\ logger' = "android"
    BY <1>1 DEF InitWindow
  <2>2. /\ cmd = "INIT_WINDOW" /\ cmd' = "none"
        /\ draw.at = "out" /\ UNCHANGED <<draw, thread, crash, surface>>
    BY <1>1 DEF InitWindow, loopVars
  <2> QED
    BY <1>1, <2>1, <2>2
<1>2. CASE TermWindow
  <2>1. /\ initialized' = FALSE
        /\ logger' \in {logger, "none"}
    BY <1>2 DEF TermWindow
  <2>2. /\ cmd' = "none" /\ surface' = FALSE
        /\ draw.at = "out" /\ UNCHANGED <<draw, thread, crash>>
    BY <1>2 DEF TermWindow, loopVars
  <2> QED
    BY <2>1, <2>2
<1>3. CASE Destroy
  BY <1>3 DEF Destroy, loopVars
<1>4. CASE DrawStep
  BY <1>4 DEF DrawStep, activityVars
<1>5. CASE DrawOn
  <2>1. UNCHANGED <<crash, cmd, surface, initialized, logger, thread>>
    BY <1>5 DEF DrawOn, activityVars
  <2>2. draw.at # "out"
    BY <1>5 DEF DrawOn, Draw, LookAtResult, Answered, ShowPicture, NoButton
  <2> QED
    BY <2>1, <2>2
<1>6. CASE Buttons
  BY <1>6 DEF Buttons, TurnOff, TurnOn, activityVars
<1>7. CASE Recognition
  BY <1>7 DEF Recognition, Recognise, CopyFrame, Detect, Decode, StoreResult,
              Finish, activityVars
<1>8. CASE crash = "none" /\ LifeCycle
  <2>1. CASE OnStart \/ OnStop \/ OnDestroyEnds
    BY <2>1 DEF OnStart, OnStop, OnDestroyEnds, loopVars, activityVars
  <2>2. CASE SurfaceCreated
    BY <2>2 DEF SurfaceCreated, MainThreadRuns, loopVars
  <2>3. CASE SurfaceDestroyed
    BY <2>3 DEF SurfaceDestroyed, MainThreadRuns, loopVars, activityVars
  <2>4. CASE OnDestroy
    BY <2>4 DEF OnDestroy, MainThreadRuns, loopVars, activityVars
  <2>5. CASE Relaunch
    BY <1>8, <2>5 DEF Relaunch, loopVars, activityVars
  <2> QED
    BY <1>8, <2>1, <2>2, <2>3, <2>4, <2>5 DEF LifeCycle
<1>9. CASE CameraTask \/ Permission \/ Provider \/ Picture
  <2>1. UNCHANGED <<draw, cmd, surface, initialized, logger, thread>>
    BY <1>9 DEF CameraTask, Permission, Provider, Picture, loopVars,
                activityVars
  <2>2. crash' \in {crash, "executor"}
    BY <1>9 DEF CameraTask, MainTask, Open, StartCamera, CloseCamera,
                Permission, PermissionResult, Provider, ProviderReady, Picture,
                Deliver
  <2> QED
    BY <2>1, <2>2
<1>10. CASE OnImageAvailable
  BY <1>10 DEF OnImageAvailable, LoadNewFrame, loopVars, activityVars
<1>11. CASE UNCHANGED vars
  BY <1>11 DEF vars, loopVars, activityVars
<1> QED
  BY <1>1, <1>2, <1>3, <1>4, <1>5, <1>6, <1>7, <1>8, <1>9, <1>10, <1>11
  DEF Next, NativeThread

(* The inductive invariant holds of every reachable state of the client.   *)
THEOREM InductiveInvariant == Spec => []ClientIInv
<1>1. Init => ClientIInv
  BY InitIInv
<1>2. ClientIInv /\ [Next]_vars => ClientIInv'
  <2> SUFFICES ASSUME ClientIInv, [Next]_vars PROVE ClientIInv'
    OBVIOUS
  <2>1. LoopIInv'
    BY PartsOfIInv, ClientStepsLoop, LoopStep
  <2>2. HelperIInv'
    BY PartsOfIInv, ClientKeepsHelper
  <2>3. ActivityTypeOK' /\ DrawsIntoWindow' /\ CommandsFit'
    BY PartsOfIInv, ClientKeepsWindow
  <2> QED
    BY <2>1, <2>2, <2>3
    DEF ClientIInv, TypeOK, LoopIInv, HelperIInv, ActivityTypeOK
<1> QED
  BY <1>1, <1>2, PTL DEF Spec

(* What the runs check, for any number of frames, tasks and analyzers:     *)
(* nothing is drawn without a window, and the camera does what it was      *)
(* asked to do last (run client).                                          *)
THEOREM DrawsIntoWindowTheorem == Spec => []DrawsIntoWindow
<1>1. ClientIInv => DrawsIntoWindow
  BY DEF ClientIInv
<1> QED
  BY <1>1, InductiveInvariant, PTL

(* After the last listener has run the camera is bound if and only if it   *)
(* was not closed after it was last opened.                                *)
THEOREM CameraFollowsRequestsTheorem == Spec => []CameraFollowsRequests
<1>1. ClientIInv => CameraFollowsRequests
  BY DEF ClientIInv
<1> QED
  BY <1>1, InductiveInvariant, PTL

(* The pixels that a recognition thread reads do not change under it,      *)
(* unless it was started with "Rotate" off.                                *)
THEOREM FrameIsStableTheorem == Spec => FrameIsStable
<1>1. ClientIInv /\ [Next]_vars
      => [worker.at = "read" /\ worker.frame \in vertical' \ vertical
          => ~ worker.rotated]_loopVars
  BY DEF ClientIInv, LoopIInv, ReadsUpright
<1> QED
  BY <1>1, InductiveInvariant, PTL DEF Spec, FrameIsStable

(* The server is called at most once per "Turn on".                        *)
THEOREM OneCallPerScanTheorem == Spec => OneCallPerScan
<1>1. ClientIInv /\ [Next]_vars
      => [draw.at # "call" /\ draw'.at = "call" => ~ getResponse]_loopVars
  <2> SUFFICES ASSUME ClientIInv, [LoopNext]_loopVars,
                      draw.at # "call", draw'.at = "call"
               PROVE  ~ getResponse
    BY ClientStepsLoop
  <2>1. LookAtResult
    BY DEF LoopNext, loopVars, LoadNewFrame, StartDraw, DrawCamera,
           DrawNoCamera, Draw, Answered, ShowPicture, NoButton, TurnOff,
           TurnOn, Recognise, CopyFrame, Detect, Decode, StoreResult, Finish,
           ClientIInv, LoopIInv, LoopTypeOK
  <2> QED
    BY <2>1 DEF LookAtResult, ClientIInv, LoopIInv, ResponseHidesCamera
<1> QED
  BY <1>1, InductiveInvariant, PTL DEF Spec, OneCallPerScan

(* The picture on the screen is the newest frame, or one that the          *)
(* recognition thread still copies.                                        *)
THEOREM PictureIsCurrentTheorem == Spec => PictureIsCurrent
<1>1. ClientIInv /\ [Next]_vars
      => [draw.at = "view" /\ draw'.at # "view"
          => shown' = draw.frame
             \/ (worker.at = "read" /\ worker.frame = shown')]_loopVars
  <2> SUFFICES ASSUME ClientIInv, [LoopNext]_loopVars,
                      draw.at = "view", draw'.at # "view"
               PROVE  shown' = draw.frame
                      \/ (worker.at = "read" /\ worker.frame = shown')
    BY ClientStepsLoop
  <2>1. ShowPicture
    BY DEF LoopNext, loopVars, LoadNewFrame, StartDraw, DrawCamera,
           DrawNoCamera, Draw, LookAtResult, Answered, NoButton, TurnOff,
           TurnOn, Recognise, CopyFrame, Detect, Decode, StoreResult, Finish
  <2> QED
    BY <2>1 DEF ShowPicture, Owned, ClientIInv, LoopIInv, FramesAreOwned,
                ShownIsPast
<1> QED
  BY <1>1, InductiveInvariant, PTL DEF Spec, PictureIsCurrent
=============================================================================
