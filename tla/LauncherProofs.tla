--------------------------- MODULE LauncherProofs ---------------------------
(***************************************************************************)
(* Proofs about Launcher, for every start configuration, every set of      *)
(* updates and every number of reloads.                                    *)
(***************************************************************************)
EXTENDS Launcher, TLAPS

(* The goroutines that hold the WaitGroup. *)
Holding == {"running", "stopping", "sending"}

(* A beater goroutine holds the WaitGroup only if it is the newest one.    *)
OnlyNewestHolds ==
  \A b \in DOMAIN beaters : beaters[b].st \in Holding => b = Len(beaters)

(* wg is 1 exactly when the newest goroutine still holds it. *)
WgExact ==
  /\ wg = 0 => \A b \in DOMAIN beaters : beaters[b].st \notin Holding
  /\ wg = 1 => beaters # <<>> /\ beaters[Len(beaters)].st \in Holding

(* Where launcher.Run is determines what it has decided and received. *)
Deciding == {"start", "reconfigure", "create", "wait", "stopOld", "waitOld",
             "stopLast", "grace"}

ControlOK ==
  /\ pc \in Deciding => exit = "none"
  /\ exit \in Panics => pc = "end"
  /\ pc \in {"start", "reconfigure"} => beaters = <<>>
  /\ pc = "create" => wg = 0
  /\ exit = "graceful" => wg = 0
  /\ pc \in {"stopOld", "waitOld"} => update \in Updates
  /\ pc \in {"wait", "stopOld", "waitOld", "stopLast", "grace"} => beaters # <<>>

(* Every beater but the first was paid for by a call of Reload. *)
Owed == IF pc \in {"create", "stopOld", "waitOld"} THEN 1 ELSE 0
Pending == IF reload # Idle THEN 1 ELSE 0
Budget ==
  /\ pc = "start" => reload = Idle
  /\ Len(beaters) + Owed + Pending <= reloads + 1

IInv == TypeOK /\ OnlyNewestHolds /\ WgExact /\ ControlOK /\ Budget

-----------------------------------------------------------------------------
(* Merging an update into a configuration gives a configuration. *)
LEMMA MergeConfig ==
  ASSUME NEW c \in Config, NEW u \in Config
  PROVE  Merge(c, u) \in Config
BY DEF Config, Merge, Overlay

(* The placeholder for "no configuration" is not one. *)
LEMMA IdleNotConfig == Idle \notin Config
BY DEF Idle, Config, Unset

(* Moving one goroutine to another state leaves the others alone. *)
GoroutineState == Live \cup {"sending", "recovering", "done"}
OnlyMoves(b, st) ==
  /\ beaters' \in Seq(Goroutine)
  /\ Len(beaters') = Len(beaters)
  /\ DOMAIN beaters' = DOMAIN beaters
  /\ beaters'[b].st = st
  /\ beaters'[b].cfg = beaters[b].cfg
  /\ \A i \in DOMAIN beaters : i # b => beaters'[i] = beaters[i]

(* Moved changes one goroutine's state and nothing else.                   *)
LEMMA MovedGoroutine ==
  ASSUME beaters \in Seq(Goroutine), NEW b \in DOMAIN beaters,
         NEW st \in GoroutineState, beaters' = Moved(b, st)
  PROVE  OnlyMoves(b, st)
<1> DEFINE moved == [beaters[b] EXCEPT !.st = st]
<1>1. beaters[b] \in Goroutine
  OBVIOUS
<1>2. moved \in Goroutine /\ moved.st = st /\ moved.cfg = beaters[b].cfg
  BY <1>1 DEF Goroutine, GoroutineState
<1>3. beaters' = [beaters EXCEPT ![b] = moved]
  BY DEF Moved
<1> HIDE DEF moved
<1>4. Len(beaters') = Len(beaters) /\ DOMAIN beaters' = DOMAIN beaters
  BY <1>3
<1>5. beaters' \in Seq(Goroutine)
  BY <1>2, <1>3
<1>6. beaters'[b].st = st /\ beaters'[b].cfg = beaters[b].cfg
  BY <1>2, <1>3
<1>7. \A i \in DOMAIN beaters : i # b => beaters'[i] = beaters[i]
  BY <1>3
<1>8. QED
  BY <1>4, <1>5, <1>6, <1>7 DEF OnlyMoves

(* The invariant holds when the process starts.                            *)
LEMMA InitIInv == Init => IInv
<1> SUFFICES ASSUME Init PROVE IInv
  OBVIOUS
<1>1. TypeOK
  <2>1. accepted \in Seq(Updates) /\ errCh \in Seq(Nat) /\ Len(errCh) <= 1
    BY DEF Init
  <2>2. beaters \in Seq(Goroutine)
    BY DEF Init
  <2>3. managed \in BOOLEAN BY DEF Init
  <2>4. pc \in State BY DEF Init, State
  <2>5. exit \in Exits \cup {"none"} BY DEF Init
  <2>6. latest \in Config BY LauncherAssumption DEF Init
  <2>7. update \in Updates \cup {Idle} /\ reload \in Updates \cup {Idle} BY DEF Init
  <2>8. wg \in {0,1} BY DEF Init
  <2>9. errClosed \in BOOLEAN /\ listener \in {"open", "done", "closed"} BY DEF Init
  <2>10. reloads \in 0..MaxReloads BY LauncherAssumption DEF Init
  <2>11. QED
    BY <2>1, <2>2, <2>3, <2>4, <2>5, <2>6, <2>7, <2>8,<2>9,<2>10 DEF TypeOK
<1>2. OnlyNewestHolds /\ WgExact /\ ControlOK
  BY DEF Init, OnlyNewestHolds, WgExact, ControlOK, Deciding, Panics
<1>3. Budget
  BY DEF Init, Budget, Owed, Pending
<1>4. QED
  BY <1>1, <1>2, <1>3 DEF IInv

(***************************************************************************)
(* The steps of launcher.Run, launcher.Stop and Listener.Reload that leave *)
(* the beater goroutines alone.                                            *)
(***************************************************************************)
QuietStep ==
  \/ StartManager \/ ReconfigureReceive \/ ReconfigureTimeout \/ ReconfigureStopped
  \/ RunBeaterFails \/ WaitBeaterError \/ WaitStopSignal \/ WaitUpdate
  \/ StopBeaterDone \/ StopBeaterMergeFails \/ GraceStopped \/ GraceTimeout
  \/ ListenerCloseDone \/ ListenerCloseCh \/ ManagerStop \/ Stop
  \/ Reload

(* The quiet steps keep the types.                                         *)
LEMMA QuietType == ASSUME IInv, QuietStep PROVE TypeOK'
<1> USE DEF IInv, TypeOK, ControlOK, State, Exits, Panics, configVars, beaterVars, reloadVars
<1>1. CASE StartManager
  BY <1>1, LauncherAssumption, MergeConfig, IdleNotConfig DEF StartManager
<1>2. CASE ReconfigureReceive
  <2>1. reload \in Updates /\ reload \in Config
    BY <1>2, LauncherAssumption DEF ReconfigureReceive
  <2>2. latest' \in Config
    BY <1>2, <2>1, MergeConfig DEF ReconfigureReceive
  <2>3. accepted' \in Seq(Updates)
    BY <1>2, <2>1 DEF ReconfigureReceive
  <2>4. pc' \in State /\ exit' \in Exits \cup {"none"} /\ reload' = Idle
    BY <1>2 DEF ReconfigureReceive, Return
  <2>5. UNCHANGED <<managed, update, beaters, wg, errCh, errClosed, listener, reloads>>
    BY <1>2 DEF ReconfigureReceive
  <2>6. QED
    BY <2>2, <2>3, <2>4, <2>5
<1>3. CASE ReconfigureTimeout
  BY <1>3, LauncherAssumption, MergeConfig, IdleNotConfig DEF ReconfigureTimeout, Return
<1>4. CASE ReconfigureStopped
  BY <1>4, LauncherAssumption, MergeConfig, IdleNotConfig DEF ReconfigureStopped, Return
<1>5. CASE RunBeaterFails
  BY <1>5, LauncherAssumption, MergeConfig, IdleNotConfig DEF RunBeaterFails
<1>6. CASE WaitBeaterError
  BY <1>6, LauncherAssumption, MergeConfig, IdleNotConfig DEF WaitBeaterError
<1>7. CASE WaitStopSignal
  BY <1>7, LauncherAssumption, MergeConfig, IdleNotConfig DEF WaitStopSignal
<1>8. CASE WaitUpdate
  BY <1>8, LauncherAssumption, MergeConfig, IdleNotConfig DEF WaitUpdate
<1>9. CASE StopBeaterDone
  BY <1>9, LauncherAssumption, MergeConfig, IdleNotConfig DEF StopBeaterDone
<1>10. CASE StopBeaterMergeFails
  BY <1>10, LauncherAssumption, MergeConfig, IdleNotConfig DEF StopBeaterMergeFails
<1>11. CASE GraceStopped
  BY <1>11, LauncherAssumption, MergeConfig, IdleNotConfig DEF GraceStopped
<1>12. CASE GraceTimeout
  BY <1>12, LauncherAssumption, MergeConfig, IdleNotConfig DEF GraceTimeout
<1>13. CASE ListenerCloseDone
  BY <1>13, LauncherAssumption, MergeConfig, IdleNotConfig DEF ListenerCloseDone
<1>14. CASE ListenerCloseCh
  BY <1>14, LauncherAssumption, MergeConfig, IdleNotConfig DEF ListenerCloseCh, Crash
<1>15. CASE ManagerStop
  BY <1>15, LauncherAssumption, MergeConfig, IdleNotConfig DEF ManagerStop
<1>16. CASE Stop
  BY <1>16, LauncherAssumption, MergeConfig, IdleNotConfig DEF Stop
<1>17. CASE Reload
  BY <1>17, LauncherAssumption, MergeConfig, IdleNotConfig DEF Reload, Crash
<1>18. QED
  BY <1>1, <1>2, <1>3, <1>4, <1>5, <1>6, <1>7, <1>8, <1>9, <1>10, <1>11, <1>12, <1>13, <1>14, <1>15, <1>16, <1>17 DEF QuietStep

(* The quiet steps leave the WaitGroup and the goroutines that hold it alone. *)
LEMMA QuietHold == ASSUME IInv, QuietStep PROVE (OnlyNewestHolds /\ WgExact)'
<1> USE DEF IInv, TypeOK, ControlOK, OnlyNewestHolds, WgExact, configVars, beaterVars, reloadVars
<1>1. CASE StartManager
  BY <1>1 DEF StartManager
<1>2. CASE ReconfigureReceive
  BY <1>2 DEF ReconfigureReceive, Return
<1>3. CASE ReconfigureTimeout
  BY <1>3 DEF ReconfigureTimeout, Return
<1>4. CASE ReconfigureStopped
  BY <1>4 DEF ReconfigureStopped, Return
<1>5. CASE RunBeaterFails
  BY <1>5 DEF RunBeaterFails
<1>6. CASE WaitBeaterError
  BY <1>6 DEF WaitBeaterError
<1>7. CASE WaitStopSignal
  BY <1>7 DEF WaitStopSignal
<1>8. CASE WaitUpdate
  BY <1>8 DEF WaitUpdate
<1>9. CASE StopBeaterDone
  BY <1>9 DEF StopBeaterDone
<1>10. CASE StopBeaterMergeFails
  BY <1>10 DEF StopBeaterMergeFails
<1>11. CASE GraceStopped
  BY <1>11 DEF GraceStopped
<1>12. CASE GraceTimeout
  BY <1>12 DEF GraceTimeout
<1>13. CASE ListenerCloseDone
  BY <1>13 DEF ListenerCloseDone
<1>14. CASE ListenerCloseCh
  BY <1>14 DEF ListenerCloseCh, Crash
<1>15. CASE ManagerStop
  BY <1>15 DEF ManagerStop
<1>16. CASE Stop
  BY <1>16 DEF Stop
<1>17. CASE Reload
  BY <1>17 DEF Reload, Crash
<1>18. QED
  BY <1>1, <1>2, <1>3, <1>4, <1>5, <1>6, <1>7, <1>8, <1>9, <1>10, <1>11, <1>12, <1>13, <1>14, <1>15, <1>16, <1>17 DEF QuietStep

(* The quiet steps keep what the control state says about the rest.        *)
LEMMA QuietControl == ASSUME IInv, QuietStep PROVE ControlOK'
<1> USE DEF IInv, TypeOK, ControlOK, Deciding, OnlyNewestHolds, WgExact, Panics, configVars, beaterVars, reloadVars
<1>1. CASE StartManager
  BY <1>1 DEF StartManager
<1>2. CASE ReconfigureReceive
  BY <1>2 DEF ReconfigureReceive, Return
<1>3. CASE ReconfigureTimeout
  BY <1>3 DEF ReconfigureTimeout, Return
<1>4. CASE ReconfigureStopped
  BY <1>4 DEF ReconfigureStopped, Return
<1>5. CASE RunBeaterFails
  BY <1>5 DEF RunBeaterFails
<1>6. CASE WaitBeaterError
  BY <1>6 DEF WaitBeaterError
<1>7. CASE WaitStopSignal
  BY <1>7 DEF WaitStopSignal
<1>8. CASE WaitUpdate
  BY <1>8 DEF WaitUpdate
<1>9. CASE StopBeaterDone
  BY <1>9 DEF StopBeaterDone
<1>10. CASE StopBeaterMergeFails
  BY <1>10 DEF StopBeaterMergeFails
<1>11. CASE GraceStopped
  BY <1>11 DEF GraceStopped
<1>12. CASE GraceTimeout
  BY <1>12 DEF GraceTimeout
<1>13. CASE ListenerCloseDone
  BY <1>13 DEF ListenerCloseDone
<1>14. CASE ListenerCloseCh
  BY <1>14 DEF ListenerCloseCh, Crash
<1>15. CASE ManagerStop
  BY <1>15 DEF ManagerStop
<1>16. CASE Stop
  BY <1>16 DEF Stop
<1>17. CASE Reload
  BY <1>17 DEF Reload, Crash
<1>18. QED
  BY <1>1, <1>2, <1>3, <1>4, <1>5, <1>6, <1>7, <1>8, <1>9, <1>10, <1>11, <1>12, <1>13, <1>14, <1>15, <1>16, <1>17 DEF QuietStep

(* The quiet steps create no goroutine and spend no call of Reload twice.  *)
LEMMA QuietBudget == ASSUME IInv, QuietStep PROVE Budget'
<1> USE DEF IInv, TypeOK, ControlOK, Deciding, Budget, Owed, Pending, configVars, beaterVars, reloadVars
<1>1. CASE StartManager
  BY <1>1, LauncherAssumption, IdleNotConfig DEF StartManager
<1>2. CASE ReconfigureReceive
  BY <1>2, LauncherAssumption, IdleNotConfig DEF ReconfigureReceive, Return
<1>3. CASE ReconfigureTimeout
  BY <1>3, LauncherAssumption, IdleNotConfig DEF ReconfigureTimeout, Return
<1>4. CASE ReconfigureStopped
  BY <1>4, LauncherAssumption, IdleNotConfig DEF ReconfigureStopped, Return
<1>5. CASE RunBeaterFails
  BY <1>5, LauncherAssumption, IdleNotConfig DEF RunBeaterFails
<1>6. CASE WaitBeaterError
  BY <1>6, LauncherAssumption, IdleNotConfig DEF WaitBeaterError
<1>7. CASE WaitStopSignal
  BY <1>7, LauncherAssumption, IdleNotConfig DEF WaitStopSignal
<1>8. CASE WaitUpdate
  BY <1>8, LauncherAssumption, IdleNotConfig DEF WaitUpdate
<1>9. CASE StopBeaterDone
  BY <1>9, LauncherAssumption, IdleNotConfig DEF StopBeaterDone
<1>10. CASE StopBeaterMergeFails
  BY <1>10, LauncherAssumption, IdleNotConfig DEF StopBeaterMergeFails
<1>11. CASE GraceStopped
  BY <1>11, LauncherAssumption, IdleNotConfig DEF GraceStopped
<1>12. CASE GraceTimeout
  BY <1>12, LauncherAssumption, IdleNotConfig DEF GraceTimeout
<1>13. CASE ListenerCloseDone
  BY <1>13, LauncherAssumption, IdleNotConfig DEF ListenerCloseDone
<1>14. CASE ListenerCloseCh
  BY <1>14, LauncherAssumption, IdleNotConfig DEF ListenerCloseCh, Crash
<1>15. CASE ManagerStop
  BY <1>15, LauncherAssumption, IdleNotConfig DEF ManagerStop
<1>16. CASE Stop
  BY <1>16, LauncherAssumption, IdleNotConfig DEF Stop
<1>17. CASE Reload
  <2>1. beaters' = beaters /\ reloads' = reloads + 1 /\ reload = Idle /\ pc # "start"
    BY <1>17 DEF Reload
  <2>2. Owed' <= Owed /\ Owed \in 0..1 /\ Owed' \in 0..1
    BY <1>17 DEF Reload, Crash
  <2>3. Pending = 0 /\ Pending' \in 0..1
    BY <2>1
  <2>4. pc' # "start"
    BY <1>17 DEF Reload, Crash
  <2> HIDE DEF Owed, Pending
  <2>5. QED
    BY <2>1, <2>2, <2>3, <2>4
<1>18. QED
  BY <1>1, <1>2, <1>3, <1>4, <1>5, <1>6, <1>7, <1>8, <1>9, <1>10, <1>11, <1>12, <1>13, <1>14, <1>15, <1>16, <1>17 DEF QuietStep

(***************************************************************************)
(* The steps that move one beater goroutine: calls of beater.Stop, and the *)
(* goroutine's own steps.                                                  *)
(***************************************************************************)
(* A call of beater.Stop, and the panic of posture.Stop, keep the invariant. *)
LEMMA CallStopInv ==
  ASSUME IInv,
         NEW from \in {"stopOld", "stopLast"}, NEW to,
         <<from, to>> \in {<<"stopOld", "waitOld">>, <<"stopLast", "grace">>},
         CallStop(from, to)
  PROVE  IInv'
<1> USE DEF IInv, TypeOK, configVars, reloadVars
<1>1. pc = from /\ beaters # <<>> /\ exit = "none"
  BY DEF CallStop, ControlOK, Deciding
<1>2. Current \in DOMAIN beaters
  BY <1>1 DEF Current
<1>3. UNCHANGED <<managed, latest, update, accepted, wg, errCh, errClosed,
                  listener, reload, reloads>>
  BY DEF CallStop
<1>4. CASE UNCHANGED beaters
  <2>1. \/ pc' = to /\ exit' = exit
        \/ pc' = "end" /\ exit' = "panicStop"
    BY <1>1, <1>4 DEF CallStop, Crash
  <2>2. TypeOK'
    BY <1>3, <1>4, <2>1 DEF State, Exits, Panics
  <2>3. (OnlyNewestHolds /\ WgExact)'
    BY <1>3, <1>4 DEF OnlyNewestHolds, WgExact
  <2>4. ControlOK'
    BY <1>1, <1>3, <1>4, <2>1 DEF ControlOK, Deciding
  <2>5. Budget'
    <3>1. Owed' <= Owed /\ Owed \in 0..1 /\ Owed' \in 0..1 /\ Pending' = Pending /\ Pending \in 0..1
      BY <1>1, <1>3, <2>1 DEF Owed, Pending
    <3>2. QED
      BY <1>1, <1>3, <1>4, <2>1, <3>1, LauncherAssumption DEF Budget
  <2>6. QED
    BY <2>2, <2>3, <2>4, <2>5
<1>5. CASE beaters' # beaters
  <2>1. /\ beaters[Current].st = "running"
        /\ beaters' = Moved(Current, "stopping")
        /\ pc' = to /\ exit' = exit
    BY <1>5 DEF CallStop
  <2>2. OnlyMoves(Current, "stopping")
    BY <1>2, <2>1, MovedGoroutine DEF GoroutineState, Live
  <2>3. TypeOK'
    BY <1>3, <2>1, <2>2 DEF State, OnlyMoves
  <2>4. (OnlyNewestHolds /\ WgExact)'
    <3>1. Current = Len(beaters) /\ Len(beaters') = Len(beaters) /\ DOMAIN beaters' = DOMAIN beaters
      BY <2>2 DEF OnlyMoves, Current
    <3>2. wg = 1 /\ wg' = 1
      BY <1>2, <1>3, <2>1 DEF WgExact, Holding
    <3>3. OnlyNewestHolds'
      BY <1>2, <2>2, <3>1 DEF OnlyNewestHolds, OnlyMoves
    <3>4. beaters' # <<>> /\ beaters'[Len(beaters')].st \in Holding
      BY <1>2, <2>2, <3>1 DEF OnlyMoves, Holding
    <3>5. QED
      BY <3>2, <3>3, <3>4 DEF WgExact
  <2>5. ControlOK'
    BY <1>1, <1>3, <2>1, <2>2 DEF ControlOK, Deciding, OnlyMoves
  <2>6. Budget'
    BY <1>1, <1>3, <2>1, <2>2 DEF Budget, Owed, Pending, OnlyMoves
  <2>7. QED
    BY <2>3, <2>4, <2>5, <2>6
<1>6. QED
  BY <1>4, <1>5

(* A goroutine that leaves Holding gives the WaitGroup back; one that      *)
(* stays in it, or was out of it, leaves the WaitGroup alone.              *)
LEMMA GoroutineInv ==
  ASSUME IInv, NEW b \in DOMAIN beaters, BeaterStep(b)
  PROVE  IInv'
<1> USE DEF IInv, TypeOK
<1> DEFINE HoldingAfter(st) == st \in Holding
<1>1. pc # "end" /\ wg \in {0, 1}
  BY DEF BeaterStep, RunReturns, RunFails, RunPanics, SendError, SendPanic
<1>2. UNCHANGED <<managed, latest, update, accepted, errClosed, listener, reload, reloads>>
  BY DEF BeaterStep, RunReturns, RunFails, RunPanics, SendError, SendPanic, configVars, reloadVars
<1>3. CASE UNCHANGED beaters
  <2>1. SendPanic(b) /\ errClosed
    <3>1. ASSUME NEW st \in GoroutineState, beaters[b].st # st, beaters' = Moved(b, st)
          PROVE  FALSE
      BY <1>3, <3>1, MovedGoroutine DEF OnlyMoves
    <3>2. QED
      BY <3>1 DEF BeaterStep, RunReturns, RunFails, RunPanics, SendError, SendPanic,
                  GoroutineState, Live
  <2>2. pc' = "end" /\ exit' = "panicSend" /\ UNCHANGED <<wg, errCh>>
    BY <2>1 DEF SendPanic, Crash
  <2>3. TypeOK'
    BY <1>2, <1>3, <2>2 DEF State, Exits, Panics
  <2>4. (OnlyNewestHolds /\ WgExact)'
    BY <1>3, <2>2 DEF OnlyNewestHolds, WgExact
  <2>5. ControlOK'
    BY <1>2, <1>3, <2>2 DEF ControlOK, Deciding
  <2>6. Owed' <= Owed /\ Owed \in 0..1 /\ Owed' \in 0..1 /\ Pending' = Pending /\ Pending \in 0..1
    BY <1>2, <2>2 DEF Owed, Pending
  <2>7. Budget'
    BY <1>2, <1>3, <2>2, <2>6, LauncherAssumption DEF Budget
  <2>8. QED
    BY <2>3, <2>4, <2>5, <2>7
<1>4. CASE beaters' # beaters
  <2>1. PICK st \in GoroutineState :
             /\ beaters' = Moved(b, st)
             /\ UNCHANGED <<pc, exit>>
             /\ errCh' \in {errCh, <<b>>}
             /\ \/ beaters[b].st \in Holding /\ st \notin Holding /\ wg' = wg - 1
                \/ beaters[b].st \in Holding /\ st \in Holding /\ wg' = wg
                \/ beaters[b].st \notin Holding /\ st \notin Holding /\ wg' = wg
    <3>1. CASE RunReturns(b)
      BY <3>1 DEF RunReturns, GoroutineState, Live, Holding
    <3>2. CASE RunFails(b)
      BY <3>2 DEF RunFails, GoroutineState, Live, Holding
    <3>3. CASE RunPanics(b)
      BY <3>3 DEF RunPanics, GoroutineState, Live, Holding
    <3>4. CASE SendError(b)
      BY <3>4 DEF SendError, GoroutineState, Live, Holding
    <3>5. CASE SendPanic(b)
      BY <1>4, <3>5 DEF SendPanic, GoroutineState, Live, Holding
    <3>6. QED
      BY <3>1, <3>2, <3>3, <3>4, <3>5 DEF BeaterStep
  <2>2. OnlyMoves(b, st)
    BY <2>1, MovedGoroutine
  <2>3. wg' \in {0, 1} /\ (OnlyNewestHolds /\ WgExact)'
    <3>1. /\ Len(beaters') = Len(beaters) /\ DOMAIN beaters' = DOMAIN beaters
          /\ beaters'[b].st = st
          /\ \A i \in DOMAIN beaters : i # b => beaters'[i].st = beaters[i].st
      BY <2>2 DEF OnlyMoves
    <3>2. beaters[b].st \in Holding => b = Len(beaters) /\ wg = 1
      BY DEF OnlyNewestHolds, WgExact
    <3>3. OnlyNewestHolds'
      BY <2>1, <3>1, <3>2 DEF OnlyNewestHolds
    <3>4. CASE beaters[b].st \in Holding /\ st \notin Holding /\ wg' = wg - 1
      <4>1. wg' = 0
        BY <3>2, <3>4
      <4>2. \A i \in DOMAIN beaters' : beaters'[i].st \notin Holding
        BY <3>1, <3>2, <3>4 DEF OnlyNewestHolds
      <4>3. QED
        BY <3>3, <4>1, <4>2 DEF WgExact
    <3>5. CASE beaters[b].st \in Holding /\ st \in Holding /\ wg' = wg
      <4>1. wg' = 1 /\ beaters' # <<>> /\ beaters'[Len(beaters')].st \in Holding
        BY <3>1, <3>2, <3>5
      <4>2. QED
        BY <3>3, <4>1 DEF WgExact
    <3>6. CASE beaters[b].st \notin Holding /\ st \notin Holding /\ wg' = wg
      <4>1. \A i \in DOMAIN beaters : beaters'[i].st \in Holding <=> beaters[i].st \in Holding
        BY <3>1, <3>6
      <4>2. wg' = 0 => \A i \in DOMAIN beaters' : beaters'[i].st \notin Holding
        BY <3>1, <3>6, <4>1 DEF WgExact
      <4>3. wg' = 1 => beaters' # <<>> /\ beaters'[Len(beaters')].st \in Holding
        BY <3>1, <3>6, <4>1 DEF WgExact
      <4>4. QED
        BY <3>3, <3>6, <4>2, <4>3 DEF WgExact
    <3>7. QED
      BY <2>1, <3>4, <3>5, <3>6
  <2>4. errCh' \in Seq(Nat) /\ Len(errCh') <= 1
    <3>1. b \in Nat
      OBVIOUS
    <3>2. <<b>> \in Seq(Nat) /\ Len(<<b>>) = 1
      BY <3>1
    <3>3. CASE errCh' = errCh
      BY <3>3
    <3>4. CASE errCh' = <<b>>
      BY <3>2, <3>4
    <3>5. QED
      BY <2>1, <3>3, <3>4
  <2>5. TypeOK'
    BY <1>2, <2>1, <2>2, <2>3, <2>4 DEF OnlyMoves
  <2>6. wg' = 0 \/ wg' = wg
    BY <2>1, <2>3
  <2>7. ControlOK'
    BY <1>2, <2>1, <2>2, <2>6 DEF ControlOK, OnlyMoves
  <2>8. Budget'
    BY <1>2, <2>1, <2>2 DEF Budget, Owed, Pending, OnlyMoves
  <2>9. QED
    BY <2>3, <2>5, <2>7, <2>8
<1>5. QED
  BY <1>3, <1>4

(* runBeater appends a goroutine when none holds the WaitGroup. *)
LEMMA RunBeaterInv == ASSUME IInv, RunBeater PROVE IInv'
<1> USE DEF IInv, TypeOK
<1> DEFINE new == [st |-> "running", cfg |-> latest]
<1>1. new \in Goroutine /\ new.st = "running"
  BY DEF Goroutine, Live
<1>2. pc = "create" /\ pc' = "wait" /\ wg = 0 /\ wg' = 1 /\ exit' = "none" /\ exit = "none"
  BY DEF RunBeater, ControlOK, Deciding
<1>3. beaters' = Append(beaters, new)
  BY DEF RunBeater
<1>4. UNCHANGED <<managed, latest, update, accepted, errCh, errClosed, listener,
                  reload, reloads>>
  BY DEF RunBeater, configVars, reloadVars
<1> HIDE DEF new
<1>5. /\ beaters' \in Seq(Goroutine)
      /\ Len(beaters') = Len(beaters) + 1
      /\ beaters'[Len(beaters')] = new
      /\ \A i \in DOMAIN beaters' : i # Len(beaters') => i \in DOMAIN beaters /\ beaters'[i] = beaters[i]
  BY <1>1, <1>3
<1>6. TypeOK'
  BY <1>2, <1>4, <1>5 DEF State
<1>7. (OnlyNewestHolds /\ WgExact)'
  BY <1>1, <1>2, <1>5 DEF OnlyNewestHolds, WgExact, Holding
<1>8. ControlOK'
  BY <1>2, <1>5 DEF ControlOK, Deciding
<1>9. Budget'
  BY <1>2, <1>4, <1>5 DEF Budget, Owed, Pending
<1>10. QED
  BY <1>6, <1>7, <1>8, <1>9

-----------------------------------------------------------------------------
(* Every step keeps the invariant.                                         *)
LEMMA NextIInv == IInv /\ [Next]_vars => IInv'
<1> SUFFICES ASSUME IInv, [Next]_vars PROVE IInv'
  OBVIOUS
<1>1. CASE QuietStep
  BY <1>1, QuietType, QuietHold, QuietControl, QuietBudget DEF IInv
<1>2. CASE StopOld \/ StopLast
  BY <1>2, CallStopInv DEF StopOld, StopLast
<1>3. CASE RunBeater
  BY <1>3, RunBeaterInv
<1>4. ASSUME NEW b \in DOMAIN beaters, BeaterStep(b) PROVE IInv'
  BY <1>4, GoroutineInv
<1>5. CASE UNCHANGED vars
  <2>1. TypeOK'
    BY <1>5 DEF vars, IInv, TypeOK
  <2>2. OnlyNewestHolds' /\ WgExact'
    BY <1>5 DEF vars, IInv, OnlyNewestHolds, WgExact
  <2>3. ControlOK'
    BY <1>5 DEF vars, IInv, ControlOK
  <2>4. Budget'
    BY <1>5 DEF vars, IInv, Budget, Owed, Pending
  <2> QED
    BY <2>1, <2>2, <2>3, <2>4 DEF IInv
<1>6. QED
  BY <1>1, <1>2, <1>3, <1>4, <1>5 DEF Next, MainStep, QuietStep, Ended

(* The strengthened invariant holds in every reachable state of the        *)
(* launcher, whatever the start configuration, the updates and their       *)
(* number.                                                                 *)
THEOREM LauncherInvariant == Spec => []IInv
<1>1. QED
  BY InitIInv, NextIInv, PTL DEF Spec

(* The launcher's state keeps its types: in particular wg never goes       *)
(* negative and never counts two goroutines.                               *)
THEOREM LauncherTypeOK == Spec => []TypeOK
<1>1. IInv => TypeOK
  BY DEF IInv
<1>2. QED
  BY <1>1, LauncherInvariant, PTL

(* Two beaters never run at once, and none runs while one is created.      *)
THEOREM LauncherOneLiveBeater == Spec => []OneLiveBeater
<1>1. IInv => OneLiveBeater
  BY DEF IInv, OneLiveBeater, LiveBeaters, Current, OnlyNewestHolds, WgExact,
         ControlOK, Holding, Live
<1>2. QED
  BY <1>1, LauncherInvariant, PTL

(* A launcher that reports a graceful exit has no beater running.          *)
THEOREM LauncherGraceful == Spec => []GracefulMeansStopped
<1>1. IInv => GracefulMeansStopped
  BY DEF IInv, GracefulMeansStopped, LiveBeaters, WgExact, ControlOK, Holding, Live
<1>2. QED
  BY <1>1, LauncherInvariant, PTL

-----------------------------------------------------------------------------
(***************************************************************************)
(* What a beater is configured with.                                       *)
(***************************************************************************)
Fields == {"type", "benchmark"}

(* latest is the merge of the start configuration and every update taken   *)
(* so far, and the beater launcher.Run waits for was built from it, after  *)
(* config.New accepted it.                                                 *)
LatestIsMerge == \A field \in Fields : Wins(field, latest)
BuiltFromLatest == pc = "wait" => beaters[Current].cfg = latest /\ Valid(latest)

(* In managed mode the first update is taken by reconfigureWait, which     *)
(* validates it, before anything is created.                               *)
FirstIsValid ==
  /\ pc \in {"start", "reconfigure"} => accepted = <<>>
  /\ managed /\ pc \in {"create", "wait", "stopOld", "waitOld"}
       => accepted # <<>> /\ Valid(accepted[1])

MergeInv == LatestIsMerge /\ BuiltFromLatest /\ FirstIsValid

(* Merging one more update keeps the rule that the latest setting wins.    *)
LEMMA MergeWins ==
  ASSUME accepted \in Seq(Updates), NEW u \in Updates, latest \in Config, u \in Config,
         LatestIsMerge, latest' = Merge(latest, u), accepted' = Append(accepted, u)
  PROVE  LatestIsMerge'
<1> DEFINE n == Len(accepted) + 1
<1>1. /\ Len(accepted) \in Nat
      /\ DOMAIN accepted = 1..Len(accepted) /\ DOMAIN accepted' = 1..n
      /\ accepted'[n] = u
      /\ \A i \in DOMAIN accepted : accepted'[i] = accepted[i]
  OBVIOUS
<1>2. SUFFICES ASSUME NEW field \in Fields PROVE Wins(field, latest)'
  BY DEF LatestIsMerge
<1>3. Wins(field, latest)
  BY DEF LatestIsMerge
<1>4. latest'[field] = IF u[field] = Unset THEN latest[field] ELSE u[field]
  BY DEF Merge, Overlay, Fields
<1>5. CASE u[field] # Unset
  <2>1. n \in Setting(field)' /\ \A j \in Setting(field)' : j <= n
    BY <1>1, <1>5 DEF Setting
  <2>2. latest'[field] = accepted'[n][field]
    BY <1>1, <1>4, <1>5
  <2>3. QED
    BY <2>1, <2>2 DEF Wins
<1>6. CASE u[field] = Unset
  <2>1. Setting(field)' = Setting(field) /\ Setting(field) \subseteq DOMAIN accepted
    BY <1>1, <1>6 DEF Setting
  <2>2. QED
    BY <1>1, <1>3, <1>4, <1>6, <2>1 DEF Wins
<1>7. QED
  BY <1>5, <1>6

(* The two steps that take an update. *)
LEMMA TakeUpdate ==
  ASSUME IInv, MergeInv, ReconfigureReceive \/ StopBeaterDone
  PROVE  MergeInv'
<1> USE DEF IInv, TypeOK
<1>1. CASE latest' = latest /\ accepted' = accepted
  <2>1. ReconfigureReceive \/ (StopBeaterDone /\ accepted' # accepted)
    <3>1. CASE StopBeaterDone
      <4>1. accepted' = Append(accepted, update) /\ update \in Updates
        BY <3>1 DEF StopBeaterDone, ControlOK
      <4>2. Len(accepted') = Len(accepted) + 1
        BY <4>1
      <4>3. QED
        BY <3>1, <4>2
    <3>2. QED
      BY <3>1
  <2>2. /\ pc = "reconfigure" /\ UNCHANGED <<managed, beaters>>
        /\ pc' = "reconfigure" \/ pc' = "deferred" \/ pc' = "create"
        /\ pc' = "create" => accepted' = Append(accepted, reload) /\ reload \in Updates
    BY <1>1, <2>1 DEF ReconfigureReceive, Return, beaterVars
  <2>3. pc' # "create"
    <3>1. ASSUME pc' = "create" PROVE FALSE
      <4>1. Len(accepted') = Len(accepted) + 1
        BY <2>2, <3>1
      <4>2. QED
        BY <1>1, <4>1
    <3>2. QED
      BY <3>1
  <2>4. QED
    BY <1>1, <2>2, <2>3 DEF MergeInv, LatestIsMerge, BuiltFromLatest, FirstIsValid,
                            Wins, Setting
<1>2. CASE ~(latest' = latest /\ accepted' = accepted)
  <2>1. PICK u \in Updates : /\ latest' = Merge(latest, u) /\ accepted' = Append(accepted, u)
                             /\ pc' = "create" /\ UNCHANGED managed
                             /\ \/ pc = "reconfigure" /\ Valid(u)
                                \/ pc = "waitOld"
    BY <1>2, LauncherAssumption
       DEF ReconfigureReceive, StopBeaterDone, ControlOK, configVars
  <2>2. LatestIsMerge'
    BY <2>1, MergeWins, LauncherAssumption DEF MergeInv
  <2>3. BuiltFromLatest'
    BY <2>1 DEF BuiltFromLatest
  <2>4. accepted' # <<>> /\ accepted'[1] = IF accepted = <<>> THEN u ELSE accepted[1]
    BY <2>1
  <2>5. FirstIsValid'
    BY <2>1, <2>4 DEF MergeInv, FirstIsValid
  <2>6. QED
    BY <2>2, <2>3, <2>5 DEF MergeInv
<1>3. QED
  BY <1>1, <1>2

(* A step that leaves the configuration alone, does not come to wait for a *)
(* beater it has not waited for, and keeps what its beater was built from. *)
KeepsConfig ==
  /\ UNCHANGED <<managed, latest, accepted>>
  /\ pc' = "wait" => pc = "wait" /\ beaters'[Current'].cfg = beaters[Current].cfg
  /\ pc' \in {"start", "reconfigure"} => pc \in {"start", "reconfigure"}
  /\ managed /\ pc' \in {"create", "stopOld", "waitOld"}
       => pc \in {"create", "wait", "stopOld", "waitOld"}

(* A step that keeps the configurations keeps the invariant.               *)
LEMMA KeptConfig == ASSUME MergeInv, KeepsConfig PROVE MergeInv'
<1>1. LatestIsMerge'
  BY DEF MergeInv, KeepsConfig, LatestIsMerge, Wins, Setting
<1>2. BuiltFromLatest'
  BY DEF MergeInv, KeepsConfig, BuiltFromLatest
<1>3. FirstIsValid'
  BY DEF MergeInv, KeepsConfig, FirstIsValid
<1>4. QED
  BY <1>1, <1>2, <1>3 DEF MergeInv

(* Of the quiet steps only the two that take an update touch them.         *)
LEMMA QuietKeepsConfig ==
  ASSUME IInv, QuietStep, ~ReconfigureReceive, ~StopBeaterDone
  PROVE  KeepsConfig
BY DEF IInv, TypeOK, State, KeepsConfig, Current, configVars, beaterVars, Return, Crash,
       QuietStep, StartManager, ReconfigureTimeout, ReconfigureStopped, RunBeaterFails,
       WaitBeaterError, WaitStopSignal, WaitUpdate, StopBeaterMergeFails, GraceStopped,
       GraceTimeout, ListenerCloseDone, ListenerCloseCh, ManagerStop, Stop, Reload

(* Stopping a beater does not touch them.                                  *)
LEMMA CallStopKeepsConfig ==
  ASSUME IInv,
         NEW from \in {"stopOld", "stopLast"}, NEW to,
         <<from, to>> \in {<<"stopOld", "waitOld">>, <<"stopLast", "grace">>},
         CallStop(from, to)
  PROVE  KeepsConfig
BY DEF CallStop, KeepsConfig, configVars, Crash

(* Nor does a beater's goroutine, whose configuration is fixed.            *)
LEMMA GoroutineKeepsConfig ==
  ASSUME IInv, NEW b \in DOMAIN beaters, BeaterStep(b)
  PROVE  KeepsConfig
<1>1. UNCHANGED <<managed, latest, accepted>>
  BY DEF BeaterStep, RunReturns, RunFails, RunPanics, SendError, SendPanic, configVars
<1>2. \/ pc' = "end"
      \/ pc' = pc /\ \E st \in GoroutineState : beaters' = Moved(b, st)
  BY DEF BeaterStep, RunReturns, RunFails, RunPanics, SendError, SendPanic, Crash,
         GoroutineState, Live
<1>3. CASE pc' = "end"
  BY <1>1, <1>3 DEF KeepsConfig
<1>4. CASE pc' = pc /\ \E st \in GoroutineState : beaters' = Moved(b, st)
  <2>1. PICK st \in GoroutineState : beaters' = Moved(b, st)
    BY <1>4
  <2>2. OnlyMoves(b, st)
    BY <2>1, MovedGoroutine DEF IInv, TypeOK
  <2>3. pc = "wait" => beaters # <<>> /\ Current \in DOMAIN beaters
    BY DEF IInv, TypeOK, ControlOK, Current
  <2>4. pc = "wait" => beaters'[Current'].cfg = beaters[Current].cfg
    BY <2>2, <2>3 DEF OnlyMoves, Current
  <2>5. QED
    BY <1>1, <1>4, <2>4 DEF KeepsConfig
<1>5. QED
  BY <1>2, <1>3, <1>4

(* runBeater builds the beater from latest, which config.New accepted.     *)
LEMMA RunBeaterBuilds == ASSUME IInv, MergeInv, RunBeater PROVE MergeInv'
<1>1. /\ pc = "create" /\ pc' = "wait" /\ UNCHANGED <<managed, latest, accepted>>
      /\ Valid(latest)
      /\ beaters' = Append(beaters, [st |-> "running", cfg |-> latest])
  BY DEF RunBeater, configVars
<1>2. beaters'[Current'].cfg = latest
  BY <1>1 DEF IInv, TypeOK, Current
<1>3. LatestIsMerge'
  BY <1>1 DEF MergeInv, LatestIsMerge, Wins, Setting
<1>4. BuiltFromLatest'
  BY <1>1, <1>2 DEF BuiltFromLatest
<1>5. FirstIsValid'
  BY <1>1 DEF MergeInv, FirstIsValid
<1>6. QED
  BY <1>3, <1>4, <1>5 DEF MergeInv

(* Every step keeps the invariant.                                         *)
LEMMA NextMergeInv == IInv /\ MergeInv /\ [Next]_vars => MergeInv'
<1> SUFFICES ASSUME IInv, MergeInv, [Next]_vars PROVE MergeInv'
  OBVIOUS
<1>1. CASE ReconfigureReceive \/ StopBeaterDone
  BY <1>1, TakeUpdate
<1>2. CASE QuietStep /\ ~ReconfigureReceive /\ ~StopBeaterDone
  BY <1>2, QuietKeepsConfig, KeptConfig
<1>3. CASE StopOld \/ StopLast
  BY <1>3, CallStopKeepsConfig, KeptConfig DEF StopOld, StopLast
<1>4. CASE RunBeater
  BY <1>4, RunBeaterBuilds
<1>5. ASSUME NEW b \in DOMAIN beaters, BeaterStep(b) PROVE MergeInv'
  BY <1>5, GoroutineKeepsConfig, KeptConfig
<1>6. CASE UNCHANGED vars
  BY <1>6, KeptConfig DEF vars, KeepsConfig, Current
<1>7. QED
  BY <1>1, <1>2, <1>3, <1>4, <1>5, <1>6 DEF Next, MainStep, QuietStep, Ended

(* Every beater the launcher waits for runs with the start configuration   *)
(* and every update taken, later settings winning, and in managed mode     *)
(* never without a first, validated update from Fleet.                     *)
THEOREM LauncherConfig == Spec => []ConfigIsMergeOfUpdates
<1>1. Init => MergeInv
  BY DEF Init, MergeInv, LatestIsMerge, BuiltFromLatest, FirstIsValid, Wins, Setting
<1>2. MergeInv => ConfigIsMergeOfUpdates
  BY DEF MergeInv, LatestIsMerge, BuiltFromLatest, FirstIsValid, ConfigIsMergeOfUpdates,
         Fields, Wins
<1>3. QED
  BY <1>1, <1>2, NextMergeInv, LauncherInvariant, PTL DEF Spec

-----------------------------------------------------------------------------
(* Every step of the launcher is a step of the abstract supervisor, or     *)
(* changes nothing the supervisor sees.                                    *)
LEMMA QuietRefines ==
  ASSUME IInv, QuietStep
  PROVE  Promise!Next \/ UNCHANGED <<LiveBeaters, exit>>
<1> SUFFICES ASSUME exit' # exit PROVE Promise!Next
  <2>1. UNCHANGED beaters
    BY DEF QuietStep, StartManager, ReconfigureReceive, ReconfigureTimeout,
           ReconfigureStopped, RunBeaterFails, WaitBeaterError, WaitStopSignal,
           WaitUpdate, StopBeaterDone, StopBeaterMergeFails, GraceStopped, GraceTimeout,
           ListenerCloseDone, ListenerCloseCh, ManagerStop, Stop, Reload,
           beaterVars
  <2>2. QED
    BY <2>1 DEF LiveBeaters
<1>1. UNCHANGED beaters /\ UNCHANGED LiveBeaters
  BY DEF QuietStep, StartManager, ReconfigureReceive, ReconfigureTimeout,
         ReconfigureStopped, RunBeaterFails, WaitBeaterError, WaitStopSignal,
         WaitUpdate, StopBeaterDone, StopBeaterMergeFails, GraceStopped, GraceTimeout,
         ListenerCloseDone, ListenerCloseCh, ManagerStop, Stop, Reload,
         beaterVars, LiveBeaters
<1>2. \/ exit = "none" /\ exit' \in {"error", "timeout"}
      \/ exit = "none" /\ exit' = "graceful" /\ wg = 0
      \/ exit' = "panicReload" /\ exit \notin Panics
  <2>1. CASE Reload \/ ListenerCloseCh
    <3>1. pc # "end" /\ exit' = "panicReload"
      BY <2>1 DEF Reload, ListenerCloseCh, Crash
    <3>2. exit \notin Panics
      BY <3>1 DEF IInv, ControlOK
    <3>3. QED
      BY <3>1, <3>2
  <2>2. CASE ~(Reload \/ ListenerCloseCh)
    BY <2>2 DEF QuietStep, StartManager, ReconfigureReceive, ReconfigureTimeout,
           ReconfigureStopped, RunBeaterFails, WaitBeaterError, WaitStopSignal,
           WaitUpdate, StopBeaterDone, StopBeaterMergeFails, GraceStopped, GraceTimeout,
           ListenerCloseDone, ManagerStop, Stop,
           Return, IInv, ControlOK, Deciding, reloadVars, configVars
  <2>3. QED
    BY <2>1, <2>2
<1>3. wg = 0 => LiveBeaters = {}
  BY DEF IInv, WgExact, LiveBeaters, Holding, Live
<1>4. CASE exit = "none" /\ exit' \in {"error", "timeout"}
  BY <1>1, <1>4 DEF Promise!Next, Promise!Report, Exits, Panics
<1>5. CASE exit = "none" /\ exit' = "graceful" /\ wg = 0
  BY <1>1, <1>3, <1>5 DEF Promise!Next, Promise!Report, Exits, Panics
<1>6. CASE exit' = "panicReload" /\ exit \notin Panics
  BY <1>1, <1>6 DEF Promise!Next, Promise!Die, Exits, Panics
<1>7. QED
  BY <1>2, <1>4, <1>5, <1>6

(* A call of beater.Stop leaves the set of live beaters alone.             *)
LEMMA CallStopRefines ==
  ASSUME IInv, NEW from \in {"stopOld", "stopLast"}, NEW to, CallStop(from, to)
  PROVE  Promise!Next \/ UNCHANGED <<LiveBeaters, exit>>
<1>1. exit = "none" /\ beaters # <<>> /\ beaters \in Seq(Goroutine)
  BY DEF CallStop, IInv, TypeOK, ControlOK, Deciding
<1>2. UNCHANGED LiveBeaters
  <2>1. CASE UNCHANGED beaters
    BY <2>1 DEF LiveBeaters
  <2>2. CASE beaters' # beaters
    <3>1. Current \in DOMAIN beaters /\ beaters[Current].st = "running"
      BY <1>1, <2>2 DEF CallStop, Current
    <3>2. OnlyMoves(Current, "stopping")
      BY <1>1, <2>2, <3>1, MovedGoroutine DEF CallStop, GoroutineState, Live
    <3>3. QED
      BY <3>1, <3>2 DEF LiveBeaters, Live, OnlyMoves
  <2>3. QED
    BY <2>1, <2>2
<1>3. exit' = exit \/ exit' = "panicStop"
  BY DEF CallStop, Crash
<1>4. CASE exit' = "panicStop"
  BY <1>1, <1>2, <1>4 DEF Promise!Next, Promise!Die, Panics
<1>5. QED
  BY <1>2, <1>3, <1>4

(* A step of a beater goroutine ends its Run, ends the process, or is invisible. *)
LEMMA GoroutineRefines ==
  ASSUME IInv, NEW b \in DOMAIN beaters, BeaterStep(b)
  PROVE  Promise!Next \/ UNCHANGED <<LiveBeaters, exit>>
<1>1. beaters \in Seq(Goroutine) /\ exit \notin Panics
  BY DEF IInv, TypeOK, ControlOK, BeaterStep, RunReturns, RunFails, RunPanics,
         SendError, SendPanic
<1>2. CASE UNCHANGED beaters
  <2>1. UNCHANGED exit \/ exit' = "panicSend"
    BY DEF BeaterStep, RunReturns, RunFails, RunPanics, SendError, SendPanic, Crash
  <2>2. CASE exit' = "panicSend"
    BY <1>1, <1>2, <2>2 DEF Promise!Next, Promise!Die, Panics, LiveBeaters
  <2>3. QED
    BY <1>2, <2>1, <2>2 DEF LiveBeaters
<1>3. CASE beaters' # beaters
  <2>1. PICK st \in GoroutineState : beaters' = Moved(b, st) /\ st \notin Live /\ exit' = exit
    BY <1>3 DEF BeaterStep, RunReturns, RunFails, RunPanics, SendError, SendPanic,
                GoroutineState, Live
  <2>2. OnlyMoves(b, st)
    BY <1>1, <2>1, MovedGoroutine
  <2>3. LiveBeaters' = LiveBeaters \ {b}
    BY <2>1, <2>2 DEF LiveBeaters, OnlyMoves
  <2>4. CASE b \in LiveBeaters
    <3>1. Len(beaters) <= MaxReloads + 1
      <4>1. Owed \in 0..1 /\ Pending \in 0..1
        BY DEF Owed, Pending
      <4>2. QED
        BY <1>1, <4>1, LauncherAssumption DEF IInv, TypeOK, Budget
    <3>2. b \in Beater
      BY <1>1, <3>1, LauncherAssumption DEF Beater
    <3>3. QED
      BY <2>1, <2>3, <2>4, <3>2 DEF Promise!Next, Promise!Return
  <2>5. QED
    BY <2>1, <2>3, <2>4
<1>4. QED
  BY <1>2, <1>3

(* runBeater starts a beater when none is live.                            *)
LEMMA RunBeaterRefines == ASSUME IInv, RunBeater PROVE Promise!Next
<1> DEFINE n == Len(beaters) + 1
<1>1. /\ pc = "create" /\ exit = "none" /\ exit' = exit /\ wg = 0
      /\ beaters \in Seq(Goroutine)
  BY DEF RunBeater, IInv, TypeOK, ControlOK, Deciding
<1>2. LiveBeaters = {}
  BY <1>1 DEF IInv, WgExact, LiveBeaters, Holding, Live
<1>3. beaters' = Append(beaters, [st |-> "running", cfg |-> latest])
  BY DEF RunBeater
<1>4. /\ DOMAIN beaters' = 1..n /\ n \in DOMAIN beaters'
      /\ beaters'[n].st = "running"
      /\ \A i \in DOMAIN beaters' : i # n => i \in DOMAIN beaters /\ beaters'[i] = beaters[i]
  BY <1>1, <1>3
<1>5. LiveBeaters' = {n}
  BY <1>2, <1>4 DEF LiveBeaters, Live
<1>6. n \in Beater
  BY <1>1, LauncherAssumption DEF IInv, TypeOK, Budget, Owed, Pending, Beater
<1>7. QED
  BY <1>1, <1>2, <1>5, <1>6 DEF Promise!Next, Promise!Start

(* The launcher implements the supervisor: beaters run one at a time, none *)
(* starts after the launcher reported an outcome, graceful means stopped.  *)
THEOREM LauncherSupervises == Spec => Supervises
<1>1. Init => Promise!Init
  BY DEF Init, Promise!Init, LiveBeaters
<1>2. IInv /\ [Next]_vars => [Promise!Next]_(Promise!supervisorVars)
  <2> SUFFICES ASSUME IInv, [Next]_vars
               PROVE  Promise!Next \/ UNCHANGED <<LiveBeaters, exit>>
    BY DEF Promise!supervisorVars
  <2>1. CASE QuietStep
    BY <2>1, QuietRefines
  <2>2. CASE StopOld \/ StopLast
    BY <2>2, CallStopRefines DEF StopOld, StopLast
  <2>3. CASE RunBeater
    BY <2>3, RunBeaterRefines
  <2>4. ASSUME NEW b \in DOMAIN beaters, BeaterStep(b)
        PROVE  Promise!Next \/ UNCHANGED <<LiveBeaters, exit>>
    BY <2>4, GoroutineRefines
  <2>5. CASE UNCHANGED vars
    BY <2>5 DEF vars, LiveBeaters
  <2>6. QED
    BY <2>1, <2>2, <2>3, <2>4, <2>5 DEF Next, MainStep, QuietStep, Ended
<1>3. QED
  BY <1>1, <1>2, LauncherInvariant, PTL DEF Spec, Supervises, Promise!Spec

-----------------------------------------------------------------------------
(***************************************************************************)
(* The calls of Listener.Reload.                                           *)
(***************************************************************************)

(* Listener.Stop closes done before ch, so that when ch is closed nobody   *)
(* is blocked on it any more, and nobody can block on it again.            *)
ReleaseInv ==
  /\ listener # "open" => reload = Idle
  /\ pc = "closeCh" => listener = "done"
  /\ exit = "panicReload" => listener = "closed"

(* No step meets a blocked call with the closed channel, and every step    *)
(* keeps the order in which the two channels are closed.                   *)
Released == ReleaseInv' /\ (reload # Idle => exit' # "panicReload")

(* The steps of launcher.Run.                                              *)
LEMMA MainReleases == ASSUME IInv, ReleaseInv, MainStep PROVE Released
<1> USE DEF IInv, ControlOK, ReleaseInv, Released, Panics, Crash, Return, reloadVars
<1>1. CASE ListenerCloseDone \/ ListenerCloseCh
  BY <1>1 DEF ListenerCloseDone, ListenerCloseCh
<1>2. CASE ReconfigureReceive \/ WaitUpdate
  BY <1>2 DEF ReconfigureReceive, WaitUpdate
<1>3. CASE StopOld \/ StopLast
  BY <1>3 DEF StopOld, StopLast, CallStop
<1>4. CASE \/ StartManager \/ ReconfigureTimeout \/ ReconfigureStopped
           \/ RunBeater \/ RunBeaterFails \/ WaitBeaterError \/ WaitStopSignal
           \/ StopBeaterDone \/ StopBeaterMergeFails
           \/ GraceStopped \/ GraceTimeout \/ ManagerStop
  BY <1>4 DEF StartManager, ReconfigureTimeout, ReconfigureStopped, RunBeater, RunBeaterFails,
              WaitBeaterError, WaitStopSignal, StopBeaterDone, StopBeaterMergeFails,
              GraceStopped, GraceTimeout, ManagerStop
<1>5. QED
  BY <1>1, <1>2, <1>3, <1>4 DEF MainStep

(* The steps of the other goroutines: Reload blocks only while the         *)
(* listener is open.                                                       *)
LEMMA OthersRelease ==
  ASSUME IInv, ReleaseInv, Stop \/ Reload \/ \E b \in DOMAIN beaters : BeaterStep(b)
  PROVE  Released
<1> USE DEF IInv, ControlOK, ReleaseInv, Released, Panics, Crash, reloadVars
<1>1. CASE Stop
  BY <1>1 DEF Stop
<1>2. CASE Reload
  BY <1>2 DEF Reload
<1>3. ASSUME NEW b \in DOMAIN beaters, BeaterStep(b) PROVE Released
  BY <1>3 DEF BeaterStep, RunReturns, RunFails, RunPanics, SendError, SendPanic
<1>4. QED
  BY <1>1, <1>2, <1>3

(* A call of Listener.Reload that is blocked when the launcher exits never *)
(* meets the closed channel, however the exit came about.                  *)
THEOREM LauncherReleasesReload == Spec => ReloadReleased
<1>1. Init => ReleaseInv
  BY DEF Init, ReleaseInv
<1>2. IInv /\ ReleaseInv /\ [Next]_vars
        => ReleaseInv' /\ [reload # Idle => exit' # "panicReload"]_vars
  <2> SUFFICES ASSUME IInv, ReleaseInv, [Next]_vars
               PROVE  ReleaseInv' /\ [reload # Idle => exit' # "panicReload"]_vars
    OBVIOUS
  <2>1. CASE UNCHANGED vars
    BY <2>1 DEF vars, ReleaseInv
  <2>2. CASE Next /\ ~UNCHANGED vars
    BY <2>2, MainReleases, OthersRelease DEF Next, Ended, Released
  <2>3. QED
    BY <2>1, <2>2
<1>3. QED
  BY <1>1, <1>2, LauncherInvariant, PTL DEF Spec, ReloadReleased
-----------------------------------------------------------------------------
(***************************************************************************)
(* Whom stopBeater waits for.                                              *)
(***************************************************************************)

(* An error in beaterErr was sent by a goroutine that is through, and the  *)
(* beater stopBeater waits for was told to stop, or had failed before.     *)
LeavingInv ==
  /\ errCh # <<>> => errCh[1] \in DOMAIN beaters /\ beaters[errCh[1]].st = "done"
  /\ pc = "waitOld" => beaters[Current].st # "running"

(* The steps that leave the goroutines alone only take errors out.         *)
LEMMA QuietLeaves == ASSUME IInv, LeavingInv, QuietStep PROVE LeavingInv'
<1>1. UNCHANGED beaters
  BY DEF QuietStep, StartManager, ReconfigureReceive, ReconfigureTimeout, ReconfigureStopped,
         RunBeaterFails, WaitBeaterError, WaitStopSignal, WaitUpdate, StopBeaterDone,
         StopBeaterMergeFails, GraceStopped, GraceTimeout, ListenerCloseDone, ListenerCloseCh,
         ManagerStop, Stop, Reload, beaterVars
<1>2. errCh' = errCh \/ errCh' = <<>>
  <2>1. CASE WaitBeaterError
    <3>1. errCh \in Seq(Nat) /\ Len(errCh) <= 1
      BY DEF IInv, TypeOK
    <3>2. errCh # <<>> /\ errCh' = Tail(errCh)
      BY <2>1 DEF WaitBeaterError
    <3>3. QED
      BY <3>1, <3>2
  <2>2. CASE ~WaitBeaterError
    BY <2>2 DEF QuietStep, StartManager, ReconfigureReceive, ReconfigureTimeout,
           ReconfigureStopped, RunBeaterFails, WaitStopSignal, WaitUpdate, StopBeaterDone,
           StopBeaterMergeFails, GraceStopped, GraceTimeout, ListenerCloseDone,
           ListenerCloseCh, ManagerStop, Stop, Reload, beaterVars
  <2>3. QED
    BY <2>1, <2>2
<1>3. pc' = "waitOld" => pc = "waitOld"
  BY DEF QuietStep, StartManager, ReconfigureReceive, ReconfigureTimeout, ReconfigureStopped,
         RunBeaterFails, WaitBeaterError, WaitStopSignal, WaitUpdate, StopBeaterDone,
         StopBeaterMergeFails, GraceStopped, GraceTimeout, ListenerCloseDone, ListenerCloseCh,
         ManagerStop, Stop, Reload, Crash, Return
<1>4. QED
  BY <1>1, <1>2, <1>3 DEF LeavingInv, Current

(* Stop of a beater cancels its Run, or the process ends.                  *)
LEMMA CallStopLeaves ==
  ASSUME IInv, LeavingInv, StopOld \/ StopLast
  PROVE  LeavingInv'
<1>1. errCh' = errCh /\ Current \in DOMAIN beaters
  BY DEF StopOld, StopLast, CallStop, IInv, TypeOK, ControlOK, Current
<1>2. CASE beaters' = beaters
  <2>1. pc' = "waitOld" => beaters[Current].st # "running"
    <3>1. ASSUME beaters[Current].st = "running", beaters' = Moved(Current, "stopping")
          PROVE  FALSE
      BY <1>1, <1>2, <3>1, MovedGoroutine DEF OnlyMoves, GoroutineState, Live, IInv, TypeOK
    <3>2. QED
      BY <3>1 DEF StopOld, StopLast, CallStop, Crash
  <2>2. QED
    BY <1>1, <1>2, <2>1 DEF LeavingInv, Current
<1>3. CASE beaters' # beaters
  <2>1. beaters[Current].st = "running" /\ beaters' = Moved(Current, "stopping")
    BY <1>3 DEF StopOld, StopLast, CallStop
  <2>2. OnlyMoves(Current, "stopping")
    BY <1>1, <2>1, MovedGoroutine DEF GoroutineState, Live, IInv, TypeOK
  <2>3. QED
    BY <1>1, <2>1, <2>2 DEF LeavingInv, OnlyMoves, Current
<1>4. QED
  BY <1>2, <1>3

(* A goroutine that moves is not through yet; one that sends an error is.  *)
LEMMA GoroutineLeaves ==
  ASSUME IInv, LeavingInv, NEW b \in DOMAIN beaters, BeaterStep(b)
  PROVE  LeavingInv'
<1>1. CASE SendPanic(b) /\ errClosed
  BY <1>1 DEF SendPanic, Crash, LeavingInv
<1>2. CASE ~(SendPanic(b) /\ errClosed)
  <2>1. beaters[b].st # "done" /\ pc' = pc
    BY <1>2 DEF BeaterStep, RunReturns, RunFails, RunPanics, SendError, SendPanic, Live
  <2>2. PICK st \in GoroutineState \ {"running"} :
          beaters' = Moved(b, st) /\ (errCh' = errCh \/ (errCh' = <<b>> /\ st = "done"))
    <3>1. CASE RunReturns(b)
      BY <3>1 DEF RunReturns, GoroutineState
    <3>2. CASE RunFails(b)
      BY <3>2 DEF RunFails, GoroutineState
    <3>3. CASE RunPanics(b)
      BY <3>3 DEF RunPanics, GoroutineState
    <3>4. CASE SendError(b) /\ errClosed
      BY <3>4 DEF SendError, GoroutineState
    <3>5. CASE SendError(b) /\ ~errClosed
      BY <3>5 DEF SendError, GoroutineState
    <3>6. CASE SendPanic(b) /\ ~errClosed
      BY <3>6 DEF SendPanic, GoroutineState
    <3>7. QED
      BY <1>2, <3>1, <3>2, <3>3, <3>4, <3>5, <3>6 DEF BeaterStep
  <2>3. OnlyMoves(b, st)
    BY <2>2, MovedGoroutine DEF IInv, TypeOK
  <2>4. errCh' # <<>> => errCh'[1] \in DOMAIN beaters' /\ beaters'[errCh'[1]].st = "done"
    <3>1. CASE errCh' = errCh
      BY <2>1, <2>3, <3>1 DEF LeavingInv, OnlyMoves
    <3>2. CASE errCh' = <<b>> /\ st = "done"
      BY <2>3, <3>2 DEF OnlyMoves
    <3>3. QED
      BY <2>2, <3>1, <3>2
  <2>5. pc = "waitOld" => beaters'[Current'].st # "running"
    <3>1. Current' = Current
      BY <2>3 DEF OnlyMoves, Current
    <3>2. pc = "waitOld" => Current \in DOMAIN beaters
      BY DEF IInv, TypeOK, ControlOK, Current
    <3>3. CASE Current = b
      BY <2>2, <2>3, <3>1, <3>3 DEF OnlyMoves
    <3>4. CASE Current # b
      BY <2>3, <3>1, <3>2, <3>4 DEF OnlyMoves, LeavingInv
    <3>5. QED
      BY <3>3, <3>4
  <2>6. QED
    BY <2>1, <2>4, <2>5 DEF LeavingInv
<1>3. QED
  BY <1>1, <1>2

(* A new goroutine leaves the others where they are.                       *)
LEMMA RunBeaterLeaves == ASSUME IInv, LeavingInv, RunBeater PROVE LeavingInv'
<1>1. pc' = "wait" /\ errCh' = errCh
  BY DEF RunBeater
<1>2. \A i \in DOMAIN beaters : i \in DOMAIN beaters' /\ beaters'[i] = beaters[i]
  BY DEF RunBeater, IInv, TypeOK
<1>3. QED
  BY <1>1, <1>2 DEF LeavingInv

(* While stopBeater waits for the old beater, that beater can end: it was  *)
(* cancelled, or there is room for its error.  The only exception is the   *)
(* error of a beater that was replaced earlier, and Stop ends even that.   *)
THEOREM LauncherOldBeaterCanEnd == Spec => []OldBeaterCanEnd
<1>1. Init => LeavingInv
  BY DEF Init, LeavingInv
<1>2. IInv /\ LeavingInv /\ [Next]_vars => LeavingInv'
  <2> SUFFICES ASSUME IInv, LeavingInv, [Next]_vars PROVE LeavingInv'
    OBVIOUS
  <2>1. CASE UNCHANGED vars
    BY <2>1 DEF vars, LeavingInv, Current
  <2>2. CASE Next /\ ~UNCHANGED vars
    BY <2>2, QuietLeaves, CallStopLeaves, RunBeaterLeaves, GoroutineLeaves
       DEF Next, MainStep, QuietStep, Ended
  <2>3. QED
    BY <2>1, <2>2
<1>3. IInv /\ LeavingInv => OldBeaterCanEnd
  <2> SUFFICES ASSUME IInv, LeavingInv, pc = "waitOld", wg > 0,
                      beaters[Current].st # "stopping"
               PROVE  /\ beaters[Current].st = "sending"
                      /\ errClosed \/ errCh = <<>> \/ Leftover
    BY DEF OldBeaterCanEnd
  <2>1. beaters[Current].st = "sending"
    BY DEF IInv, TypeOK, WgExact, LeavingInv, Holding, Current
  <2>2. errCh # <<>> => errCh[1] \in 1..Current /\ errCh[1] # Current
    BY <2>1 DEF LeavingInv, IInv, TypeOK, Current
  <2>3. QED
    BY <2>1, <2>2 DEF Leftover, IInv, TypeOK, Current
<1>4. QED
  BY <1>1, <1>2, <1>3, LauncherInvariant, PTL DEF Spec
=============================================================================
