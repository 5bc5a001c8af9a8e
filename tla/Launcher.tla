------------------------------ MODULE Launcher ------------------------------
(***************************************************************************)
(* launcher/: the main goroutine (launcher.Run), the goroutine each beater *)
(* runs in (runBeater), libbeat's signal handler (launcher.Stop) and the   *)
(* Fleet manager's goroutine (Listener.Reload).  They share beaterErr, a   *)
(* channel of capacity one, the WaitGroup wg and the reloader's            *)
(* unbuffered channel.                                                     *)
(*                                                                         *)
(* One action is the code between two points where another goroutine can   *)
(* run: a channel operation, wg.Wait, a call of beater.Run or Stop.        *)
(***************************************************************************)
EXTENDS Integers, Sequences

CONSTANTS Base,        \* the configuration the process was started with
          Updates,     \* the configurations Fleet may send
          MaxReloads,  \* bound on the calls of Listener.Reload
          MayHang      \* may Run of a beater ignore its cancelled context?

Unset == "unset"
Config == [type : {Unset, "vuln_mgmt", "cspm"},
           benchmark : {Unset, "cis_aws", "unsupported"}]

ASSUME LauncherAssumption ==
  /\ Base \in Config
  /\ Updates \subseteq Config
  /\ MaxReloads \in Nat
  /\ MayHang \in BOOLEAN

VARIABLES
  managed,     \* b.Manager.Enabled()
  pc,          \* where launcher.Run is
  exit,        \* why it left runLoop ("none" before), or the panic that ended the process
  latest,      \* l.latest
  update,      \* the configuration runLoop received and has not merged yet
  accepted,    \* history: the updates launcher.Run received and applied, in order
  beaters,     \* one record per goroutine of runBeater, in order of creation
  wg,          \* the counter of l.wg
  errCh,       \* l.beaterErr: the beaters whose errors it buffers
  errClosed,   \* has launcher.Stop closed it?
  listener,    \* Listener.Stop: "open", "done" closed, "closed" (done and ch)
  reload,      \* Listener.Reload: the configuration it is blocked on, or Idle
  reloads      \* calls of Reload so far

vars == <<managed, pc, exit, latest, update, accepted, beaters, wg,
          errCh, errClosed, listener, reload, reloads>>

configVars == <<latest, update, accepted>>
beaterVars == <<beaters, wg, errCh, errClosed>>
reloadVars == <<listener, reload, reloads>>

Idle == [type |-> "idle", benchmark |-> "idle"]   \* no configuration
Panics == {"panicStop", "panicSend", "panicReload"}
Exits == {"graceful", "timeout", "error"} \cup Panics
Live == {"running", "stopping"}

-----------------------------------------------------------------------------
(* Configurations. *)

(* ucfg's MergeWithOpts(update, ReplaceArrValues): what update sets wins. *)
Overlay(old, new) == IF new = Unset THEN old ELSE new
Merge(c, u) == [type |-> Overlay(c.type, u.type),
                benchmark |-> Overlay(c.benchmark, u.benchmark)]

(* config.New, and hence validator.Validate. *)
Valid(c) == c.benchmark # "unsupported"

(* NewBeater: every type but vulnerability management is a posture beater. *)
IsPosture(c) == c.type # "vuln_mgmt"

(* posture.Stop closes flavorBase.client, which newPostureFromCfg leaves   *)
(* nil; vulnerability.Stop only cancels.                                   *)
StopPanics(c) == IsPosture(c)

-----------------------------------------------------------------------------
Init ==
  /\ managed \in BOOLEAN
  /\ pc = "start" /\ exit = "none"
  /\ latest = Base /\ update = Idle /\ accepted = <<>>
  /\ beaters = <<>> /\ wg = 0
  /\ errCh = <<>> /\ errClosed = FALSE
  /\ listener = "open" /\ reload = Idle /\ reloads = 0

Current == Len(beaters)
LiveBeaters == {b \in DOMAIN beaters : beaters[b].st \in Live}

Moved(b, st) == [beaters EXCEPT ![b].st = st]

(* An unrecovered panic in any goroutine ends the process. *)
Crash(cause) == exit' = cause /\ pc' = "end"

(* launcher.Run returns; deferred Manager.Stop runs in managed mode only. *)
Return(outcome) == exit' = outcome /\ pc' = "deferred"

-----------------------------------------------------------------------------
(* launcher.Run *)

(* b.Manager.Start; on failure Run returns before anything is deferred. *)
StartManager ==
  /\ pc = "start"
  /\ \/ pc' = (IF managed THEN "reconfigure" ELSE "create") /\ UNCHANGED exit
     \/ pc' = "end" /\ exit' = "error"
  /\ UNCHANGED <<managed, configVars, beaterVars, reloadVars>>

(* reconfigureWait receives an update: an invalid one is discarded and the *)
(* loop goes on, a valid one is merged into latest (configUpdate), where   *)
(* ucfg may refuse the merge.                                              *)
ReconfigureReceive ==
  /\ pc = "reconfigure" /\ reload # Idle
  /\ reload' = Idle
  /\ IF Valid(reload)
       THEN \/ /\ latest' = Merge(latest, reload)
               /\ accepted' = Append(accepted, reload)
               /\ pc' = "create"
               /\ UNCHANGED exit
            \/ Return("error") /\ UNCHANGED <<latest, accepted>>
       ELSE UNCHANGED <<latest, accepted, pc, exit>>
  /\ UNCHANGED <<managed, update, beaterVars, listener, reloads>>

(* reconfigureWait fails: ten minutes passed, or beaterErr is readable,    *)
(* which before the first beater means closed.  Run returns directly, so   *)
(* reloader.Stop is not called.                                            *)
ReconfigureTimeout ==
  /\ pc = "reconfigure"
  /\ Return("error")
  /\ UNCHANGED <<managed, configVars, beaterVars, reloadVars>>

ReconfigureStopped ==
  /\ pc = "reconfigure" /\ errClosed
  /\ Return("error")
  /\ UNCHANGED <<managed, configVars, beaterVars, reloadVars>>

(* runBeater: NewBeater succeeds, the goroutine starts. *)
RunBeater ==
  /\ pc = "create" /\ Valid(latest)
  /\ beaters' = Append(beaters, [st |-> "running", cfg |-> latest])
  /\ wg' = wg + 1
  /\ pc' = "wait"
  /\ UNCHANGED <<managed, exit, configVars, errCh, errClosed, reloadVars>>

(* runBeater: config.New rejects latest, or the flavor cannot be built     *)
(* (credentials, identity, publisher client); runLoop returns the error.   *)
RunBeaterFails ==
  /\ pc = "create"
  /\ exit' = "error" /\ pc' = "closeDone"
  /\ UNCHANGED <<managed, configVars, beaterVars, reloadVars>>

(* waitForUpdates: an error is buffered.  runLoop returns it. *)
WaitBeaterError ==
  /\ pc = "wait" /\ errCh # <<>>
  /\ errCh' = Tail(errCh)
  /\ exit' = "error" /\ pc' = "closeDone"
  /\ UNCHANGED <<managed, configVars, beaters, wg, errClosed, reloadVars>>

(* Mutant: the stop signal is taken only when the beater has finished. *)
WaitStopSignalFinished ==
  /\ pc = "wait" /\ errClosed /\ errCh = <<>> /\ wg = 0
  /\ pc' = "stopLast"
  /\ UNCHANGED <<managed, exit, configVars, beaterVars, reloadVars>>

(* waitForUpdates: beaterErr is closed and drained. *)
WaitStopSignal ==
  /\ pc = "wait" /\ errClosed /\ errCh = <<>>
  /\ pc' = "stopLast"
  /\ UNCHANGED <<managed, exit, configVars, beaterVars, reloadVars>>

(* waitForUpdates: a blocked Reload hands over its configuration. *)
WaitUpdate ==
  /\ pc = "wait" /\ reload # Idle
  /\ update' = reload /\ reload' = Idle
  /\ pc' = "stopOld"
  /\ UNCHANGED <<managed, exit, latest, accepted, beaterVars, listener, reloads>>

(* Mutant: Stop does not cancel the context of the beater's Run. *)
CallStopCancelsNothing(from, to) ==
  /\ pc = from
  /\ IF StopPanics(beaters[Current].cfg) THEN Crash("panicStop")
                                         ELSE pc' = to /\ UNCHANGED exit
  /\ UNCHANGED <<managed, configVars, beaterVars, reloadVars>>

(* l.beater.Stop() on the launcher's goroutine. *)
CallStop(from, to) ==
  /\ pc = from
  /\ IF StopPanics(beaters[Current].cfg)
       THEN Crash("panicStop") /\ UNCHANGED beaters
       ELSE /\ pc' = to /\ UNCHANGED exit
            /\ beaters' = IF beaters[Current].st = "running"
                            THEN Moved(Current, "stopping")
                            ELSE beaters
  /\ UNCHANGED <<managed, configVars, wg, errCh, errClosed, reloadVars>>

StopOld == CallStop("stopOld", "waitOld")

(* Mutants: stopBeater does not wait; the merge has its operands swapped. *)
StopBeaterNoWait ==
  /\ pc = "waitOld"
  /\ update' = Idle
  /\ latest' = Merge(latest, update)
  /\ accepted' = Append(accepted, update)
  /\ pc' = "create"
  /\ UNCHANGED <<managed, exit, beaterVars, reloadVars>>

StopBeaterSwappedMerge ==
  /\ pc = "waitOld" /\ wg = 0
  /\ update' = Idle
  /\ latest' = Merge(update, latest)
  /\ accepted' = Append(accepted, update)
  /\ pc' = "create"
  /\ UNCHANGED <<managed, exit, beaterVars, reloadVars>>

(* stopBeater's wg.Wait returns and configUpdate merges. *)
StopBeaterDone ==
  /\ pc = "waitOld" /\ wg = 0
  /\ update' = Idle
  /\ latest' = Merge(latest, update)
  /\ accepted' = Append(accepted, update)
  /\ pc' = "create"
  /\ UNCHANGED <<managed, exit, beaterVars, reloadVars>>

(* The same, with an update ucfg cannot merge: runLoop returns the error. *)
StopBeaterMergeFails ==
  /\ pc = "waitOld" /\ wg = 0
  /\ update' = Idle
  /\ exit' = "error" /\ pc' = "closeDone"
  /\ UNCHANGED <<managed, latest, accepted, beaterVars, reloadVars>>

StopLast == CallStop("stopLast", "grace")

(* Mutant: wgCh is closed at once. *)
GraceNotWaited ==
  /\ pc = "grace"
  /\ exit' = "graceful" /\ pc' = "closeDone"
  /\ UNCHANGED <<managed, configVars, beaterVars, reloadVars>>

(* stopBeaterWithTimeout's select: wgCh was closed, or 20 seconds passed. *)
GraceStopped ==
  /\ pc = "grace" /\ wg = 0
  /\ exit' = "graceful" /\ pc' = "closeDone"
  /\ UNCHANGED <<managed, configVars, beaterVars, reloadVars>>

GraceTimeout ==
  /\ pc = "grace"
  /\ exit' = "timeout" /\ pc' = "closeDone"
  /\ UNCHANGED <<managed, configVars, beaterVars, reloadVars>>

(* Mutant: the listener's done channel is not closed. *)
ListenerDoneLeftOpen ==
  /\ pc = "closeDone"
  /\ pc' = "closeCh"
  /\ UNCHANGED <<managed, exit, configVars, beaterVars, reloadVars>>

(* launcher.run calls reloader.Stop: close(done) wakes a blocked Reload,   *)
(* which drops its configuration; close(ch) would make it panic.           *)
ListenerCloseDone ==
  /\ pc = "closeDone"
  /\ listener' = "done" /\ reload' = Idle
  /\ pc' = "closeCh"
  /\ UNCHANGED <<managed, exit, configVars, beaterVars, reloads>>

ListenerCloseCh ==
  /\ pc = "closeCh"
  /\ listener' = "closed"
  /\ IF reload # Idle THEN Crash("panicReload") ELSE pc' = "deferred" /\ UNCHANGED exit
  /\ UNCHANGED <<managed, configVars, beaterVars, reload, reloads>>

(* The deferred Manager.Stop of managed mode, and the end of the process. *)
ManagerStop ==
  /\ pc = "deferred"
  /\ pc' = "end"
  /\ UNCHANGED <<managed, exit, configVars, beaterVars, reloadVars>>

-----------------------------------------------------------------------------
(* The goroutine of beater b. *)

RunReturns(b) ==
  /\ pc # "end" /\ beaters[b].st = "stopping"
  /\ beaters' = Moved(b, "done")
  /\ wg' = wg - 1
  /\ UNCHANGED <<managed, pc, exit, configVars, errCh, errClosed, reloadVars>>

RunFails(b) ==
  /\ pc # "end" /\ beaters[b].st \in Live
  /\ beaters' = Moved(b, "sending")
  /\ UNCHANGED <<managed, pc, exit, configVars, wg, errCh, errClosed, reloadVars>>

(* A panic unwinds: wg.Done is deferred last and runs before the recover. *)
RunPanics(b) ==
  /\ pc # "end" /\ beaters[b].st \in Live
  /\ beaters' = Moved(b, "recovering")
  /\ wg' = wg - 1
  /\ UNCHANGED <<managed, pc, exit, configVars, errCh, errClosed, reloadVars>>

(* beaterErr <- err after Run returned err, then wg.Done.  On a closed     *)
(* channel the send panics: wg.Done and the recover handler run.           *)
SendError(b) ==
  /\ pc # "end" /\ beaters[b].st = "sending"
  /\ errClosed \/ errCh = <<>>
  /\ errCh' = IF errClosed THEN errCh ELSE <<b>>
  /\ beaters' = Moved(b, IF errClosed THEN "recovering" ELSE "done")
  /\ wg' = wg - 1
  /\ UNCHANGED <<managed, pc, exit, configVars, errClosed, reloadVars>>

(* beaterErr <- "beater panic recovered", in the recover handler, where    *)
(* nothing recovers the panic of a send on a closed channel.               *)
SendPanic(b) ==
  /\ pc # "end" /\ beaters[b].st = "recovering"
  /\ errClosed \/ errCh = <<>>
  /\ IF errClosed
       THEN Crash("panicSend") /\ UNCHANGED <<beaters, errCh>>
       ELSE /\ errCh' = <<b>>
            /\ beaters' = Moved(b, "done")
            /\ UNCHANGED <<pc, exit>>
  /\ UNCHANGED <<managed, configVars, wg, errClosed, reloadVars>>

-----------------------------------------------------------------------------
(* libbeat calls launcher.Stop once, on a signal or when Fleet says so. *)
Stop ==
  /\ pc # "end" /\ ~errClosed
  /\ errClosed' = TRUE
  /\ UNCHANGED <<managed, pc, exit, configVars, beaters, wg, errCh, reloadVars>>

(* Listener.Reload, from Manager.Start until Manager.Stop: its select      *)
(* blocks while the listener is open, returns when done is closed, and may *)
(* pick the send on the closed ch when both are.                           *)
Reload ==
  /\ managed /\ pc \notin {"start", "end"} /\ reload = Idle /\ reloads < MaxReloads
  /\ reloads' = reloads + 1
  /\ \/ listener = "open" /\ (\E c \in Updates : reload' = c) /\ UNCHANGED <<pc, exit>>
     \/ listener # "open" /\ UNCHANGED <<reload, pc, exit>>
     \/ listener = "closed" /\ Crash("panicReload") /\ UNCHANGED reload
  /\ UNCHANGED <<managed, configVars, beaterVars, listener>>

(* The process is gone. *)
Ended == pc = "end" /\ UNCHANGED vars

-----------------------------------------------------------------------------
MainStep ==
  \/ StartManager \/ ReconfigureReceive \/ ReconfigureTimeout \/ ReconfigureStopped
  \/ RunBeater \/ RunBeaterFails
  \/ WaitBeaterError \/ WaitStopSignal \/ WaitUpdate
  \/ StopOld \/ StopBeaterDone \/ StopBeaterMergeFails
  \/ StopLast \/ GraceStopped \/ GraceTimeout
  \/ ListenerCloseDone \/ ListenerCloseCh \/ ManagerStop

BeaterStep(b) ==
  RunReturns(b) \/ RunFails(b) \/ RunPanics(b) \/ SendError(b) \/ SendPanic(b)

Next ==
  \/ MainStep
  \/ \E b \in DOMAIN beaters : BeaterStep(b)
  \/ Stop \/ Reload
  \/ Ended

Spec == Init /\ [][Next]_vars

(* The Go scheduler runs every goroutine that can run, and timers fire.    *)
(* Nobody promises a call of Stop or Reload, nor that a Run fails.  A Run  *)
(* whose context is cancelled returns, unless it MayHang in a cloud API.   *)
Beater == 1..(MaxReloads + 1)
HasBeater(b) == b \in DOMAIN beaters
Fairness ==
  /\ WF_vars(MainStep)
  /\ \A b \in Beater : /\ WF_vars(HasBeater(b) /\ (SendError(b) \/ SendPanic(b)))
                       /\ ~MayHang => WF_vars(HasBeater(b) /\ RunReturns(b))

FairSpec == Spec /\ Fairness
-----------------------------------------------------------------------------
Goroutine == [st : Live \cup {"sending", "recovering", "done"}, cfg : Config]
State == {"start", "reconfigure", "create", "wait", "stopOld", "waitOld", "stopLast",
          "grace", "closeDone", "closeCh", "deferred", "end"}

(* The types of the launcher's state; the WaitGroup counts one goroutine   *)
(* at most, and beaterErr holds one error at most.                         *)
TypeOK ==
  /\ managed \in BOOLEAN
  /\ pc \in State
  /\ exit \in Exits \cup {"none"}
  /\ latest \in Config
  /\ update \in Updates \cup {Idle}
  /\ accepted \in Seq(Updates)
  /\ beaters \in Seq(Goroutine)
  /\ wg \in {0, 1}
  /\ errCh \in Seq(Nat) /\ Len(errCh) <= 1
  /\ errClosed \in BOOLEAN
  /\ listener \in {"open", "done", "closed"}
  /\ reload \in Updates \cup {Idle}
  /\ reloads \in 0..MaxReloads

-----------------------------------------------------------------------------
(* When a beater is created the Run of every earlier one has returned: an  *)
(* update never overlaps two beaters, whichever way the old one ended      *)
(* ("we make sure that the old beater has really stopped").                *)
OneLiveBeater ==
  /\ LiveBeaters \subseteq {Current}
  /\ pc = "create" => LiveBeaters = {}

(* While stopBeater waits for the old beater, that beater is on its way    *)
(* out: its context is cancelled, or its error can be sent.  There is one  *)
(* exception, and with it the wait has no end before launcher.Stop: the    *)
(* error of a beater that was replaced earlier still fills beaterErr.      *)
Leftover == errCh # <<>> /\ errCh[1] < Current
OldBeaterCanEnd ==
  pc = "waitOld" /\ wg > 0 =>
    \/ beaters[Current].st = "stopping"
    \/ beaters[Current].st = "sending" /\ (errClosed \/ errCh = <<>> \/ Leftover)

(* ErrorGracefulExit is returned only after the beater has stopped, and    *)
(* nothing starts another one.                                             *)
GracefulMeansStopped == exit = "graceful" => LiveBeaters = {}

(* The configuration a beater runs with is the start configuration with    *)
(* every update the launcher took, in the order Fleet sent them: of each   *)
(* field it has what the latest update that sets it says, or else what the *)
(* start configuration had.  In managed mode there was an update, and the  *)
(* first of them passed the validator.                                     *)
Setting(field) == {i \in DOMAIN accepted : accepted[i][field] # Unset}
Wins(field, c) ==
  \/ Setting(field) = {} /\ c[field] = Base[field]
  \/ \E i \in Setting(field) : /\ \A j \in Setting(field) : j <= i
                               /\ c[field] = accepted[i][field]

ConfigIsMergeOfUpdates ==
  pc = "wait" => /\ \A field \in {"type", "benchmark"} : Wins(field, beaters[Current].cfg)
                 /\ Valid(beaters[Current].cfg)
                 /\ managed => accepted # <<>> /\ Valid(accepted[1])

(* The launcher, with its channels and WaitGroup, keeps the promise of the *)
(* abstract supervisor.                                                    *)
Promise == INSTANCE Supervisor
             WITH Beaters <- Beater, Reports <- Exits \ Panics, Deaths <- Panics,
                  live <- LiveBeaters, outcome <- exit
Supervises == Promise!Spec

(* After libbeat called launcher.Stop the process ends, one way or         *)
(* another: no wait of the launcher outlives the signal.                   *)
StopEnds == errClosed ~> pc = "end"

(* A call of Listener.Reload that is blocked while the launcher exits is   *)
(* released; it never meets the closed channel.                            *)
ReloadReleased == [][reload # Idle => exit' # "panicReload"]_vars

-----------------------------------------------------------------------------
(* Claims of the repository the code does not keep (see README). *)

(* "The beater run has returned (nil, err)" (waitForUpdates): an error     *)
(* ends the launcher only when the beater it supervises has returned.      *)
ErrorMeansReturned == exit = "error" => LiveBeaters = {}

(* "Stop stops posture": stopping a posture beater is survivable. *)
StopSurvives == exit # "panicStop"

(* "the launcher should stop without calling it [Stop]"                    *)
(* (TestLauncherErrorBeater): the error of a beater ends the launcher.     *)
ErrorEndsLauncher ==
  (\E b \in DOMAIN beaters : beaters[b].st = "sending") ~> pc = "end"
=============================================================================
