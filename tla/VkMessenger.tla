---------------------------- MODULE VkMessenger ----------------------------
(***************************************************************************)
(* The messenger of the social network VK (VkMessengerClient and           *)
(* VkBotSubsystem) with its settings (VkSettingsService).                  *)
(*                                                                         *)
(* Four actors share it.  The tasks that find an alarm put a line into the *)
(* queue of alerts and go on (tryEnqueueAlert).  The worker, a task that   *)
(* lives while the subsystem is on, takes the settings and the alerts      *)
(* twice a second and calls VK: a summary when the process has ended, the  *)
(* live status, the newest alert.  The web server changes the settings and *)
(* switches the subsystem, which creates the worker or ends it, by force   *)
(* when a call takes too long.  VK answers as it likes: an answer may be   *)
(* lost after the message was posted, or refuse because of the rate.       *)
(*                                                                         *)
(* Texts are left out: an alert is its number, a message of VK is the chat *)
(* it lies in.  Time is left out: a call may take longer than shutoff()    *)
(* waits, everything else of the worker is shorter.                        *)
(***************************************************************************)
EXTENDS Naturals, Sequences, SequencesExt, Functions

CONSTANTS
    kAlertQueueDepth, kVkPeriodTicks,   \* the constants of the code
    Chats,          \* where messages may go
    NoChat,         \* peer 0
    Settings,       \* settings the device may have been started with
    Bodies,         \* bodies of a request that changes them
    MaxAlerts,      \* bound: alerts are numbered up to it
    Limits          \* bounds: how many alerts, switches, changes of settings and ends of a process

Alerts == 1 .. MaxAlerts
NoAlert == 0
Peers == Chats \cup {NoChat}

\* VkSettings: of the token only whether there is one.
SettingsType ==
    [peer_id: Peers, access_token: BOOLEAN, live_enabled: BOOLEAN, alerts_enabled: BOOLEAN,
     summary_enabled: BOOLEAN, wall_post_enabled: BOOLEAN]
LimitsType == [alerts: 0 .. MaxAlerts, toggles: Nat, puts: Nat, ends: Nat]

ASSUME ConstantsAssumption ==
    /\ kAlertQueueDepth \in Nat \ {0} /\ kVkPeriodTicks \in Nat \ {0}
    /\ MaxAlerts \in Nat /\ NoChat \notin Chats
    /\ Settings \subseteq SettingsType /\ Limits \subseteq LimitsType

\* A key whose value is of another type is passed over: the bodies hold what remains.
ASSUME BodiesAssumption ==
    \A body \in Bodies : \A k \in DOMAIN body :
        body[k] \in IF k \in {"peer_id", "alerts_peer_id"} THEN Peers ELSE BOOLEAN

VARIABLES
    settings,       \* VkSettings of the service
    enabled,        \* SubsystemInfo::enabled of vk_bot
    web,            \* where the task of the web server is
    initialized,    \* _initialized
    taskHandle,     \* _taskHandle is set
    worker,         \* where the worker is
    httpMutex,      \* "free", "taken", or "lost": taken by a task that was deleted
    alertQueue,     \* _alertQueue
    producer,       \* the alert whose tryEnqueueAlert() passed its check and will enqueue
    client,         \* the fields of the client that only the worker and shutoff() use
    process,        \* the state of the rectification
    told,           \* alerts that VK has posted
    fresh,          \* alerts raised since the subsystem was switched on
    summaries,      \* summaries posted since a process has last ended
    left            \* what the bounds leave

vars == <<settings, enabled, web, initialized, taskHandle, worker, httpMutex, alertQueue, producer,
          client, process, told, fresh, summaries, left>>

outside == <<settings, enabled, web, initialized, producer, process, fresh, left>>

\* The copy of the settings, the messages of VK by their chats, what is pending.
NewClient(s) ==
    [cfg |-> s, liveMessage |-> NoChat, alertMessage |-> NoChat, pending |-> NoAlert,
     backoff |-> FALSE, retry |-> FALSE, lastRect |-> "IDLE", seen |-> "IDLE",
     liveTick |-> 0, alertTick |-> 0]

Calling == {"probe", "summary", "wall", "live", "delete", "alert"}
WorkerSteps == {"off", "check", "run", "tick", "flush"} \cup Calling
ProcessStates == {"IDLE", "RUNNING", "FINISHED"}

ClientType ==
    [cfg: SettingsType, liveMessage: Peers, alertMessage: Peers, pending: Alerts \cup {NoAlert},
     backoff: BOOLEAN, retry: BOOLEAN, lastRect: ProcessStates, seen: ProcessStates,
     liveTick: 0 .. kVkPeriodTicks - 1, alertTick: 0 .. kVkPeriodTicks - 1]

\* Every variable is of its type; the messages that may be edited or deleted lie in the chat the
\* client now writes to.
TypeOK ==
    /\ settings \in SettingsType /\ client \in ClientType
    /\ client.liveMessage \in {NoChat, client.cfg.peer_id}
    /\ client.alertMessage \in {NoChat, client.cfg.peer_id}
    /\ enabled \in BOOLEAN /\ initialized \in BOOLEAN /\ taskHandle \in BOOLEAN
    /\ web \in {"idle", "waiting", "deleting", "deleted"}
    /\ worker \in WorkerSteps
    /\ httpMutex \in {"free", "taken", "lost"}
    /\ alertQueue \in Seq(Alerts) /\ Len(alertQueue) <= kAlertQueueDepth
    /\ producer \in Alerts \cup {NoAlert}
    /\ process \in ProcessStates
    /\ told \subseteq Alerts /\ fresh \subseteq Alerts /\ summaries \in Nat
    /\ left \in LimitsType

-----------------------------------------------------------------------------
(***************************************************************************)
(* Settings.                                                               *)
(***************************************************************************)
\* updateVkSettings(): keys that are there; the chat of an old file only if there is none.
Updated(body, s) ==
    LET given == [k \in DOMAIN s |-> IF k \in DOMAIN body THEN body[k] ELSE s[k]]
    IN  IF given.peer_id = NoChat /\ "alerts_peer_id" \in DOMAIN body
        THEN [given EXCEPT !.peer_id = body["alerts_peer_id"]]
        ELSE given

\* VkBotHandler::updateSettings() and the endpoint of VkSettingsService.
UpdateSettings ==
    /\ web = "idle" /\ left.puts > 0
    /\ \E body \in Bodies : settings' = Updated(body, settings)
    /\ left' = [left EXCEPT !.puts = @ - 1]
    /\ UNCHANGED <<enabled, web, initialized, taskHandle, worker, httpMutex, alertQueue, producer,
                   client, process, told, fresh, summaries>>

\* reloadSettingsSnapshot(): messages of another chat are forgotten.
\* Mutant of Reloaded: the ids survive a change of the chat.
ReloadedKeepingIds(c) == [c EXCEPT !.cfg = settings]
Reloaded(c) ==
    IF c.cfg.peer_id # NoChat /\ settings.peer_id # c.cfg.peer_id
    THEN [c EXCEPT !.cfg = settings, !.liveMessage = NoChat, !.alertMessage = NoChat]
    ELSE [c EXCEPT !.cfg = settings]

-----------------------------------------------------------------------------
(***************************************************************************)
(* Producers.                                                              *)
(***************************************************************************)
\* tryEnqueueAlert() checks that the client is on, and another task may run before it enqueues.
RaiseAlert ==
    /\ left.alerts > 0 /\ producer = NoAlert
    /\ LET a == MaxAlerts - left.alerts + 1
       IN  /\ producer' = IF initialized THEN a ELSE NoAlert
           /\ fresh' = fresh \cup {a}
    /\ left' = [left EXCEPT !.alerts = @ - 1]
    /\ UNCHANGED <<settings, enabled, web, initialized, taskHandle, worker, httpMutex, alertQueue,
                   client, process, told, summaries>>

\* xQueueSend() without waiting: the newest is dropped when the queue is full.
EnqueueAlert ==
    /\ producer # NoAlert
    /\ alertQueue' = IF Len(alertQueue) < kAlertQueueDepth THEN Append(alertQueue, producer) ELSE alertQueue
    /\ producer' = NoAlert
    /\ UNCHANGED <<settings, enabled, web, initialized, taskHandle, worker, httpMutex, client, process,
                   told, fresh, summaries, left>>

-----------------------------------------------------------------------------
(***************************************************************************)
(* The switch: SubsystemManager::enableSubsystem(), disableSubsystem()     *)
(* with init() and shutoff() of the client.                                *)
(***************************************************************************)
\* init() empties the queue, and a process that has ended before is not news.
\* Mutant of Drained: it trusts that shutoff() has done so.
DrainedNot == alertQueue
Drained == << >>

\* The task may not be created for want of memory: the switch stays on all the same.
Enable ==
    /\ web = "idle" /\ ~enabled /\ left.toggles > 0
    /\ enabled' = TRUE
    /\ alertQueue' = Drained
    /\ client' = [Reloaded(client) EXCEPT !.lastRect = process]
    /\ fresh' = {producer} \ {NoAlert}
    /\ \E created \in BOOLEAN :
         /\ initialized' = created /\ taskHandle' = created
         /\ worker' = IF created THEN "check" ELSE "off"
    /\ left' = [left EXCEPT !.toggles = @ - 1]
    /\ UNCHANGED <<settings, web, httpMutex, producer, process, told, summaries>>

Disable ==
    /\ web = "idle" /\ enabled /\ left.toggles > 0
    /\ web' = "waiting" /\ initialized' = FALSE
    /\ left' = [left EXCEPT !.toggles = @ - 1]
    /\ UNCHANGED <<settings, enabled, taskHandle, worker, httpMutex, alertQueue, producer, client,
                   process, told, fresh, summaries>>

\* The end of shutoff(), and of the switch.
Off ==
    /\ alertQueue' = << >>
    /\ client' = [client EXCEPT !.liveMessage = NoChat, !.alertMessage = NoChat, !.pending = NoAlert,
                                !.backoff = FALSE, !.retry = FALSE, !.cfg.access_token = FALSE]
    /\ enabled' = FALSE /\ web' = "idle"

WorkerGone ==
    /\ web = "waiting" /\ ~taskHandle
    /\ Off
    /\ UNCHANGED <<settings, initialized, taskHandle, worker, httpMutex, producer, process, told, fresh,
                   summaries, left>>

WaitedOut ==
    /\ web = "waiting" /\ taskHandle /\ worker \in Calling
    /\ web' = "deleting"
    /\ UNCHANGED <<settings, enabled, initialized, taskHandle, worker, httpMutex, alertQueue, producer,
                   client, process, told, fresh, summaries, left>>

\* vTaskDelete(): a lock of the worker is never given back.  If the worker has just cleared the
\* handle, the call deletes the task that makes it.
DeleteWorker ==
    /\ web = "deleting"
    /\ IF taskHandle
       THEN /\ Off
            /\ worker' = "off" /\ taskHandle' = FALSE
            /\ httpMutex' = IF httpMutex = "taken" THEN "lost" ELSE httpMutex
       ELSE /\ web' = "deleted"
            /\ UNCHANGED <<worker, taskHandle, httpMutex, alertQueue, client, enabled>>
    /\ UNCHANGED <<settings, initialized, producer, process, told, fresh, summaries, left>>

-----------------------------------------------------------------------------
(***************************************************************************)
(* The worker: workerTask() and runLoop().                                 *)
(***************************************************************************)
Client(c) == client' = c
StepTo(pc) == worker' = pc

\* The head of the loop and the delay of 500 ms.
Check ==
    /\ worker = "check"
    /\ StepTo(IF initialized THEN "probe" ELSE "off")
    /\ taskHandle' = initialized
    /\ UNCHANGED outside /\ UNCHANGED <<httpMutex, alertQueue, client, told, summaries>>

\* isVkApiReachable(): the answer of now or one of the last minute.
Probe(reachable) ==
    /\ worker = "probe"
    /\ StepTo(IF reachable THEN "run" ELSE "check")
    /\ UNCHANGED outside /\ UNCHANGED <<taskHandle, httpMutex, alertQueue, client, told, summaries>>

\* Settings, alerts (only the newest is kept) and the state of the process.
Newest(c) == IF alertQueue = << >> THEN c.pending ELSE Last(alertQueue)
HasEnded(c) == c.lastRect # "FINISHED" /\ process = "FINISHED"
Run ==
    /\ worker = "run"
    /\ LET c == [Reloaded(client) EXCEPT !.pending = Newest(client), !.seen = process]
       IN  /\ Client(c)
           /\ StepTo(CASE HasEnded(c) /\ c.cfg.access_token /\ c.cfg.summary_enabled
                            /\ c.cfg.peer_id # NoChat -> "summary"
                       [] HasEnded(c) /\ c.cfg.access_token /\ c.cfg.wall_post_enabled
                            /\ ~(c.cfg.summary_enabled /\ c.cfg.peer_id # NoChat) -> "wall"
                       [] OTHER -> "tick")
    /\ alertQueue' = << >>
    /\ UNCHANGED outside /\ UNCHANGED <<taskHandle, httpMutex, told, summaries>>

\* MutexLocker: taken before the first call of a block, which waits for ever when it is lost.
TakeLock ==
    /\ worker \in Calling \ {"probe"} /\ httpMutex = "free"
    /\ httpMutex' = "taken"
    /\ UNCHANGED outside /\ UNCHANGED <<taskHandle, worker, alertQueue, client, told, summaries>>

Holding(pc) == worker = pc /\ httpMutex = "taken"

\* What a call comes to: posted and answered, posted and the answer lost, not posted, refused
\* because of the rate, refused because the message is gone or too old.
Outcomes == {"ok", "lost", "failed", "flood", "gone"}
Posted(o) == o \in {"ok", "lost"}
\* applyLiveVkBackoff() for vkErrorIsRateOrFlood().
Backoff(c, o) == [c EXCEPT !.backoff = @ \/ o = "flood"]

CallSummary(o) ==
    /\ Holding("summary")
    /\ Client(Backoff(client, o))
    /\ summaries' = IF Posted(o) THEN summaries + 1 ELSE summaries
    /\ StepTo(IF client.cfg.wall_post_enabled THEN "wall" ELSE "tick")
    /\ httpMutex' = IF client.cfg.wall_post_enabled THEN "taken" ELSE "free"
    /\ UNCHANGED outside /\ UNCHANGED <<taskHandle, alertQueue, told>>

\* postWall() passes over every error.
CallWall ==
    /\ Holding("wall")
    /\ StepTo("tick") /\ httpMutex' = "free"
    /\ UNCHANGED outside /\ UNCHANGED <<taskHandle, alertQueue, client, told, summaries>>

\* Which cycle is due.  An edit that the rate refused is tried again as soon as it may be.
Early(c) == c.retry /\ c.liveMessage # NoChat /\ ~c.backoff
LiveDue(c) == Early(c) \/ c.liveTick + 1 >= kVkPeriodTicks
AlertDue(c) == c.alertTick + 1 >= kVkPeriodTicks
NextTick(due, t) == IF due THEN 0 ELSE t + 1
MayCall(c) == c.cfg.peer_id # NoChat /\ c.cfg.access_token /\ ~c.backoff

Tick ==
    /\ worker = "tick"
    /\ Client([client EXCEPT !.lastRect = client.seen,   \* whatever became of the summary
                             !.liveTick = NextTick(LiveDue(client), @)])
    /\ StepTo(IF LiveDue(client) /\ MayCall(client) /\ client.cfg.live_enabled THEN "live" ELSE "flush")
    /\ UNCHANGED outside /\ UNCHANGED <<taskHandle, httpMutex, alertQueue, told, summaries>>

\* editLiveMessage(): only a message that is gone makes room for a new one, the rate never does
\* (vkEditErrorNeedsNewMessage()).
Edited(c, o) ==
    CASE o = "ok" -> [c EXCEPT !.retry = FALSE]
      [] o = "flood" -> [c EXCEPT !.retry = TRUE]
      [] o = "gone" -> [c EXCEPT !.liveMessage = NoChat, !.retry = FALSE]
      [] OTHER -> c

\* runLiveCycle(): a new message, or an edit of the one that is known.
CallLive(o) ==
    /\ Holding("live")
    /\ Client(CASE client.liveMessage # NoChat -> Edited(Backoff(client, o), o)
                [] client.liveMessage = NoChat /\ o = "ok" ->
                        [client EXCEPT !.liveMessage = client.cfg.peer_id]
                [] OTHER -> Backoff(client, o))
    /\ StepTo("flush") /\ httpMutex' = "free"
    /\ UNCHANGED outside /\ UNCHANGED <<taskHandle, alertQueue, told, summaries>>

\* flushAlertMessageIfDue() up to its first call: a backoff that the status has just caused holds
\* the alert back as well.
Flush ==
    /\ worker = "flush"
    /\ Client([client EXCEPT !.alertTick = NextTick(AlertDue(client), @)])
    /\ StepTo(IF ~AlertDue(client) \/ ~client.cfg.alerts_enabled \/ ~MayCall(client) \/ client.pending = NoAlert
              THEN "check"
              ELSE IF client.alertMessage = NoChat THEN "alert" ELSE "delete")
    /\ UNCHANGED outside /\ UNCHANGED <<taskHandle, httpMutex, alertQueue, told, summaries>>

\* The old alert is forgotten, deleted or not, and the new one is sent at once.
CallDelete(o) ==
    /\ Holding("delete")
    /\ Client([Backoff(client, o) EXCEPT !.alertMessage = NoChat])
    /\ StepTo("alert")
    /\ UNCHANGED outside /\ UNCHANGED <<taskHandle, httpMutex, alertQueue, told, summaries>>

\* An alert stays pending until VK has answered.  Mutant of Settled: it is dropped after one try.
SettledAtOnce(c, o) == [c EXCEPT !.pending = NoAlert]
Settled(c, o) ==
    IF o = "ok" THEN [c EXCEPT !.alertMessage = c.cfg.peer_id, !.pending = NoAlert] ELSE c
CallAlert(o) ==
    /\ Holding("alert")
    /\ Client(Settled(Backoff(client, o), o))
    /\ told' = IF Posted(o) THEN told \cup {client.pending} ELSE told
    /\ StepTo("check") /\ httpMutex' = "free"
    /\ UNCHANGED outside /\ UNCHANGED <<taskHandle, alertQueue, summaries>>

Worker ==
    \/ Check \/ Run \/ TakeLock \/ CallWall \/ Tick \/ Flush
    \/ \E reachable \in BOOLEAN : Probe(reachable)
    \/ \E o \in Outcomes : CallSummary(o) \/ CallLive(o) \/ CallDelete(o) \/ CallAlert(o)

-----------------------------------------------------------------------------
(***************************************************************************)
(* The rest of the world.                                                  *)
(***************************************************************************)
BackoffEnds ==
    /\ client.backoff
    /\ Client([client EXCEPT !.backoff = FALSE])
    /\ UNCHANGED outside
    /\ UNCHANGED <<taskHandle, worker, httpMutex, alertQueue, told, summaries>>

ProcessStarts ==
    /\ process # "RUNNING" /\ left.ends > 0
    /\ process' = "RUNNING"
    /\ UNCHANGED <<settings, enabled, web, initialized, taskHandle, worker, httpMutex, alertQueue,
                   producer, client, told, fresh, summaries, left>>

ProcessEnds ==
    /\ process = "RUNNING" /\ left.ends > 0
    /\ process' = "FINISHED" /\ summaries' = 0
    /\ left' = [left EXCEPT !.ends = @ - 1]
    /\ UNCHANGED <<settings, enabled, web, initialized, taskHandle, worker, httpMutex, alertQueue,
                   producer, client, told, fresh>>

Init ==
    /\ settings \in Settings /\ client = NewClient(settings)
    /\ enabled = FALSE /\ web = "idle" /\ initialized = FALSE /\ taskHandle = FALSE
    /\ worker = "off" /\ httpMutex = "free" /\ alertQueue = << >> /\ producer = NoAlert
    /\ process = "IDLE" /\ told = {} /\ fresh = {} /\ summaries = 0
    /\ left \in Limits

Web == UpdateSettings \/ Enable \/ Disable \/ WorkerGone \/ WaitedOut \/ DeleteWorker

Next == RaiseAlert \/ EnqueueAlert \/ Web \/ Worker \/ BackoffEnds \/ ProcessStarts \/ ProcessEnds

Spec == Init /\ [][Next]_vars

\* The tasks run; shutoff() comes to its end; a backoff is a matter of time; VK does not refuse
\* for ever: among calls repeated without end some succeed.
Fairness ==
    /\ WF_vars(EnqueueAlert) /\ WF_vars(WorkerGone \/ WaitedOut \/ DeleteWorker)
    /\ WF_vars(Worker) /\ WF_vars(BackoffEnds)
    /\ SF_vars(Probe(TRUE)) /\ SF_vars(CallLive("ok")) /\ SF_vars(CallAlert("ok"))

FairSpec == Spec /\ Fairness

-----------------------------------------------------------------------------
(***************************************************************************)
(* Properties.                                                             *)
(***************************************************************************)
\* A subsystem that is off calls VK no more: when the switch says so the worker is gone
\* (shutoff() waits and deletes it), though a call may outlive the wait and the switch may be
\* thrown again at once.
OffMeansStopped == ~enabled => worker = "off" /\ ~taskHandle

\* An alert from before the subsystem was switched off is not sent when it is on again, however
\* the producers' check, the two resets of the queue and the worker interleave.  One alert may
\* be: the one whose producer stood between its check and the queue all that time.
NoStaleAlert == initialized => ToSet(alertQueue) \cup {client.pending} \subseteq fresh \cup {NoAlert}

\* The summary of a process is posted once at most: a lost answer, a change of the settings or
\* switching off and on never repeats it.
SummaryOnce == summaries <= 1

\* The three together: what is switched off stays silent, no alert of an earlier period waits to be
\* told in this one, and the summary is not repeated.  Of alerts nothing is said here about once:
\* one whose answer is lost is posted again.
MessengerSafe == OffMeansStopped /\ NoStaleAlert /\ SummaryOnce

\* An alert that was accepted is posted, or a newer one in its place, or the messenger cannot tell
\* it: it is switched off, alerts are off, or a worker was deleted in a call and took the
\* lock of HTTP with it.
Waiting(a) == a \in ToSet(alertQueue) \/ client.pending = a
CannotTell ==
    \/ ~initialized \/ httpMutex = "lost"
    \/ ~settings.alerts_enabled \/ ~settings.access_token \/ settings.peer_id = NoChat
AlertDelivered == \A a \in Alerts : Waiting(a) ~> (\E b \in told : b >= a) \/ CannotTell
=============================================================================
