--------------------------- MODULE MessengerProofs ---------------------------
(***************************************************************************)
(* Proofs about the messenger of VK, for any length of its queue, any      *)
(* period of its cycles, any settings and any number of alerts, switches   *)
(* and processes: the types, and that the messenger is safe.               *)
(***************************************************************************)
EXTENDS VkMessenger, TLAPS

-----------------------------------------------------------------------------
(* Settings and the fields of the client.                                  *)

\* The messages that may be edited or deleted lie in the chat of the copied settings.
Fits(c) == c.liveMessage \in {NoChat, c.cfg.peer_id} /\ c.alertMessage \in {NoChat, c.cfg.peer_id}

\* What the summaries and the alerts depend on.
SameNews(c, d) == c.pending = d.pending /\ c.seen = d.seen /\ c.lastRect = d.lastRect

LEMMA UpdatedType ==
  ASSUME NEW s \in SettingsType, NEW body \in Bodies
  PROVE  Updated(body, s) \in SettingsType
<1> DEFINE given == [k \in DOMAIN s |-> IF k \in DOMAIN body THEN body[k] ELSE s[k]]
           keys == {"peer_id", "access_token", "live_enabled", "alerts_enabled", "summary_enabled",
                    "wall_post_enabled"}
<1>1. DOMAIN s = keys
  BY DEF SettingsType
<1>2. s["peer_id"] \in Peers /\ \A k \in keys \ {"peer_id"} : s[k] \in BOOLEAN
  BY DEF SettingsType
<1>3. \A k \in DOMAIN body : body[k] \in IF k \in {"peer_id", "alerts_peer_id"} THEN Peers ELSE BOOLEAN
  BY BodiesAssumption
<1>4. given["peer_id"] \in Peers /\ \A k \in keys \ {"peer_id"} : given[k] \in BOOLEAN
  BY <1>1, <1>2, <1>3
<1>5. given = [peer_id |-> given["peer_id"], access_token |-> given["access_token"],
               live_enabled |-> given["live_enabled"], alerts_enabled |-> given["alerts_enabled"],
               summary_enabled |-> given["summary_enabled"],
               wall_post_enabled |-> given["wall_post_enabled"]]
  BY <1>1
<1> HIDE DEF given
<1>6. given \in SettingsType
  BY <1>4, <1>5 DEF SettingsType
<1>7. "alerts_peer_id" \in DOMAIN body => body["alerts_peer_id"] \in Peers
  BY <1>3
<1>8. "alerts_peer_id" \in DOMAIN body =>
        [given EXCEPT !.peer_id = body["alerts_peer_id"]] \in SettingsType
  BY <1>6, <1>7 DEF SettingsType
<1>9. Updated(body, s) \in {given, [given EXCEPT !.peer_id = body["alerts_peer_id"]]}
  BY Zenon DEF Updated, given
<1> QED
  BY <1>6, <1>8, Zenon DEF Updated, given

LEMMA ReloadedType ==
  ASSUME settings \in SettingsType, NEW c \in ClientType, Fits(c)
  PROVE  Reloaded(c) \in ClientType /\ Fits(Reloaded(c)) /\ SameNews(Reloaded(c), c)
<1>1. settings.peer_id \in Peers /\ NoChat \in Peers
  BY DEF SettingsType, Peers
<1>2. CASE c.cfg.peer_id # NoChat /\ settings.peer_id # c.cfg.peer_id
  BY <1>1, <1>2 DEF Reloaded, ClientType, Fits, SameNews
<1>3. CASE ~(c.cfg.peer_id # NoChat /\ settings.peer_id # c.cfg.peer_id)
  BY <1>1, <1>3 DEF Reloaded, ClientType, Fits, SameNews
<1> QED
  BY <1>2, <1>3

LEMMA BackoffType ==
  ASSUME NEW c \in ClientType, NEW o
  PROVE  /\ Backoff(c, o) \in ClientType /\ SameNews(Backoff(c, o), c)
         /\ Backoff(c, o).cfg = c.cfg /\ Backoff(c, o).liveMessage = c.liveMessage
         /\ Backoff(c, o).alertMessage = c.alertMessage
<1> DEFINE waits == c.backoff \/ o = "flood"
<1>1. waits \in BOOLEAN
  BY DEF ClientType
<1>2. Backoff(c, o) = [c EXCEPT !.backoff = waits]
  BY Zenon DEF Backoff
<1> HIDE DEF waits
<1> QED
  BY <1>1, <1>2 DEF ClientType, SameNews

LEMMA EditedType ==
  ASSUME NEW c \in ClientType, Fits(c), NEW o
  PROVE  Edited(c, o) \in ClientType /\ Fits(Edited(c, o)) /\ SameNews(Edited(c, o), c)
BY DEF Edited, ClientType, Fits, SameNews, Peers

LEMMA TicksType ==
  ASSUME NEW c \in ClientType
  PROVE  /\ NextTick(LiveDue(c), c.liveTick) \in 0 .. kVkPeriodTicks - 1
         /\ NextTick(AlertDue(c), c.alertTick) \in 0 .. kVkPeriodTicks - 1
BY ConstantsAssumption DEF NextTick, LiveDue, AlertDue, ClientType

-----------------------------------------------------------------------------
(* The inductive invariant.                                                *)

\* What is off has no worker, no handle, no pending alert; a switch is thrown off in three steps.
OffInv ==
    /\ ~enabled => /\ worker = "off" /\ ~taskHandle /\ web = "idle" /\ ~initialized
                   /\ client.pending = NoAlert
    /\ web # "idle" => enabled /\ ~initialized
    /\ ~taskHandle => worker = "off"

\* What waits to be told was raised since the switch was thrown on.
AlertInv ==
    /\ producer \in fresh \cup {NoAlert}
    /\ initialized => /\ \A i \in 1 .. Len(alertQueue) : alertQueue[i] \in fresh
                      /\ client.pending \in fresh \cup {NoAlert}
    /\ worker \in {"delete", "alert"} => client.pending # NoAlert

\* A summary is on its way only when none was posted of the process that ended last; when one was,
\* the worker knows of that end, or will before it looks again.
SummaryInv ==
    /\ worker = "summary" => summaries = 0 /\ client.seen = "FINISHED"
    /\ summaries <= 1
    /\ summaries >= 1 /\ process = "FINISHED" =>
          /\ client.seen = "FINISHED"
          /\ worker \in {"off", "wall", "tick"} \/ client.lastRect = "FINISHED"

IInv == TypeOK /\ OffInv /\ AlertInv /\ SummaryInv

LEMMA SafeFromInv == IInv => MessengerSafe
<1> SUFFICES ASSUME IInv PROVE MessengerSafe
  OBVIOUS
<1>1. ToSet(alertQueue) = {alertQueue[i] : i \in 1 .. Len(alertQueue)}
  BY DEF ToSet, IInv, TypeOK
<1> QED
  BY <1>1 DEF IInv, OffInv, AlertInv, SummaryInv, MessengerSafe, OffMeansStopped, NoStaleAlert, SummaryOnce

LEMMA InvInit == Init => IInv
<1> SUFFICES ASSUME Init PROVE IInv
  OBVIOUS
<1>1. settings \in SettingsType /\ left \in LimitsType
  BY ConstantsAssumption DEF Init
<1>2. client \in ClientType /\ Fits(client)
  BY <1>1, ConstantsAssumption DEF Init, NewClient, ClientType, Fits, Peers, ProcessStates
<1>3. alertQueue \in Seq(Alerts) /\ Len(alertQueue) <= kAlertQueueDepth
  BY ConstantsAssumption DEF Init
<1>4. TypeOK
  BY <1>1, <1>2, <1>3 DEF Init, TypeOK, Fits, WorkerSteps, ProcessStates
<1> QED
  BY <1>4 DEF Init, IInv, OffInv, AlertInv, SummaryInv, NewClient

-----------------------------------------------------------------------------
(* Steps of the web server, of the producers and of the rectification.     *)

LEMMA LeftType ==
  ASSUME left \in LimitsType
  PROVE  /\ left.alerts > 0 => [left EXCEPT !.alerts = @ - 1] \in LimitsType
         /\ left.toggles > 0 => [left EXCEPT !.toggles = @ - 1] \in LimitsType
         /\ left.puts > 0 => [left EXCEPT !.puts = @ - 1] \in LimitsType
         /\ left.ends > 0 => [left EXCEPT !.ends = @ - 1] \in LimitsType
<1>1. /\ left.alerts > 0 => left.alerts - 1 \in 0 .. MaxAlerts
      /\ left.toggles > 0 => left.toggles - 1 \in Nat
      /\ left.puts > 0 => left.puts - 1 \in Nat
      /\ left.ends > 0 => left.ends - 1 \in Nat
  BY ConstantsAssumption DEF LimitsType
<1> QED
  BY <1>1 DEF LimitsType

LEMMA EmptyFits == << >> \in Seq(Alerts) /\ Len(<< >>) = 0 /\ Len(<< >>) <= kAlertQueueDepth
BY ConstantsAssumption

LEMMA SettingsStep ==
  ASSUME IInv, UpdateSettings
  PROVE  IInv'
<1>1. settings' \in SettingsType
  BY UpdatedType DEF UpdateSettings, IInv, TypeOK
<1>2. left' \in LimitsType
  BY LeftType DEF UpdateSettings, IInv, TypeOK
<1> QED
  BY <1>1, <1>2 DEF UpdateSettings, IInv, TypeOK, OffInv, AlertInv, SummaryInv

LEMMA ProducerStep ==
  ASSUME IInv, RaiseAlert \/ EnqueueAlert
  PROVE  IInv'
<1>1. CASE RaiseAlert
  <2> DEFINE a == MaxAlerts - left.alerts + 1
  <2>1. a \in Alerts
    BY <1>1, ConstantsAssumption DEF RaiseAlert, IInv, TypeOK, LimitsType, Alerts
  <2>2. /\ producer' = (IF initialized THEN a ELSE NoAlert) /\ fresh' = fresh \cup {a}
        /\ UNCHANGED <<settings, enabled, web, initialized, taskHandle, worker, httpMutex, alertQueue,
                       client, process, told, summaries>>
    BY <1>1 DEF RaiseAlert
  <2>3. left' \in LimitsType
    BY <1>1, LeftType DEF RaiseAlert, IInv, TypeOK
  <2> HIDE DEF a
  <2>4. TypeOK'
    BY <2>1, <2>2, <2>3 DEF IInv, TypeOK
  <2>5. AlertInv'
    BY <2>2 DEF IInv, AlertInv
  <2> QED
    BY <2>2, <2>4, <2>5 DEF IInv, OffInv, SummaryInv
<1>2. CASE EnqueueAlert
  <2>1. /\ producer # NoAlert /\ producer' = NoAlert
        /\ alertQueue' = IF Len(alertQueue) < kAlertQueueDepth THEN Append(alertQueue, producer)
                         ELSE alertQueue
        /\ UNCHANGED <<settings, enabled, web, initialized, taskHandle, worker, httpMutex, client,
                       process, told, fresh, summaries, left>>
    BY <1>2 DEF EnqueueAlert
  <2>2. /\ alertQueue \in Seq(Alerts) /\ producer \in Alerts /\ producer \in fresh
        /\ Len(alertQueue) <= kAlertQueueDepth
    BY <2>1 DEF IInv, TypeOK, AlertInv
  <2>3. alertQueue' \in Seq(Alerts) /\ Len(alertQueue') <= kAlertQueueDepth
    BY <2>1, <2>2, ConstantsAssumption
  <2>4. TypeOK'
    BY <2>1, <2>3 DEF IInv, TypeOK
  <2>5. initialized => \A i \in 1 .. Len(alertQueue') : alertQueue'[i] \in fresh
    BY <2>1, <2>2 DEF IInv, AlertInv
  <2> QED
    BY <2>1, <2>4, <2>5 DEF IInv, OffInv, AlertInv, SummaryInv
<1> QED
  BY <1>1, <1>2

LEMMA EnableStep ==
  ASSUME IInv, Enable
  PROVE  IInv'
<1>0. /\ settings \in SettingsType /\ client \in ClientType /\ Fits(client) /\ process \in ProcessStates
      /\ worker = "off" /\ ~taskHandle /\ ~initialized /\ client.pending = NoAlert
      /\ left \in LimitsType
  BY DEF Enable, IInv, TypeOK, OffInv, Fits
<1>1. PICK created \in BOOLEAN :
        /\ initialized' = created /\ taskHandle' = created
        /\ worker' = IF created THEN "check" ELSE "off"
  BY DEF Enable
<1>2. /\ web = "idle" /\ enabled' = TRUE /\ alertQueue' = << >> /\ fresh' = {producer} \ {NoAlert}
      /\ client' = [Reloaded(client) EXCEPT !.lastRect = process]
      /\ UNCHANGED <<settings, web, httpMutex, producer, process, told, summaries>>
  BY DEF Enable, Drained
<1>3. /\ Reloaded(client) \in ClientType /\ Fits(Reloaded(client))
      /\ SameNews(Reloaded(client), client)
  BY <1>0, ReloadedType
<1>4. /\ client' \in ClientType /\ Fits(client') /\ client'.pending = NoAlert
      /\ client'.lastRect = process /\ client'.seen = client.seen
  BY <1>0, <1>2, <1>3 DEF ClientType, Fits, SameNews
<1>5. left' \in LimitsType
  BY <1>0, LeftType DEF Enable
<1>6. alertQueue' \in Seq(Alerts) /\ Len(alertQueue') = 0
  BY <1>2
<1>7. TypeOK'
  BY <1>1, <1>2, <1>4, <1>5, <1>6, ConstantsAssumption DEF IInv, TypeOK, Fits, WorkerSteps
<1>8. OffInv'
  BY <1>1, <1>2 DEF OffInv
<1>9. AlertInv'
  BY <1>1, <1>2, <1>4, <1>6 DEF AlertInv
<1>10. SummaryInv'
  BY <1>1, <1>2, <1>4 DEF IInv, SummaryInv
<1> QED
  BY <1>7, <1>8, <1>9, <1>10 DEF IInv

LEMMA OffStep ==
  ASSUME IInv, Off, worker' = "off", taskHandle' = FALSE, ~initialized,
         UNCHANGED <<settings, initialized, producer, process, told, fresh, summaries, left>>,
         httpMutex' \in {"free", "taken", "lost"}
  PROVE  IInv'
<1>0. client \in ClientType /\ Fits(client)
  BY DEF IInv, TypeOK, Fits
<1>1. /\ client' = [client EXCEPT !.liveMessage = NoChat, !.alertMessage = NoChat, !.pending = NoAlert,
                                  !.backoff = FALSE, !.retry = FALSE, !.cfg.access_token = FALSE]
      /\ alertQueue' = << >> /\ enabled' = FALSE /\ web' = "idle"
  BY DEF Off
<1> DEFINE cfg == [client.cfg EXCEPT !.access_token = FALSE]
<1>2. cfg \in SettingsType
  BY <1>0 DEF ClientType, SettingsType
<1>3. client' = [client EXCEPT !.liveMessage = NoChat, !.alertMessage = NoChat, !.pending = NoAlert,
                               !.backoff = FALSE, !.retry = FALSE, !.cfg = cfg]
  BY <1>1
<1> HIDE DEF cfg
<1>4. /\ client' \in ClientType /\ Fits(client') /\ client'.pending = NoAlert
      /\ client'.seen = client.seen /\ client'.lastRect = client.lastRect
  BY <1>0, <1>2, <1>3 DEF ClientType, Fits, Peers
<1>5. /\ alertQueue' \in Seq(Alerts) /\ Len(alertQueue') = 0
      /\ Len(alertQueue') <= kAlertQueueDepth
  BY <1>1, EmptyFits
<1>6. TypeOK'
  BY <1>1, <1>4, <1>5 DEF IInv, TypeOK, Fits, WorkerSteps
<1>7. OffInv'
  BY <1>1, <1>4 DEF OffInv
<1>8. AlertInv'
  BY <1>1, <1>4, <1>5 DEF IInv, AlertInv
<1>9. SummaryInv'
  BY <1>4 DEF IInv, SummaryInv
<1> QED
  BY <1>6, <1>7, <1>8, <1>9 DEF IInv

LEMMA DisableStep ==
  ASSUME IInv, Disable \/ WorkerGone \/ WaitedOut \/ DeleteWorker
  PROVE  IInv'
<1>1. CASE Disable
  <2>1. left' \in LimitsType
    BY <1>1, LeftType DEF Disable, IInv, TypeOK
  <2> QED
    BY <1>1, <2>1 DEF Disable, IInv, TypeOK, OffInv, AlertInv, SummaryInv
<1>2. CASE WorkerGone
  BY <1>2, OffStep DEF WorkerGone, IInv, OffInv, TypeOK
<1>3. CASE WaitedOut
  BY <1>3 DEF WaitedOut, IInv, TypeOK, OffInv, AlertInv, SummaryInv
<1>4. CASE DeleteWorker /\ taskHandle
  BY <1>4, OffStep DEF DeleteWorker, IInv, OffInv, TypeOK
<1>5. CASE DeleteWorker /\ ~taskHandle
  BY <1>5 DEF DeleteWorker, IInv, TypeOK, OffInv, AlertInv, SummaryInv
<1> QED
  BY <1>1, <1>2, <1>3, <1>4, <1>5

LEMMA ProcessStep ==
  ASSUME IInv, ProcessStarts \/ ProcessEnds
  PROVE  IInv'
<1>1. CASE ProcessStarts
  BY <1>1 DEF ProcessStarts, IInv, TypeOK, OffInv, AlertInv, SummaryInv, ProcessStates
<1>2. CASE ProcessEnds
  <2>1. left' \in LimitsType
    BY <1>2, LeftType DEF ProcessEnds, IInv, TypeOK
  <2> QED
    BY <1>2, <2>1 DEF ProcessEnds, IInv, TypeOK, OffInv, AlertInv, SummaryInv, ProcessStates
<1> QED
  BY <1>1, <1>2

-----------------------------------------------------------------------------
(* Steps of the worker.                                                    *)

\* A step of the worker that is on its way changes the client in its own fields only, and gets
\* no further in the matter of summaries.
LEMMA WorkerMoves ==
  ASSUME IInv, worker # "off", UNCHANGED outside,
         client' \in ClientType, Fits(client'),
         worker' \in WorkerSteps, httpMutex' \in {"free", "taken", "lost"},
         UNCHANGED taskHandle,
         alertQueue' = alertQueue \/ alertQueue' = << >>,
         client'.pending \in {client.pending, NoAlert} \cup {alertQueue[i] : i \in 1 .. Len(alertQueue)},
         worker' \in {"delete", "alert"} => client'.pending # NoAlert,
         told' \subseteq Alerts, summaries' \in Nat, SummaryInv'
  PROVE  IInv'
<1>1. /\ alertQueue' \in Seq(Alerts) /\ Len(alertQueue') <= kAlertQueueDepth
      /\ alertQueue' = alertQueue \/ Len(alertQueue') = 0
  <2>1. CASE UNCHANGED alertQueue
    BY <2>1 DEF IInv, TypeOK
  <2>2. CASE alertQueue' = << >>
    BY <2>2, EmptyFits
  <2> QED
    BY <2>1, <2>2
<1>2. TypeOK'
  BY <1>1 DEF IInv, TypeOK, Fits, outside
<1>3. enabled /\ taskHandle
  BY DEF IInv, OffInv
<1>4. OffInv'
  BY <1>3 DEF IInv, OffInv, outside
<1>5. initialized => /\ \A i \in 1 .. Len(alertQueue') : alertQueue'[i] \in fresh
                     /\ client'.pending \in fresh \cup {NoAlert}
  BY <1>1 DEF IInv, AlertInv
<1>6. AlertInv'
  BY <1>5 DEF IInv, AlertInv, outside
<1> QED
  BY <1>2, <1>4, <1>6 DEF IInv

LEMMA LoopStep ==
  ASSUME IInv, Check \/ (\E reachable \in BOOLEAN : Probe(reachable)) \/ TakeLock
  PROVE  IInv'
<1>1. CASE Check
  BY <1>1 DEF Check, StepTo, outside, IInv, TypeOK, OffInv, AlertInv, SummaryInv, WorkerSteps, Calling
<1>2. ASSUME NEW reachable \in BOOLEAN, Probe(reachable)
      PROVE  IInv'
  BY <1>2 DEF Probe, StepTo, outside, IInv, TypeOK, OffInv, AlertInv, SummaryInv, WorkerSteps, Calling
<1>3. CASE TakeLock
  BY <1>3 DEF TakeLock, outside, IInv, TypeOK, OffInv, AlertInv, SummaryInv
<1> QED
  BY <1>1, <1>2, <1>3

LEMMA RunStep ==
  ASSUME IInv, Run
  PROVE  IInv'
<1> DEFINE news == Newest(client)
           c == [Reloaded(client) EXCEPT !.pending = news, !.seen = process]
<1>0. /\ settings \in SettingsType /\ client \in ClientType /\ Fits(client) /\ process \in ProcessStates
      /\ alertQueue \in Seq(Alerts) /\ worker = "run"
  BY DEF Run, IInv, TypeOK, Fits
<1>1. /\ Reloaded(client) \in ClientType /\ Fits(Reloaded(client))
      /\ SameNews(Reloaded(client), client)
  BY <1>0, ReloadedType
<1>2. /\ news \in {client.pending} \cup {alertQueue[i] : i \in 1 .. Len(alertQueue)}
      /\ news \in Alerts \cup {NoAlert}
  BY <1>0 DEF Newest, Last, ClientType
<1>3. client' = c
  BY DEF Run, Client
<1> HIDE DEF news
<1>4. /\ c \in ClientType /\ Fits(c) /\ c.pending = news /\ c.seen = process
      /\ c.lastRect = client.lastRect
  BY <1>0, <1>1, <1>2 DEF ClientType, Fits, SameNews
<1> HIDE DEF c
<1>5. worker' \in {"summary", "wall", "tick"} /\ (worker' = "summary" => HasEnded(c))
  BY DEF Run, StepTo, c, news
<1>6. worker' = "summary" => process = "FINISHED" /\ client.lastRect # "FINISHED"
  BY <1>4, <1>5 DEF HasEnded
<1>7. UNCHANGED outside /\ UNCHANGED <<taskHandle, httpMutex, told, summaries>> /\ alertQueue' = << >>
  BY DEF Run
<1>8. SummaryInv'
  <2>1. summaries \in Nat /\ summaries <= 1 /\ process' = process
    BY <1>7 DEF IInv, TypeOK, SummaryInv, outside
  <2> QED
    BY <1>0, <1>3, <1>4, <1>5, <1>6, <1>7, <2>1 DEF IInv, SummaryInv
<1>9. /\ told' \subseteq Alerts /\ summaries' \in Nat /\ httpMutex' \in {"free", "taken", "lost"}
      /\ worker' \in WorkerSteps
  BY <1>5, <1>7 DEF IInv, TypeOK, WorkerSteps, Calling
<1> QED
  BY <1>0, <1>2, <1>3, <1>4, <1>5, <1>7, <1>8, <1>9, WorkerMoves

LEMMA SummaryStep ==
  ASSUME IInv, (\E o \in Outcomes : CallSummary(o)) \/ CallWall
  PROVE  IInv'
<1>1. ASSUME NEW o \in Outcomes, CallSummary(o)
      PROVE  IInv'
  <2>1. /\ worker = "summary" /\ worker' \in {"wall", "tick"} /\ httpMutex' \in {"taken", "free"}
        /\ client' = Backoff(client, o)
        /\ UNCHANGED outside /\ UNCHANGED <<taskHandle, alertQueue, told>>
    BY <1>1 DEF CallSummary, Holding, StepTo, Client
  <2>2. summaries' \in {summaries, summaries + 1} /\ summaries = 0
    BY <1>1, <2>1 DEF CallSummary, IInv, SummaryInv
  <2>3. client \in ClientType /\ Fits(client)
    BY DEF IInv, TypeOK, Fits
  <2>4. client' \in ClientType /\ Fits(client') /\ SameNews(client', client)
    BY <2>1, <2>3, BackoffType DEF Fits
  <2>5. SummaryInv'
    BY <2>1, <2>2, <2>4 DEF IInv, SummaryInv, SameNews
  <2>6. told' \subseteq Alerts /\ summaries' \in Nat /\ worker' \in WorkerSteps
    BY <2>1, <2>2 DEF IInv, TypeOK, WorkerSteps, Calling
  <2> QED
    BY <2>1, <2>4, <2>5, <2>6, WorkerMoves DEF SameNews
<1>2. CASE CallWall
  BY <1>2 DEF CallWall, Holding, StepTo, outside, IInv, TypeOK, OffInv, AlertInv, SummaryInv, WorkerSteps
<1> QED
  BY <1>1, <1>2

LEMMA TickStep ==
  ASSUME IInv, Tick \/ Flush
  PROVE  IInv'
<1>0. client \in ClientType /\ Fits(client) /\ process \in ProcessStates
  BY DEF IInv, TypeOK, Fits
<1> DEFINE live == NextTick(LiveDue(client), client.liveTick)
           alert == NextTick(AlertDue(client), client.alertTick)
<1>1. live \in 0 .. kVkPeriodTicks - 1 /\ alert \in 0 .. kVkPeriodTicks - 1
  BY <1>0, TicksType
<1>2. CASE Tick
  <2>1. /\ worker = "tick" /\ worker' \in {"live", "flush"}
        /\ client' = [client EXCEPT !.lastRect = client.seen, !.liveTick = live]
        /\ UNCHANGED outside /\ UNCHANGED <<taskHandle, httpMutex, alertQueue, told, summaries>>
    BY <1>2, Zenon DEF Tick, Client, StepTo
  <2> HIDE DEF live
  <2>2. /\ client' \in ClientType /\ Fits(client') /\ client'.pending = client.pending
        /\ client'.seen = client.seen /\ client'.lastRect = client.seen
    BY <1>0, <1>1, <2>1 DEF ClientType, Fits
  <2>3. SummaryInv'
    BY <2>1, <2>2 DEF IInv, SummaryInv, outside
  <2>4. /\ told' \subseteq Alerts /\ summaries' \in Nat /\ httpMutex' \in {"free", "taken", "lost"}
        /\ worker' \in WorkerSteps
    BY <2>1 DEF IInv, TypeOK, WorkerSteps, Calling
  <2> QED
    BY <2>1, <2>2, <2>3, <2>4, WorkerMoves
<1>3. CASE Flush
  <2>1. /\ worker = "flush" /\ worker' \in {"check", "alert", "delete"}
        /\ worker' \in {"alert", "delete"} => client.pending # NoAlert
        /\ client' = [client EXCEPT !.alertTick = alert]
        /\ UNCHANGED outside /\ UNCHANGED <<taskHandle, httpMutex, alertQueue, told, summaries>>
    BY <1>3, Zenon DEF Flush, Client, StepTo
  <2> HIDE DEF alert
  <2>2. client' \in ClientType /\ Fits(client') /\ SameNews(client', client)
    BY <1>0, <1>1, <2>1 DEF ClientType, Fits, SameNews
  <2>3. SummaryInv'
    BY <2>1, <2>2 DEF IInv, SummaryInv, outside, SameNews
  <2>4. /\ told' \subseteq Alerts /\ summaries' \in Nat /\ httpMutex' \in {"free", "taken", "lost"}
        /\ worker' \in WorkerSteps
    BY <2>1 DEF IInv, TypeOK, WorkerSteps, Calling
  <2> QED
    BY <2>1, <2>2, <2>3, <2>4, WorkerMoves DEF SameNews
<1> QED
  BY <1>2, <1>3

\* A call about a message keeps what is known of summaries; only an answered alert is settled.
LEMMA CallStep ==
  ASSUME IInv, NEW o \in Outcomes, CallLive(o) \/ CallDelete(o) \/ CallAlert(o)
  PROVE  IInv'
<1>0. client \in ClientType /\ Fits(client) /\ client.cfg.peer_id \in Peers
  BY DEF IInv, TypeOK, Fits, ClientType, SettingsType
<1> DEFINE held == Backoff(client, o)
<1>1. held \in ClientType /\ Fits(held) /\ SameNews(held, client) /\ held.cfg = client.cfg
  BY <1>0, BackoffType DEF Fits
<1>2. CASE CallLive(o)
  <2>1. /\ worker = "live" /\ worker' = "flush" /\ httpMutex' = "free"
        /\ client' \in {Edited(held, o), held, [client EXCEPT !.liveMessage = client.cfg.peer_id]}
        /\ UNCHANGED outside /\ UNCHANGED <<taskHandle, alertQueue, told, summaries>>
    BY <1>2 DEF CallLive, Holding, Client, StepTo
  <2> HIDE DEF held
  <2>2. client' \in ClientType /\ Fits(client') /\ SameNews(client', client)
    <3>1. CASE client' \in {Edited(held, o), held}
      BY <1>1, <3>1, EditedType DEF SameNews
    <3>2. CASE client' = [client EXCEPT !.liveMessage = client.cfg.peer_id]
      BY <1>0, <3>2 DEF ClientType, Fits, SameNews
    <3> QED
      BY <2>1, <3>1, <3>2
  <2>3. SummaryInv'
    BY <2>1, <2>2 DEF IInv, SummaryInv, outside, SameNews
  <2>4. told' \subseteq Alerts /\ summaries' \in Nat /\ worker' \in WorkerSteps
    BY <2>1 DEF IInv, TypeOK, WorkerSteps
  <2> QED
    BY <2>1, <2>2, <2>3, <2>4, WorkerMoves DEF SameNews
<1>3. CASE CallDelete(o)
  <2>1. /\ worker = "delete" /\ worker' = "alert"
        /\ client' = [held EXCEPT !.alertMessage = NoChat]
        /\ UNCHANGED outside /\ UNCHANGED <<taskHandle, httpMutex, alertQueue, told, summaries>>
    BY <1>3 DEF CallDelete, Holding, Client, StepTo
  <2> HIDE DEF held
  <2>2. client' \in ClientType /\ Fits(client') /\ SameNews(client', client)
    BY <1>1, <2>1 DEF ClientType, Fits, SameNews, Peers
  <2>3. SummaryInv'
    BY <2>1, <2>2 DEF IInv, SummaryInv, outside, SameNews
  <2>4. /\ told' \subseteq Alerts /\ summaries' \in Nat /\ httpMutex' \in {"free", "taken", "lost"}
        /\ worker' \in WorkerSteps /\ client.pending # NoAlert
    BY <2>1 DEF IInv, TypeOK, AlertInv, WorkerSteps, Calling
  <2> QED
    BY <2>1, <2>2, <2>3, <2>4, WorkerMoves DEF SameNews
<1>4. CASE CallAlert(o)
  <2>1. /\ worker = "alert" /\ worker' = "check" /\ httpMutex' = "free"
        /\ client' = Settled(held, o)
        /\ told' \in {told, told \cup {client.pending}}
        /\ UNCHANGED outside /\ UNCHANGED <<taskHandle, alertQueue, summaries>>
    BY <1>4 DEF CallAlert, Holding, Client, StepTo
  <2> HIDE DEF held
  <2>2. /\ client' \in ClientType /\ Fits(client') /\ client'.pending \in {client.pending, NoAlert}
        /\ client'.seen = client.seen /\ client'.lastRect = client.lastRect
    <3>1. CASE client' = held
      BY <1>1, <3>1 DEF SameNews
    <3>2. CASE client' = [held EXCEPT !.alertMessage = held.cfg.peer_id, !.pending = NoAlert]
      BY <1>0, <1>1, <3>2 DEF ClientType, Fits, SameNews
    <3> QED
      BY <2>1, <3>1, <3>2 DEF Settled
  <2>3. SummaryInv'
    BY <2>1, <2>2 DEF IInv, SummaryInv, outside
  <2>4. told' \subseteq Alerts /\ summaries' \in Nat /\ worker' \in WorkerSteps
    <3>1. client.pending \in Alerts
      BY <1>0, <2>1 DEF IInv, AlertInv, ClientType
    <3> QED
      BY <2>1, <3>1 DEF IInv, TypeOK, WorkerSteps
  <2> QED
    BY <2>1, <2>2, <2>3, <2>4, WorkerMoves
<1> QED
  BY <1>2, <1>3, <1>4

LEMMA BackoffStep ==
  ASSUME IInv, BackoffEnds
  PROVE  IInv'
<1>0. client \in ClientType /\ Fits(client)
  BY DEF IInv, TypeOK, Fits
<1>1. client' = [client EXCEPT !.backoff = FALSE]
  BY DEF BackoffEnds, Client
<1>2. client' \in ClientType /\ Fits(client') /\ SameNews(client', client)
  BY <1>0, <1>1 DEF ClientType, Fits, SameNews
<1> QED
  BY <1>2 DEF BackoffEnds, outside, IInv, TypeOK, OffInv, AlertInv, SummaryInv, Fits, SameNews

LEMMA InvStep == IInv /\ [Next]_vars => IInv'
<1> SUFFICES ASSUME IInv, [Next]_vars PROVE IInv'
  OBVIOUS
<1>1. CASE UNCHANGED vars
  BY <1>1 DEF vars, IInv, TypeOK, OffInv, AlertInv, SummaryInv
<1>2. CASE Next
  BY <1>2, SettingsStep, ProducerStep, EnableStep, DisableStep, ProcessStep, LoopStep, RunStep,
     SummaryStep, TickStep, CallStep, BackoffStep DEF Next, Web, Worker
<1> QED
  BY <1>1, <1>2

\* Every variable keeps its type, the queue its length and the cycles their period, and a message
\* that may be edited or deleted lies in the chat now written to (VkMessengerClient.cpp).
THEOREM MessengerTypeCorrect == Spec => []TypeOK
<1>1. IInv => TypeOK
  BY DEF IInv
<1> QED
  BY InvInit, InvStep, <1>1, PTL DEF Spec

\* Whatever VK answers, however often the switch is thrown and calls outlive the wait of shutoff():
\* what is off is silent, no alert of an earlier period is sent, and a summary goes out once.
THEOREM MessengerStaysSafe == Spec => []MessengerSafe
<1> QED
  BY InvInit, InvStep, SafeFromInv, PTL DEF Spec
=============================================================================
