----------------------------- MODULE Telemetry -----------------------------
(***************************************************************************)
(* Reports to the cloud: applications/telemetry.c, alarm_system.c and the  *)
(* status handling of uart/system.c.                                       *)
(*                                                                         *)
(* An alarm or event is written to the Wi-Fi module when it is connected   *)
(* and put in a queue when it is not; the queue is written when the module *)
(* reports that it has reached the cloud.  Every frame is composed in the  *)
(* one transmit buffer.  On batteries a timer wakes the device, the        *)
(* telemetry thread uploads the measurements and waits, holding a vote     *)
(* against sleep, until they are acknowledged or a timeout passes.  On     *)
(* mains another timer uploads them.  Asleep, the module has no power.     *)
(*                                                                         *)
(* The module, its answers and the line to it are the environment: an      *)
(* upload is acknowledged in time, late, twice or never.                   *)
(***************************************************************************)
EXTENDS Naturals, Sequences, FiniteSets

CONSTANTS
  Raisers,      \* the threads that report alarms
  QueueSize,    \* messages telemetry_queue holds
  MaxAlarms,    \* bound: alarms raised
  MaxAcks       \* bound: acknowledgements that wait

ASSUME TelemetryAssumption ==
  QueueSize \in Nat \ {0} /\ MaxAlarms \in Nat /\ MaxAcks \in Nat \ {0}

VARIABLES
  awake, dc,            \* the device runs; it runs on mains
  wifi_status,          \* what the module reported last, 0 after sleep
  svc,                  \* the wifi-service thread: "idle" or in telemetry_flush
  wifi_ota_update_flag,
  telemetry_queue,
  tx,                   \* wifi_uart_tx_buf: an alarm, or 0 for another report
  raising,              \* where each raiser is, and with which alarm
  raised,               \* alarms raised so far, numbered
  sent,                 \* how often each alarm was written to the module
  pc,                   \* the telemetry thread
  telemetry_detect_sem, telemetry_recv_sem,
  pmPeriod,             \* PM_PERIOD_ID holds a request not to sleep
  rcp,                  \* the timer for batteries: "off", "long" or "short", the
                        \* interval being above or below the timeout of a wait
  wti,                  \* the timer for mains runs
  lost,                 \* history: alarms refused by a full queue or reset
  mixed,                \* history: alarms composed while another was
  held,                 \* history: the queue was passed over for an update
  late,                 \* history: an alarm was queued while connected
  early,                \* history: acknowledgements from before the reset
  overlapped,           \* history: the timer fired during an upload
  switched              \* history: the supply has changed since power-up

link  == <<wifi_status, svc, wifi_ota_update_flag>>
report == <<telemetry_queue, tx, raising, raised, sent, lost, mixed, held, late>>
upload == <<pc, telemetry_detect_sem, telemetry_recv_sem, pmPeriod, early, overlapped>>
timers == <<rcp, wti, switched>>
vars == <<awake, dc, link, report, upload, timers>>

Idle == [at |-> "idle", n |-> 0]
Busy(t) == raising[t] # Idle
Holding == {raising[t].n : t \in {u \in Raisers : Busy(u)}}
Queued(n) == Cardinality({i \in DOMAIN telemetry_queue : telemetry_queue[i] = n})

-----------------------------------------------------------------------------
(* insert_error_array, ..., event_upload: alarm_upload.                     *)

\* Something is composed in the transmit buffer: what others have there mixes
\* with it.
Compose(n) ==
  /\ tx' = n
  /\ mixed' = IF Holding = {} THEN mixed ELSE mixed \cup Holding \cup {n}

Raise(t) ==
  /\ awake /\ ~Busy(t) /\ raised < MaxAlarms
  /\ raised' = raised + 1
  /\ Compose(raised + 1)
  /\ raising' = [raising EXCEPT ![t] = [at |-> "check", n |-> raised + 1]]
  /\ UNCHANGED <<awake, dc, link, telemetry_queue, sent, lost, held, late, upload,
                 timers>>

wifi_valid_check(t) ==
  /\ awake /\ raising[t].at = "check"
  /\ raising' = [raising EXCEPT ![t].at =
                   IF wifi_status = 4 THEN "frame" ELSE "queue"]
  /\ UNCHANGED <<awake, dc, link, telemetry_queue, tx, raised, sent, lost, mixed,
                 held, late, upload, timers>>

\* put_error_array and its like: an alarm, not an event, is followed by a report
\* of the last eight, written while the module is valid.
PutArray(t) ==
  LET others == Holding \ {raising[t].n}
  IN  \/ UNCHANGED <<tx, mixed>>
      \/ wifi_status = 4 /\ tx' = 0 /\ mixed' = mixed \cup others

\* Written at once: whatever the buffer holds by now.
WriteFrame(t) ==
  /\ awake /\ raising[t].at = "frame"
  /\ sent' = [sent EXCEPT ![tx] = @ + 1]
  /\ PutArray(t)
  /\ raising' = [raising EXCEPT ![t] = Idle]
  /\ UNCHANGED <<awake, dc, link, telemetry_queue, raised, lost, held, late, upload,
                 timers>>

\* Faulty variant: the oldest message makes room for the new one.
wifi_uart_write_queue_Circular(t) ==
  /\ awake /\ raising[t].at = "queue"
  /\ telemetry_queue' = Append(IF Len(telemetry_queue) < QueueSize
                               THEN telemetry_queue ELSE Tail(telemetry_queue), tx)
  /\ late' = (late \/ wifi_status = 4)
  /\ raising' = [raising EXCEPT ![t] = Idle]
  /\ UNCHANGED <<awake, dc, link, tx, raised, sent, lost, mixed, held, upload, timers>>

\* Queued: a full queue refuses the message, and nobody looks at the result.
wifi_uart_write_queue(t) ==
  /\ awake /\ raising[t].at = "queue"
  /\ \/ /\ Len(telemetry_queue) < QueueSize
        /\ telemetry_queue' = Append(telemetry_queue, tx)
        /\ late' = (late \/ wifi_status = 4)
        /\ UNCHANGED lost
     \/ /\ Len(telemetry_queue) >= QueueSize
        /\ lost' = lost \cup {tx}
        /\ UNCHANGED <<telemetry_queue, late>>
  /\ PutArray(t)
  /\ raising' = [raising EXCEPT ![t] = Idle]
  /\ UNCHANGED <<awake, dc, link, raised, sent, held, upload, timers>>

-----------------------------------------------------------------------------
(* The wifi-service thread.                                                 *)

\* Faulty variant: the queue is not written on a connection.
wifi_status_change_Unflushed(state) ==
  /\ awake /\ svc = "idle"
  /\ wifi_status' = state
  /\ wifi_ota_update_flag' = (wifi_ota_update_flag /\ state # 4)
  /\ held' = (held \/ (state = 4 /\ wifi_ota_update_flag))
  /\ IF state = 4 /\ wifi_ota_update_flag THEN Compose(0) ELSE UNCHANGED <<tx, mixed>>
  /\ UNCHANGED <<awake, dc, svc, telemetry_queue, raising, raised, sent, lost, late,
                 upload, timers>>

\* The module reports its state.  An update that was asked for before goes first.
wifi_status_change(state) ==
  /\ awake /\ svc = "idle"
  /\ wifi_status' = state
  /\ wifi_ota_update_flag' = (wifi_ota_update_flag /\ state # 4)
  /\ svc' = IF state = 4 /\ ~wifi_ota_update_flag THEN "flush" ELSE "idle"
  /\ held' = (held \/ (state = 4 /\ wifi_ota_update_flag))
  /\ IF state = 4 /\ wifi_ota_update_flag THEN Compose(0) ELSE UNCHANGED <<tx, mixed>>
  /\ UNCHANGED <<awake, dc, telemetry_queue, raising, raised, sent, lost, late, upload,
                 timers>>


telemetry_flush ==
  /\ awake /\ svc = "flush"
  /\ \/ /\ telemetry_queue # << >>
        /\ sent' = [sent EXCEPT ![Head(telemetry_queue)] = @ + 1]
        /\ telemetry_queue' = Tail(telemetry_queue)
        /\ UNCHANGED <<svc, held, late>>
     \/ /\ telemetry_queue = << >>
        /\ svc' = "idle" /\ held' = FALSE /\ late' = FALSE
        /\ UNCHANGED <<sent, telemetry_queue>>
  /\ UNCHANGED <<awake, dc, wifi_status, wifi_ota_update_flag, tx, raising, raised,
                 lost, mixed, upload, timers>>

\* The update window asks for an update; nothing but a new connection takes the
\* flag back.
wifi_ota_request ==
  /\ awake /\ wifi_status = 4
  /\ wifi_ota_update_flag' = TRUE
  /\ Compose(0)
  /\ UNCHANGED <<awake, dc, wifi_status, svc, telemetry_queue, raising, raised, sent,
                 lost, held, late, upload, timers>>

\* An upload from another thread than the telemetry thread.
OtherUpload ==
  /\ Compose(0)
  /\ UNCHANGED <<awake, dc, link, telemetry_queue, raising, raised, sent, lost, held,
                 late, upload, timers>>

\* telemetry_recv_handle, 1: the module asks for the measurements;
RecvRequest == awake /\ svc = "idle" /\ OtherUpload

\* 2: it acknowledges an upload.
RecvAck ==
  /\ awake /\ svc = "idle" /\ telemetry_recv_sem < MaxAcks
  /\ telemetry_recv_sem' = telemetry_recv_sem + 1
  /\ early' = (early \/ pc # "await")
  /\ UNCHANGED <<awake, dc, link, report, pc, telemetry_detect_sem, pmPeriod,
                 overlapped, timers>>

-----------------------------------------------------------------------------
(* The timers.                                                              *)

\* Faulty variant: it wakes the device and asks for nothing.
rcp_timer_callback_Voteless ==
  LET busy == pc # "wait" \/ telemetry_detect_sem > 0
  IN  /\ rcp # "off" /\ (busy => rcp = "short" /\ telemetry_detect_sem = 0)
      /\ awake' = TRUE
      /\ telemetry_detect_sem' = telemetry_detect_sem + 1
      /\ overlapped' = (overlapped \/ busy)
      /\ UNCHANGED <<dc, link, report, pc, telemetry_recv_sem, pmPeriod, early, timers>>

\* It fires during an upload only if the interval is below the timeout: the two
\* start as 24 minutes and 30 seconds, and the cloud sets them.
rcp_timer_callback ==
  LET busy == pc # "wait" \/ telemetry_detect_sem > 0
  IN  /\ rcp # "off" /\ (busy => rcp = "short" /\ telemetry_detect_sem = 0)
      /\ awake' = TRUE
      /\ pmPeriod' = TRUE
      /\ telemetry_detect_sem' = telemetry_detect_sem + 1
      /\ overlapped' = (overlapped \/ busy)
      /\ UNCHANGED <<dc, link, report, pc, telemetry_recv_sem, early, timers>>

wti_timer_callback == awake /\ wti /\ OtherUpload

\* The cloud sets an interval: the timer starts, whatever the supply is.
rcp_timer_set ==
  /\ awake /\ rcp' \in {"long", "short"}
  /\ UNCHANGED <<awake, dc, link, report, upload, wti, switched>>

wti_timer_set ==
  /\ awake /\ wti' = TRUE
  /\ UNCHANGED <<awake, dc, link, report, upload, rcp, switched>>

\* Faulty variant: the timer of the batteries is not started.
Power_State_Change_Stop ==
  /\ awake
  /\ dc' = ~dc /\ wti' = dc' /\ rcp' = "off" /\ switched' = TRUE
  /\ UNCHANGED <<awake, link, report, upload>>

\* telemetry_interval_mode_set; the interval is the one set last.  The level
\* starts as 0 and is compared with the old one: a device that starts on batteries
\* sees no change.
Power_State_Change ==
  /\ awake
  /\ dc' = ~dc /\ wti' = dc' /\ switched' = TRUE
  /\ rcp' \in IF dc' THEN {"off"} ELSE {"long", "short"}
  /\ UNCHANGED <<awake, link, report, upload>>

-----------------------------------------------------------------------------
(* The telemetry thread.                                                    *)

\* Faulty variant: the old acknowledgements are kept.
Reset_Not ==
  UNCHANGED <<telemetry_recv_sem, early>>

\* rt_sem_control(telemetry_recv_sem, RT_IPC_CMD_RESET)
Reset == telemetry_recv_sem' = 0 /\ early' = FALSE

Upload ==
  /\ awake /\ pc = "wait" /\ telemetry_detect_sem > 0
  /\ telemetry_detect_sem' = telemetry_detect_sem - 1
  /\ Reset
  /\ Compose(0)
  /\ pc' = "await"
  /\ UNCHANGED <<awake, dc, link, telemetry_queue, raising, raised, sent, lost, held,
                 late, pmPeriod, overlapped, timers>>

\* Faulty variant: the vote is kept.
Release_Not == UNCHANGED <<pmPeriod, overlapped>>

Release ==
  /\ pmPeriod' = FALSE
  /\ overlapped' = (overlapped /\ telemetry_detect_sem > 0)

Acknowledged ==
  /\ awake /\ pc = "await" /\ telemetry_recv_sem > 0
  /\ telemetry_recv_sem' = telemetry_recv_sem - 1
  /\ Release
  /\ pc' = "wait"
  /\ UNCHANGED <<awake, dc, link, report, telemetry_detect_sem, early, timers>>

\* Everything queued is dropped, what was queued during the wait too.
Timeout ==
  /\ awake /\ pc = "await" /\ telemetry_recv_sem = 0
  /\ lost' = lost \cup {telemetry_queue[i] : i \in DOMAIN telemetry_queue}
  /\ telemetry_queue' = << >>
  /\ held' = FALSE /\ late' = FALSE
  /\ Release
  /\ pc' = "wait"
  /\ UNCHANGED <<awake, dc, link, tx, raising, raised, sent, mixed, telemetry_detect_sem,
                 telemetry_recv_sem, early, timers>>

-----------------------------------------------------------------------------
(* Sleep.                                                                   *)

\* No thread is ready and no vote of this component is held; the others' votes
\* may be.  WiFi_Pin_DeInit takes the power of the module.
Sleep ==
  /\ awake /\ ~dc /\ ~pmPeriod
  /\ svc = "idle" /\ \A t \in Raisers : ~Busy(t)
  /\ pc = "wait" => telemetry_detect_sem = 0
  /\ pc = "await" => telemetry_recv_sem = 0
  /\ awake' = FALSE
  /\ wifi_status' = 0
  /\ UNCHANGED <<dc, svc, wifi_ota_update_flag, report, pc, telemetry_detect_sem,
                 telemetry_recv_sem, pmPeriod, early, overlapped, timers>>

\* A key, the pressure switch or the hourly alarm.
Wake ==
  /\ ~awake /\ awake' = TRUE
  /\ UNCHANGED <<dc, link, report, upload, timers>>

-----------------------------------------------------------------------------
\* Telemetry_Init: no timer is started.
Init ==
  /\ awake = TRUE /\ dc = FALSE
  /\ wifi_status = 0 /\ svc = "idle" /\ wifi_ota_update_flag = FALSE
  /\ telemetry_queue = << >> /\ tx = 0 /\ sent = [n \in 0..MaxAlarms |-> 0]
  /\ raising = [t \in Raisers |-> Idle] /\ raised = 0
  /\ lost = {} /\ mixed = {} /\ held = FALSE /\ late = FALSE
  /\ pc = "wait" /\ telemetry_detect_sem = 0 /\ telemetry_recv_sem = 0
  /\ pmPeriod = FALSE /\ early = FALSE /\ overlapped = FALSE
  /\ rcp = "off" /\ wti = FALSE /\ switched = FALSE

ThreadStep == Upload \/ Acknowledged \/ Timeout

Next ==
  \/ \E t \in Raisers :
        Raise(t) \/ wifi_valid_check(t) \/ WriteFrame(t) \/ wifi_uart_write_queue(t)
  \/ \E state \in {3, 4} : wifi_status_change(state)
  \/ telemetry_flush \/ wifi_ota_request \/ RecvRequest \/ RecvAck
  \/ rcp_timer_callback \/ wti_timer_callback \/ rcp_timer_set \/ wti_timer_set
  \/ Power_State_Change
  \/ ThreadStep \/ Sleep \/ Wake

Spec == Init /\ [][Next]_vars

\* The telemetry thread runs when it is ready, and its wait times out.
FairSpec == Spec /\ WF_vars(ThreadStep)

-----------------------------------------------------------------------------
(* Properties.                                                              *)

TypeOK ==
  /\ awake \in BOOLEAN /\ dc \in BOOLEAN
  /\ wifi_status \in {0, 3, 4} /\ svc \in {"idle", "flush"}
  /\ wifi_ota_update_flag \in BOOLEAN
  /\ telemetry_queue \in Seq(0..MaxAlarms) /\ Len(telemetry_queue) <= QueueSize
  /\ tx \in 0..MaxAlarms /\ raised \in 0..MaxAlarms /\ sent \in [0..MaxAlarms -> Nat]
  /\ raising \in [Raisers -> [at : {"idle", "check", "frame", "queue"}, n : 0..MaxAlarms]]
  /\ lost \subseteq 0..MaxAlarms /\ mixed \subseteq 0..MaxAlarms
  /\ pc \in {"wait", "await"} /\ rcp \in {"off", "long", "short"}
  /\ telemetry_detect_sem \in Nat /\ telemetry_recv_sem \in Nat
  /\ {early, pmPeriod, wti, held, late, overlapped, switched} \subseteq BOOLEAN

\* No alarm is lost or sent twice (alarm_upload, event_upload): each is with its
\* thread, in the queue, written to the module once, or dropped by a full queue or a
\* timeout.  (Two threads that compose at the same time share the buffer: mixed.)
AlarmsAccounted ==
  TypeOK /\ \A n \in (1..raised) \ mixed :
     sent[n] + Queued(n)
       + Cardinality({t \in Raisers : Busy(t) /\ raising[t].n = n})
       + (IF n \in lost THEN 1 ELSE 0) = 1

\* While the module is connected nothing waits in the queue, unless the flush was
\* passed over for an update or a thread had checked before the connection.
NothingStuck ==
  (wifi_status = 4 /\ svc = "idle" /\ telemetry_queue # << >>) => held \/ late

\* The device does not sleep before the upload is acknowledged or given up,
\* unless the timer fired again during an upload.
UploadKeepsAwake == pc = "await" => pmPeriod \/ overlapped

\* An acknowledgement received before an upload does not end the wait for it.
FreshAck == pc = "await" => ~early

\* Once the supply has changed, the timer that belongs to it runs, also after the
\* cloud has set an interval.
SyncArmed == switched => IF dc THEN wti ELSE rcp # "off"

\* The device is always allowed to sleep again.
PeriodReleased == pmPeriod ~> ~pmPeriod
=============================================================================
