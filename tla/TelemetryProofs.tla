-------------------------- MODULE TelemetryProofs --------------------------
(***************************************************************************)
(* Proofs about Telemetry: every alarm is accounted for, nothing waits     *)
(* while the module is connected without a reason, the upload keeps the    *)
(* device awake, and the timer that belongs to the supply runs.            *)
(***************************************************************************)
EXTENDS Telemetry, FiniteSetTheorems, TLAPS

USE TelemetryAssumption

-----------------------------------------------------------------------------
(* Sequences without duplicates of a value: the queue.                      *)

InSeq(s, n) == \E i \in DOMAIN s : s[i] = n
OnceIn(s, n) == \A i, j \in DOMAIN s : s[i] = n /\ s[j] = n => i = j

\* A message put at the end is in the queue, and nothing else is new there.
LEMMA AppendIn ==
  ASSUME NEW S, NEW s \in Seq(S), NEW e \in S, NEW n
  PROVE  /\ InSeq(Append(s, e), n) <=> InSeq(s, n) \/ n = e
         /\ n # e => (OnceIn(s, n) <=> OnceIn(Append(s, e), n))
         /\ ~InSeq(s, n) => OnceIn(Append(s, e), n)
<1> DEFINE a == Append(s, e)
<1>1. /\ a \in Seq(S) /\ Len(a) = Len(s) + 1 /\ Len(s) \in Nat
      /\ DOMAIN s = 1..Len(s) /\ DOMAIN a = 1..(Len(s) + 1)
      /\ \A i \in 1..Len(s) : a[i] = s[i]
      /\ a[Len(s) + 1] = e
  OBVIOUS
<1> HIDE DEF a
<1>2. InSeq(a, n) <=> InSeq(s, n) \/ n = e
  BY <1>1 DEF InSeq
<1>3. ASSUME n # e PROVE OnceIn(s, n) <=> OnceIn(a, n)
  BY <1>1, <1>3 DEF OnceIn
<1>4. ASSUME ~InSeq(s, n) PROVE OnceIn(a, n)
  BY <1>1, <1>4 DEF OnceIn, InSeq
<1> QED BY <1>2, <1>3, <1>4 DEF a

\* The message at the head leaves the queue, and nothing else does.
LEMMA TailIn ==
  ASSUME NEW S, NEW s \in Seq(S), s # << >>, NEW n
  PROVE  /\ Head(s) \in S /\ InSeq(s, Head(s))
         /\ n # Head(s) => (InSeq(Tail(s), n) <=> InSeq(s, n))
         /\ OnceIn(s, n) => OnceIn(Tail(s), n)
         /\ OnceIn(s, Head(s)) => ~InSeq(Tail(s), Head(s))
<1> DEFINE a == Tail(s)
<1>1. /\ a \in Seq(S) /\ Len(a) = Len(s) - 1 /\ Len(s) \in Nat /\ Len(s) > 0
      /\ DOMAIN s = 1..Len(s) /\ DOMAIN a = 1..(Len(s) - 1)
      /\ \A i \in 1..(Len(s) - 1) : a[i] = s[i + 1]
      /\ Head(s) = s[1] /\ Head(s) \in S
  OBVIOUS
<1> HIDE DEF a
<1>2. InSeq(s, Head(s))
  BY <1>1 DEF InSeq
<1>3. ASSUME n # Head(s) PROVE InSeq(a, n) <=> InSeq(s, n)
  <2>1. ASSUME InSeq(s, n) PROVE InSeq(a, n)
    <3>1. PICK i \in 1..Len(s) : s[i] = n
      BY <1>1, <2>1 DEF InSeq
    <3>2. i - 1 \in 1..(Len(s) - 1) /\ a[i - 1] = n
      BY <1>1, <1>3, <3>1
    <3> QED BY <1>1, <3>2 DEF InSeq
  <2>2. ASSUME InSeq(a, n) PROVE InSeq(s, n)
    BY <1>1, <2>2 DEF InSeq
  <2> QED BY <2>1, <2>2
<1>4. ASSUME OnceIn(s, n) PROVE OnceIn(a, n)
  <2> SUFFICES ASSUME NEW i \in DOMAIN a, NEW j \in DOMAIN a, a[i] = n, a[j] = n
               PROVE  i = j
    BY DEF OnceIn
  <2>1. i + 1 \in DOMAIN s /\ j + 1 \in DOMAIN s /\ s[i + 1] = n /\ s[j + 1] = n
    BY <1>1
  <2>2. i + 1 = j + 1
    BY <1>4, <2>1 DEF OnceIn
  <2> QED BY <1>1, <2>2
<1>5. ASSUME OnceIn(s, Head(s)) PROVE ~InSeq(a, Head(s))
  <2> SUFFICES ASSUME NEW i \in DOMAIN a, a[i] = Head(s) PROVE FALSE
    BY DEF InSeq
  <2>1. i + 1 \in DOMAIN s /\ 1 \in DOMAIN s /\ s[i + 1] = Head(s) /\ s[1] = Head(s)
    BY <1>1
  <2>2. i + 1 = 1
    BY <1>5, <2>1 DEF OnceIn
  <2> QED BY <1>1, <2>2
<1> QED BY <1>1, <1>2, <1>3, <1>4, <1>5 DEF a

-----------------------------------------------------------------------------
(* Types: what reports an alarm, and the rest.                              *)

QueueType == telemetry_queue \in Seq(0..MaxAlarms) /\ Len(telemetry_queue) <= QueueSize
BufferType == tx \in 0..MaxAlarms /\ mixed \subseteq 0..MaxAlarms
RaisingType ==
  raising \in [Raisers -> [at : {"idle", "check", "frame", "queue"}, n : 0..MaxAlarms]]
CountType ==
  /\ raised \in 0..MaxAlarms /\ sent \in [0..MaxAlarms -> Nat] /\ lost \subseteq 0..MaxAlarms
ReportFlagType == held \in BOOLEAN /\ late \in BOOLEAN
ReportType == QueueType /\ BufferType /\ RaisingType /\ CountType /\ ReportFlagType

RestType ==
  /\ awake \in BOOLEAN /\ dc \in BOOLEAN
  /\ wifi_status \in {0, 3, 4} /\ svc \in {"idle", "flush"}
  /\ wifi_ota_update_flag \in BOOLEAN
  /\ pc \in {"wait", "await"} /\ rcp \in {"off", "long", "short"}
  /\ telemetry_detect_sem \in Nat /\ telemetry_recv_sem \in Nat
  /\ early \in BOOLEAN /\ pmPeriod \in BOOLEAN /\ wti \in BOOLEAN
  /\ overlapped \in BOOLEAN /\ switched \in BOOLEAN

\* The two halves are the type invariant.
LEMMA TypeParts == TypeOK <=> ReportType /\ RestType
BY DEF TypeOK, ReportType, QueueType, BufferType, RaisingType, CountType,
       ReportFlagType, RestType

\* A composition writes a number to the buffer and marks held alarms.
LEMMA ComposeType ==
  ASSUME BufferType, RaisingType, NEW n \in 0..MaxAlarms, Compose(n)
  PROVE  BufferType'
<1>1. Holding \subseteq 0..MaxAlarms
  BY DEF Holding, RaisingType
<1> QED BY <1>1 DEF Compose, BufferType

\* The report of the last eight may only use the buffer.
LEMMA PutArrayType ==
  ASSUME BufferType, RaisingType, NEW t \in Raisers, PutArray(t)
  PROVE  BufferType'
<1>1. Holding \subseteq 0..MaxAlarms
  BY DEF Holding, RaisingType
<1> DEFINE others == Holding \ {raising[t].n}
<1>2. others \subseteq 0..MaxAlarms
  BY <1>1
<1>3. \/ tx' = tx /\ mixed' = mixed
      \/ tx' = 0 /\ mixed' = mixed \cup others
  BY DEF PutArray
<1> HIDE DEF others
<1>4. CASE tx' = tx /\ mixed' = mixed
  BY <1>4 DEF BufferType
<1>5. CASE tx' = 0 /\ mixed' = mixed \cup others
  BY <1>2, <1>5 DEF BufferType
<1> QED BY <1>3, <1>4, <1>5

USE DEF link, report, upload, timers

\* The steps of a thread that raises an alarm.
LEMMA RaiserTypes ==
  ASSUME ReportType, RestType, NEW t \in Raisers,
         Raise(t) \/ wifi_valid_check(t) \/ WriteFrame(t) \/ wifi_uart_write_queue(t)
  PROVE  ReportType' /\ RestType'
<1> USE DEF ReportType
<1>1. CASE Raise(t)
  <2>1. raised + 1 \in 0..MaxAlarms
    BY <1>1 DEF Raise, CountType
  <2>2. BufferType'
    BY <1>1, <2>1, ComposeType DEF Raise
  <2>3. RaisingType'
    BY <1>1, <2>1 DEF Raise, RaisingType
  <2> QED BY <1>1, <2>1, <2>2, <2>3
          DEF Raise, RestType, QueueType, CountType, ReportFlagType
<1>2. CASE wifi_valid_check(t)
  <2>1. RaisingType'
    BY <1>2 DEF wifi_valid_check, RaisingType
  <2> QED BY <1>2, <2>1
          DEF wifi_valid_check, RestType, QueueType, BufferType, CountType, ReportFlagType
<1>3. CASE WriteFrame(t)
  <2>1. BufferType'
    BY <1>3, PutArrayType DEF WriteFrame
  <2>2. sent' \in [0..MaxAlarms -> Nat]
    BY <1>3 DEF WriteFrame, CountType, BufferType
  <2>3. RaisingType'
    BY <1>3 DEF WriteFrame, RaisingType, Idle
  <2> QED BY <1>3, <2>1, <2>2, <2>3
          DEF WriteFrame, RestType, QueueType, CountType, ReportFlagType
<1>4. CASE wifi_uart_write_queue(t)
  <2>1. BufferType'
    BY <1>4, PutArrayType DEF wifi_uart_write_queue
  <2>2. QueueType'
    <3>1. CASE Len(telemetry_queue) < QueueSize
      <4>1. telemetry_queue' = Append(telemetry_queue, tx)
        BY <1>4, <3>1 DEF wifi_uart_write_queue, QueueType
      <4>2. Append(telemetry_queue, tx) \in Seq(0..MaxAlarms)
            /\ Len(Append(telemetry_queue, tx)) = Len(telemetry_queue) + 1
        BY DEF QueueType, BufferType
      <4> QED BY <3>1, <4>1, <4>2 DEF QueueType
    <3>2. CASE ~(Len(telemetry_queue) < QueueSize)
      BY <1>4, <3>2 DEF wifi_uart_write_queue, QueueType
    <3> QED BY <3>1, <3>2
  <2>3. late' \in BOOLEAN
    BY <1>4, Zenon DEF wifi_uart_write_queue, ReportFlagType
  <2>4. CountType'
    BY <1>4 DEF wifi_uart_write_queue, CountType, BufferType
  <2>5. RaisingType'
    BY <1>4 DEF wifi_uart_write_queue, RaisingType, Idle
  <2>6. RestType' /\ ReportFlagType'
    BY <1>4, <2>3 DEF wifi_uart_write_queue, RestType, ReportFlagType
  <2> QED BY <2>1, <2>2, <2>4, <2>5, <2>6
<1> QED BY <1>1, <1>2, <1>3, <1>4

\* The wifi-service thread, and the uploads of other threads.
LEMMA ServiceTypes ==
  ASSUME ReportType, RestType,
         \/ \E state \in {3, 4} : wifi_status_change(state)
         \/ telemetry_flush \/ wifi_ota_request \/ RecvRequest \/ RecvAck
         \/ wti_timer_callback
  PROVE  ReportType' /\ RestType'
<1> USE DEF ReportType
<1>1. ASSUME NEW state \in {3, 4}, wifi_status_change(state)
      PROVE  ReportType' /\ RestType'
  <2>1. BufferType'
    <3>1. CASE state = 4 /\ wifi_ota_update_flag
      BY <1>1, <3>1, ComposeType DEF wifi_status_change
    <3>2. CASE ~(state = 4 /\ wifi_ota_update_flag)
      BY <1>1, <3>2 DEF wifi_status_change, BufferType
    <3> QED BY <3>1, <3>2
  <2>2. held' \in BOOLEAN /\ wifi_ota_update_flag' \in BOOLEAN
    BY <1>1, Zenon DEF wifi_status_change
  <2>3. QueueType' /\ RaisingType' /\ CountType' /\ ReportFlagType'
    BY <1>1, <2>2
       DEF wifi_status_change, QueueType, RaisingType, CountType, ReportFlagType
  <2>4. RestType'
    BY <1>1, <2>2 DEF wifi_status_change, RestType
  <2> QED BY <2>1, <2>3, <2>4
<1>2. CASE telemetry_flush
  <2>1. QueueType'
    <3>1. CASE telemetry_queue # << >>
      <4>1. telemetry_queue' = Tail(telemetry_queue)
        BY <1>2, <3>1 DEF telemetry_flush
      <4>2. Tail(telemetry_queue) \in Seq(0..MaxAlarms)
            /\ Len(Tail(telemetry_queue)) = Len(telemetry_queue) - 1
            /\ Len(telemetry_queue) \in Nat
        BY <3>1 DEF QueueType
      <4> QED BY <4>1, <4>2 DEF QueueType
    <3>2. CASE telemetry_queue = << >>
      BY <1>2, <3>2 DEF telemetry_flush, QueueType
    <3> QED BY <3>1, <3>2
  <2>2. CountType'
    <3>1. CASE telemetry_queue # << >>
      <4>1. Head(telemetry_queue) \in 0..MaxAlarms
        BY <3>1 DEF QueueType
      <4>2. sent' = [sent EXCEPT ![Head(telemetry_queue)] = @ + 1]
        BY <1>2, <3>1 DEF telemetry_flush
      <4> HIDE DEF ReportType
      <4>3. sent' \in [0..MaxAlarms -> Nat]
        BY <4>1, <4>2 DEF CountType, ReportType
      <4> QED BY <1>2, <4>3 DEF telemetry_flush, CountType, ReportType
    <3>2. CASE telemetry_queue = << >>
      BY <1>2, <3>2 DEF telemetry_flush, CountType
    <3> QED BY <3>1, <3>2
  <2>3. RaisingType' /\ BufferType'
    BY <1>2 DEF telemetry_flush, RaisingType, BufferType
  <2>4. ReportFlagType'
    BY <1>2 DEF telemetry_flush, ReportFlagType
  <2>5. RestType'
    BY <1>2 DEF telemetry_flush, RestType
  <2> QED BY <2>1, <2>2, <2>3, <2>4, <2>5
<1>3. CASE wifi_ota_request \/ RecvRequest \/ wti_timer_callback
  <2>1. BufferType'
    BY <1>3, ComposeType DEF wifi_ota_request, RecvRequest, wti_timer_callback, OtherUpload
  <2>2. UNCHANGED <<telemetry_queue, raising, raised, sent, lost, held, late>>
    BY <1>3 DEF wifi_ota_request, RecvRequest, wti_timer_callback, OtherUpload
  <2>3. QueueType' /\ RaisingType' /\ CountType' /\ ReportFlagType'
    BY <2>2 DEF QueueType, RaisingType, CountType, ReportFlagType
  <2>4. RestType'
    <3>1. /\ UNCHANGED <<awake, dc, wifi_status, svc, upload, timers>>
          /\ wifi_ota_update_flag' \in {TRUE, wifi_ota_update_flag}
      BY <1>3 DEF wifi_ota_request, RecvRequest, wti_timer_callback, OtherUpload
    <3>2. wifi_ota_update_flag' \in BOOLEAN
      BY <3>1, Zenon DEF RestType
    <3> QED BY <3>1, <3>2 DEF RestType
  <2> QED BY <2>1, <2>3, <2>4
<1>4. CASE RecvAck
  <2>1. early' \in BOOLEAN
    BY <1>4, Zenon DEF RecvAck
  <2> QED BY <1>4, <2>1
          DEF RecvAck, RestType, QueueType, RaisingType, CountType, ReportFlagType, BufferType
<1> QED BY <1>1, <1>2, <1>3, <1>4

\* The timers, the supply and sleep.
LEMMA TimerTypes ==
  ASSUME ReportType, RestType,
         \/ rcp_timer_callback \/ rcp_timer_set \/ wti_timer_set \/ Power_State_Change
         \/ Sleep \/ Wake
  PROVE  ReportType' /\ RestType'
<1>1. UNCHANGED report
  BY DEF rcp_timer_callback, rcp_timer_set, wti_timer_set, Power_State_Change, Sleep, Wake
<1>2. ReportType'
  BY <1>1 DEF ReportType, QueueType, BufferType, RaisingType, CountType, ReportFlagType
<1>3. CASE rcp_timer_callback
  <2>1. overlapped' \in BOOLEAN
    BY <1>3, Zenon DEF rcp_timer_callback
  <2> QED BY <1>2, <1>3, <2>1 DEF rcp_timer_callback, RestType
<1>4. CASE Power_State_Change
  <2>1. dc' \in BOOLEAN
    BY <1>4, Zenon DEF Power_State_Change
  <2> QED BY <1>2, <1>4, <2>1 DEF Power_State_Change, RestType
<1>5. CASE rcp_timer_set \/ wti_timer_set \/ Sleep \/ Wake
  <2>1. CASE rcp_timer_set \/ wti_timer_set
    <3>1. /\ UNCHANGED <<awake, dc, link, upload, switched>>
          /\ rcp' \in {rcp, "long", "short"} /\ wti' \in {TRUE, wti}
      BY <2>1 DEF rcp_timer_set, wti_timer_set
    <3>2. wti' \in BOOLEAN
      BY <3>1, Zenon DEF RestType
    <3> QED BY <1>2, <3>1, <3>2 DEF RestType
  <2>2. CASE Sleep
    BY <1>2, <2>2 DEF Sleep, RestType
  <2>3. CASE Wake
    BY <1>2, <2>3 DEF Wake, RestType
  <2> QED BY <1>5, <2>1, <2>2, <2>3
<1> QED BY <1>3, <1>4, <1>5

\* The telemetry thread.
LEMMA ThreadTypes ==
  ASSUME ReportType, RestType, ThreadStep
  PROVE  ReportType' /\ RestType'
<1> USE DEF ReportType
<1>1. CASE Upload
  <2>1. BufferType'
    BY <1>1, ComposeType DEF Upload
  <2>2. QueueType' /\ RaisingType' /\ CountType' /\ ReportFlagType'
    BY <1>1 DEF Upload, QueueType, RaisingType, CountType, ReportFlagType
  <2>3. telemetry_detect_sem' \in Nat
    BY <1>1 DEF Upload, RestType
  <2>4. RestType'
    BY <1>1, <2>3 DEF Upload, Reset, RestType
  <2> QED BY <2>1, <2>2, <2>4
<1>2. ASSUME Release PROVE overlapped' \in BOOLEAN /\ pmPeriod' \in BOOLEAN
  BY <1>2, Zenon DEF Release
<1>3. CASE Acknowledged
  BY <1>2, <1>3 DEF Acknowledged, RestType, QueueType, RaisingType, CountType,
                    ReportFlagType, BufferType
<1>4. CASE Timeout
  <2>1. lost' \subseteq 0..MaxAlarms
    <3>1. \A i \in DOMAIN telemetry_queue : telemetry_queue[i] \in 0..MaxAlarms
      BY DEF QueueType
    <3> QED BY <1>4, <3>1 DEF Timeout, CountType
  <2>2. QueueType'
    BY <1>4 DEF Timeout, QueueType
  <2> QED BY <1>2, <1>4, <2>1, <2>2
          DEF Timeout, RestType, RaisingType, CountType, ReportFlagType, BufferType
<1> QED BY <1>1, <1>3, <1>4 DEF ThreadStep

\* Every step of Telemetry keeps the types.
LEMMA TypesStep ==
  ASSUME ReportType, RestType, [Next]_vars
  PROVE  ReportType' /\ RestType'
<1>1. CASE Next
  BY <1>1, RaiserTypes, ServiceTypes, TimerTypes, ThreadTypes DEF Next
<1>2. CASE UNCHANGED vars
  BY <1>2 DEF vars, ReportType, QueueType, BufferType, RaisingType, CountType,
              ReportFlagType, RestType
<1> QED BY <1>1, <1>2

\* The initial state has the types.
LEMMA TypesInit == Init => ReportType /\ RestType
<1> SUFFICES ASSUME Init PROVE ReportType /\ RestType
  OBVIOUS
<1>1. QueueType /\ BufferType /\ ReportFlagType
  BY DEF Init, QueueType, BufferType, ReportFlagType
<1>2. RaisingType
  BY DEF Init, RaisingType, Idle
<1>3. CountType
  BY DEF Init, CountType
<1>4. RestType
  BY DEF Init, RestType
<1> QED BY <1>1, <1>2, <1>3, <1>4 DEF ReportType

\* Variables of Telemetry keep their types; the queue stays within QueueSize.
THEOREM TelemetryTypes == Spec => []TypeOK
<1>1. ReportType /\ RestType /\ [Next]_vars => (ReportType /\ RestType)'
  BY TypesStep
<1> QED BY <1>1, TypesInit, TypeParts, PTL DEF Spec

-----------------------------------------------------------------------------
(* Where every alarm is.                                                    *)

Held(n) == \E t \in Raisers : Busy(t) /\ raising[t].n = n
InQueue(n) == InSeq(telemetry_queue, n)

\* A thread that reports has an alarm of its own.
HoldersOK ==
  \A t \in Raisers : Busy(t) =>
    /\ raising[t].n \in 1..raised
    /\ \A u \in Raisers : Busy(u) /\ raising[u].n = raising[t].n => u = t

\* An alarm that was not raised yet is nowhere.
FreshOK ==
  \A n \in 0..MaxAlarms : n > raised =>
    ~InQueue(n) /\ sent[n] = 0 /\ n \notin lost /\ n \notin mixed

\* While a thread reports, the buffer holds its alarm or one that is mixed; an alarm
\* that is not mixed is in the buffer, and its thread reports alone.
BufferOK ==
  /\ tx <= raised
  /\ \A t \in Raisers : Busy(t) =>
       /\ tx = raising[t].n \/ tx \in mixed \cup {0}
       /\ raising[t].n \notin mixed =>
            tx = raising[t].n /\ \A u \in Raisers : Busy(u) => u = t

\* An alarm that is not mixed is at exactly one place.
PlaceOf(n) ==
  /\ OnceIn(telemetry_queue, n)
  /\ \/ Held(n) /\ ~InQueue(n) /\ sent[n] = 0 /\ n \notin lost
     \/ ~Held(n) /\ InQueue(n) /\ sent[n] = 0 /\ n \notin lost
     \/ ~Held(n) /\ ~InQueue(n) /\ sent[n] = 1 /\ n \notin lost
     \/ ~Held(n) /\ ~InQueue(n) /\ sent[n] = 0 /\ n \in lost
AtOnePlace == \A n \in (1..raised) \ mixed : PlaceOf(n)

AccountInv == ReportType /\ HoldersOK /\ FreshOK /\ BufferOK /\ AtOnePlace

\* A composition of something else than an alarm.
LEMMA ComposeKeeps ==
  ASSUME AccountInv, ReportType',
         Compose(0) \/ UNCHANGED <<tx, mixed>>,
         UNCHANGED <<telemetry_queue, raising, raised, sent, lost>>
  PROVE  AccountInv'
<1> USE DEF AccountInv
<1>1. /\ \A t \in Raisers : Busy(t)' <=> Busy(t)
      /\ \A n : (Held(n)' <=> Held(n)) /\ (InQueue(n)' <=> InQueue(n))
      /\ \A n : PlaceOf(n)' <=> PlaceOf(n)
  BY DEF Busy, Held, InQueue, PlaceOf
<1>2. mixed \subseteq mixed'
  BY DEF Compose
<1>3. HoldersOK'
  BY <1>1 DEF HoldersOK
<1>4. AtOnePlace'
  BY <1>1, <1>2 DEF AtOnePlace
<1>5. FreshOK' /\ BufferOK'
  <2>1. CASE UNCHANGED <<tx, mixed>>
    BY <1>1, <2>1 DEF FreshOK, BufferOK
  <2>2. CASE Compose(0)
    <3>1. \A m \in mixed' : m \in mixed \/ m = 0 \/ Held(m)
      BY <2>2 DEF Compose, Holding, Held
    <3>2. \A m : Held(m) => m \in 1..raised
      BY DEF Held, HoldersOK
    <3>3. \A t \in Raisers : Busy(t) => raising[t].n \in mixed'
      BY <2>2 DEF Compose, Holding
    <3>4. tx' = 0 /\ raised' = raised /\ raised \in 0..MaxAlarms
      BY <2>2 DEF Compose, ReportType, CountType
    <3>5. BufferOK'
      BY <1>1, <3>3, <3>4 DEF BufferOK
    <3>6. FreshOK'
      BY <1>1, <3>1, <3>2, <3>4 DEF FreshOK
    <3> QED BY <3>5, <3>6
  <2> QED BY <2>1, <2>2
<1> QED BY <1>3, <1>4, <1>5

\* A new alarm is with its thread, and nowhere else.
LEMMA RaiseKeeps ==
  ASSUME AccountInv, ReportType', NEW t \in Raisers, Raise(t)
  PROVE  AccountInv'
<1> USE DEF AccountInv
<1> DEFINE m == raised + 1
<1>1. m \in 1..MaxAlarms /\ raised' = m /\ raised \in 0..MaxAlarms /\ tx' = m
  BY DEF Raise, Compose, ReportType, CountType
<1>2. /\ raising'[t] = [at |-> "check", n |-> m]
      /\ \A u \in Raisers \ {t} : raising'[u] = raising[u]
  BY DEF Raise, ReportType, RaisingType
<1>3. /\ Busy(t)' /\ raising'[t].n = m /\ ~Busy(t)
      /\ \A u \in Raisers \ {t} : Busy(u)' <=> Busy(u)
  BY <1>2 DEF Busy, Idle, Raise
<1> HIDE DEF m
<1>4. \A u \in Raisers : Busy(u) => raising[u].n \in 1..raised /\ raising[u].n # m
  BY <1>1 DEF HoldersOK, m
<1>5. HoldersOK'
  BY <1>1, <1>2, <1>3, <1>4 DEF HoldersOK, m
<1>6. \A n : InQueue(n)' <=> InQueue(n)
  BY DEF Raise, InQueue
<1>7. \A n : n # m => (Held(n)' <=> Held(n))
  BY <1>2, <1>3, <1>4 DEF Held
<1>8. /\ mixed \subseteq mixed'
      /\ \A n \in mixed' : n \in mixed \/ n = m \/ (Held(n) /\ n \in 1..raised)
      /\ (\E u \in Raisers : Busy(u)) => m \in mixed'
      /\ \A u \in Raisers : Busy(u) => raising[u].n \in mixed'
  <2>1. mixed' = IF Holding = {} THEN mixed ELSE mixed \cup Holding \cup {m}
    BY <1>1 DEF Raise, Compose, m
  <2>2. \A n \in Holding : Held(n) /\ n \in 1..raised
    BY <1>4 DEF Holding, Held
  <2>3. \A u \in Raisers : Busy(u) => raising[u].n \in Holding
    BY DEF Holding
  <2> QED BY <2>1, <2>2, <2>3
<1>9. BufferOK'
  <2>1. tx' <= raised'
    BY <1>1
  <2>2. ASSUME NEW u \in Raisers, Busy(u)' , u # t
        PROVE  tx' \in mixed' /\ raising'[u].n \in mixed'
    BY <1>1, <1>2, <1>3, <1>8, <2>2
  <2>3. tx' = raising'[t].n
    BY <1>1, <1>3
  <2>4. m \notin mixed' => \A u \in Raisers : Busy(u)' => u = t
    BY <1>3, <1>8
  <2> QED BY <1>3, <2>1, <2>2, <2>3, <2>4 DEF BufferOK
<1>10. UNCHANGED <<telemetry_queue, sent, lost>>
  BY DEF Raise
<1>11. FreshOK'
  BY <1>1, <1>6, <1>8, <1>10 DEF FreshOK, m
<1>12. AtOnePlace'
  <2> SUFFICES ASSUME NEW n \in (1..raised') \ mixed' PROVE PlaceOf(n)'
    BY DEF AtOnePlace
  <2>1. CASE n = m
    <3>1. ~InQueue(n) /\ sent[n] = 0 /\ n \notin lost
      BY <1>1, <2>1 DEF FreshOK, m
    <3>2. OnceIn(telemetry_queue, n)
      BY <3>1 DEF InQueue, InSeq, OnceIn
    <3>3. Held(n)'
      BY <1>3, <2>1 DEF Held
    <3> QED BY <1>6, <1>10, <3>1, <3>2, <3>3 DEF PlaceOf
  <2>2. CASE n # m
    <3>1. n \in (1..raised) \ mixed
      BY <1>1, <1>8, <2>2 DEF m
    <3>2. PlaceOf(n)
      BY <3>1 DEF AtOnePlace
    <3> QED BY <1>6, <1>7, <1>10, <2>2, <3>2 DEF PlaceOf
  <2> QED BY <2>1, <2>2
<1> QED BY <1>5, <1>9, <1>11, <1>12

\* A thread checks the connection: its alarm stays with it.
LEMMA CheckKeeps ==
  ASSUME AccountInv, ReportType', NEW t \in Raisers, wifi_valid_check(t)
  PROVE  AccountInv'
<1> USE DEF AccountInv
<1>1. /\ raising'[t].n = raising[t].n /\ raising'[t].at \in {"frame", "queue"}
      /\ raising[t].at = "check"
      /\ \A u \in Raisers \ {t} : raising'[u] = raising[u]
  BY DEF wifi_valid_check, ReportType, RaisingType
<1>2. /\ \A u \in Raisers : Busy(u)' <=> Busy(u)
      /\ \A u \in Raisers : raising'[u].n = raising[u].n
  BY <1>1 DEF Busy, Idle
<1>3. UNCHANGED <<telemetry_queue, tx, raised, sent, lost, mixed>>
  BY DEF wifi_valid_check
<1>4. \A n : (Held(n)' <=> Held(n)) /\ (InQueue(n)' <=> InQueue(n))
  BY <1>2, <1>3 DEF Held, InQueue
<1>5. HoldersOK' /\ FreshOK' /\ BufferOK'
  BY <1>2, <1>3, <1>4 DEF HoldersOK, FreshOK, BufferOK
<1>6. AtOnePlace'
  BY <1>3, <1>4 DEF AtOnePlace, PlaceOf
<1> QED BY <1>5, <1>6

\* A thread that ends its report: its alarm is the one in the buffer, unless mixed.
LEMMA EndOfReport ==
  ASSUME AccountInv, NEW t \in Raisers, Busy(t), PutArray(t), UNCHANGED raised,
         raising' = [raising EXCEPT ![t] = Idle]
  PROVE  /\ HoldersOK' /\ BufferOK' /\ mixed \subseteq mixed'
         /\ \A n \in mixed' : n \in mixed \/ n <= raised
         /\ \A n : Held(n)' <=> Held(n) /\ n # raising[t].n
         /\ Held(raising[t].n)
         /\ \A n \in (1..raised) \ mixed : n = tx <=> n = raising[t].n
<1> USE DEF AccountInv
<1>1. raising'[t] = Idle /\ \A u \in Raisers \ {t} : raising'[u] = raising[u]
  BY DEF ReportType, RaisingType
<1>2. ~Busy(t)' /\ \A u \in Raisers \ {t} : Busy(u)' <=> Busy(u)
  BY <1>1 DEF Busy
<1>3. HoldersOK'
  BY <1>1, <1>2 DEF HoldersOK
<1>4. \A n \in Holding : n \in 1..raised
  BY DEF Holding, HoldersOK
<1>5. /\ mixed \subseteq mixed' /\ \A n \in mixed' : n \in mixed \/ n \in Holding
      /\ tx' = tx \/ tx' = 0
  BY DEF PutArray
<1>6. raised \in 0..MaxAlarms
  BY DEF ReportType, CountType
<1>7. \A n \in mixed' : n \in mixed \/ n <= raised
  BY <1>4, <1>5, <1>6
<1>8. BufferOK'
  <2>1. tx' <= raised'
    BY <1>5, <1>6 DEF BufferOK
  <2>2. ASSUME NEW u \in Raisers, Busy(u)'
        PROVE  /\ tx' = raising'[u].n \/ tx' \in mixed' \cup {0}
               /\ raising'[u].n \in mixed'
    <3>1. u # t /\ Busy(u) /\ raising'[u] = raising[u]
      BY <1>1, <1>2, <2>2
    <3>2. raising[u].n \in mixed /\ (tx = raising[u].n \/ tx \in mixed \cup {0})
      BY <3>1 DEF BufferOK
    <3> QED BY <1>5, <3>1, <3>2
  <2> QED BY <2>1, <2>2 DEF BufferOK
<1>9. \A n : Held(n)' <=> Held(n) /\ n # raising[t].n
  BY <1>1, <1>2 DEF Held, HoldersOK
<1>10. Held(raising[t].n)
  BY DEF Held
<1>11. ASSUME NEW n \in (1..raised) \ mixed PROVE n = tx <=> n = raising[t].n
  BY DEF BufferOK
<1> QED BY <1>3, <1>5, <1>7, <1>8, <1>9, <1>10, <1>11

\* The alarm is written to the module.
LEMMA WriteKeeps ==
  ASSUME AccountInv, ReportType', NEW t \in Raisers, WriteFrame(t)
  PROVE  AccountInv'
<1>1. Busy(t) /\ PutArray(t) /\ UNCHANGED <<raised, telemetry_queue, lost>>
      /\ raising' = [raising EXCEPT ![t] = Idle]
  BY DEF WriteFrame, Busy, Idle
<1>2. /\ HoldersOK' /\ BufferOK' /\ mixed \subseteq mixed'
      /\ \A n \in mixed' : n \in mixed \/ n <= raised
      /\ \A n : Held(n)' <=> Held(n) /\ n # raising[t].n
      /\ Held(raising[t].n)
      /\ \A n \in (1..raised) \ mixed : n = tx <=> n = raising[t].n
  BY <1>1, EndOfReport
<1> USE DEF AccountInv
<1>3. /\ sent \in [0..MaxAlarms -> Nat] /\ tx \in 0..MaxAlarms
      /\ sent' = [sent EXCEPT ![tx] = sent[tx] + 1]
  BY DEF WriteFrame, ReportType, CountType, BufferType
<1>4. sent'[tx] = sent[tx] + 1 /\ \A n \in 0..MaxAlarms : n # tx => sent'[n] = sent[n]
  BY <1>3
<1>5. \A n : InQueue(n)' <=> InQueue(n)
  BY <1>1 DEF InQueue
<1>6. raised \in 0..MaxAlarms /\ tx <= raised
  BY DEF ReportType, CountType, BufferOK
<1>7. FreshOK'
  BY <1>1, <1>2, <1>3, <1>4, <1>5, <1>6 DEF FreshOK
<1>8. AtOnePlace'
  <2> SUFFICES ASSUME NEW n \in (1..raised) \ mixed PROVE PlaceOf(n)'
    BY <1>1, <1>2 DEF AtOnePlace
  <2>1. PlaceOf(n) /\ n \in 0..MaxAlarms
    BY <1>6 DEF AtOnePlace
  <2>2. CASE n = tx
    <3>1. Held(n) /\ ~Held(n)'
      BY <1>2, <2>2
    <3>2. ~InQueue(n) /\ sent[n] = 0 /\ n \notin lost
      BY <2>1, <3>1 DEF PlaceOf
    <3>3. sent'[n] = 1
      BY <1>4, <2>2, <3>2
    <3> QED BY <1>1, <1>5, <2>1, <3>1, <3>2, <3>3 DEF PlaceOf
  <2>3. CASE n # tx
    <3>1. sent'[n] = sent[n] /\ (Held(n)' <=> Held(n))
      BY <1>2, <1>4, <2>1, <2>3
    <3> QED BY <1>1, <1>5, <2>1, <3>1 DEF PlaceOf
  <2> QED BY <2>2, <2>3
<1> QED BY <1>2, <1>7, <1>8

\* The alarm is queued, or refused by a full queue.
LEMMA QueueKeeps ==
  ASSUME AccountInv, ReportType', NEW t \in Raisers, wifi_uart_write_queue(t)
  PROVE  AccountInv'
<1>1. Busy(t) /\ PutArray(t) /\ UNCHANGED <<raised, sent>>
      /\ raising' = [raising EXCEPT ![t] = Idle]
  BY DEF wifi_uart_write_queue, Busy, Idle
<1>2. /\ HoldersOK' /\ BufferOK' /\ mixed \subseteq mixed'
      /\ \A n \in mixed' : n \in mixed \/ n <= raised
      /\ \A n : Held(n)' <=> Held(n) /\ n # raising[t].n
      /\ Held(raising[t].n)
      /\ \A n \in (1..raised) \ mixed : n = tx <=> n = raising[t].n
  BY <1>1, EndOfReport
<1> USE DEF AccountInv
<1>3. raised \in 0..MaxAlarms /\ tx <= raised /\ tx \in 0..MaxAlarms
      /\ telemetry_queue \in Seq(0..MaxAlarms)
  BY DEF ReportType, CountType, BufferOK, BufferType, QueueType
<1>4. CASE telemetry_queue' = Append(telemetry_queue, tx) /\ lost' = lost
  <2>1. \A n : /\ InQueue(n)' <=> InQueue(n) \/ n = tx
               /\ n # tx => (OnceIn(telemetry_queue, n) <=> OnceIn(telemetry_queue', n))
               /\ ~InQueue(n) => OnceIn(telemetry_queue', n)
    BY <1>3, <1>4, AppendIn DEF InQueue
  <2>2. FreshOK'
    BY <1>1, <1>2, <1>3, <1>4, <2>1 DEF FreshOK
  <2>3. AtOnePlace'
    <3> SUFFICES ASSUME NEW n \in (1..raised) \ mixed PROVE PlaceOf(n)'
      BY <1>1, <1>2 DEF AtOnePlace
    <3>1. PlaceOf(n)
      BY DEF AtOnePlace
    <3>2. CASE n = tx
      <4>1. Held(n) /\ ~Held(n)'
        BY <1>2, <3>2
      <4>2. ~InQueue(n) /\ sent[n] = 0 /\ n \notin lost
        BY <3>1, <4>1 DEF PlaceOf
      <4> QED BY <1>1, <1>4, <2>1, <3>2, <4>1, <4>2 DEF PlaceOf
    <3>3. CASE n # tx
      <4>1. Held(n)' <=> Held(n)
        BY <1>2, <3>3
      <4> QED BY <1>1, <1>4, <2>1, <3>1, <3>3, <4>1 DEF PlaceOf
    <3> QED BY <3>2, <3>3
  <2> QED BY <1>2, <2>2, <2>3
<1>5. CASE telemetry_queue' = telemetry_queue /\ lost' = lost \cup {tx}
  <2>1. \A n : InQueue(n)' <=> InQueue(n)
    BY <1>5 DEF InQueue
  <2>2. FreshOK'
    BY <1>1, <1>2, <1>3, <1>5, <2>1 DEF FreshOK
  <2>3. AtOnePlace'
    <3> SUFFICES ASSUME NEW n \in (1..raised) \ mixed PROVE PlaceOf(n)'
      BY <1>1, <1>2 DEF AtOnePlace
    <3>1. PlaceOf(n)
      BY DEF AtOnePlace
    <3>2. CASE n = tx
      <4>1. Held(n) /\ ~Held(n)'
        BY <1>2, <3>2
      <4>2. ~InQueue(n) /\ sent[n] = 0 /\ n \notin lost
        BY <3>1, <4>1 DEF PlaceOf
      <4> QED BY <1>1, <1>5, <2>1, <3>1, <3>2, <4>1, <4>2 DEF PlaceOf
    <3>3. CASE n # tx
      <4>1. Held(n)' <=> Held(n)
        BY <1>2, <3>3
      <4> QED BY <1>1, <1>5, <2>1, <3>1, <3>3, <4>1 DEF PlaceOf
    <3> QED BY <3>2, <3>3
  <2> QED BY <1>2, <2>2, <2>3
<1> QED BY <1>4, <1>5 DEF wifi_uart_write_queue

\* The head of the queue is written to the module.
LEMMA FlushKeeps ==
  ASSUME AccountInv, ReportType', telemetry_flush
  PROVE  AccountInv'
<1> USE DEF AccountInv
<1>1. UNCHANGED <<tx, mixed, raising, raised, lost>>
  BY DEF telemetry_flush
<1>2. \A t \in Raisers : Busy(t)' <=> Busy(t)
  BY <1>1 DEF Busy
<1>3. \A n : Held(n)' <=> Held(n)
  BY <1>1 DEF Held, Busy
<1>4. HoldersOK' /\ BufferOK'
  BY <1>1, <1>2 DEF HoldersOK, BufferOK
<1>5. raised \in 0..MaxAlarms /\ sent \in [0..MaxAlarms -> Nat]
      /\ telemetry_queue \in Seq(0..MaxAlarms)
  BY DEF ReportType, CountType, QueueType
<1>6. CASE telemetry_queue = << >>
  <2>1. UNCHANGED <<sent, telemetry_queue>>
    BY <1>6 DEF telemetry_flush
  <2>2. \A n : InQueue(n)' <=> InQueue(n)
    BY <2>1 DEF InQueue
  <2>3. FreshOK' /\ AtOnePlace'
    BY <1>1, <1>3, <2>1, <2>2 DEF FreshOK, AtOnePlace, PlaceOf
  <2> QED BY <1>4, <2>3
<1>7. CASE telemetry_queue # << >>
  <2> PICK h \in 0..MaxAlarms : h = Head(telemetry_queue)
    BY <1>5, <1>7
  <2>1. /\ telemetry_queue' = Tail(telemetry_queue)
        /\ sent' = [sent EXCEPT ![h] = sent[h] + 1]
    BY <1>7 DEF telemetry_flush
  <2>2. /\ h \in 0..MaxAlarms /\ InQueue(h)
        /\ \A n : /\ n # h => (InQueue(n)' <=> InQueue(n))
                  /\ OnceIn(telemetry_queue, n) => OnceIn(telemetry_queue', n)
        /\ OnceIn(telemetry_queue, h) => ~InQueue(h)'
    BY <1>5, <1>7, <2>1, TailIn DEF InQueue
  <2>3. sent'[h] = sent[h] + 1 /\ \A n \in 0..MaxAlarms : n # h => sent'[n] = sent[n]
    BY <1>5, <2>1, <2>2
  <2>4. h <= raised
    BY <1>5, <2>2 DEF FreshOK
  <2>5. FreshOK'
    BY <1>1, <1>5, <2>2, <2>3, <2>4 DEF FreshOK
  <2>6. AtOnePlace'
    <3> SUFFICES ASSUME NEW n \in (1..raised) \ mixed PROVE PlaceOf(n)'
      BY <1>1 DEF AtOnePlace
    <3>1. PlaceOf(n) /\ n \in 0..MaxAlarms
      BY <1>5 DEF AtOnePlace
    <3>2. CASE n = h
      <4>1. ~Held(n) /\ sent[n] = 0 /\ n \notin lost /\ OnceIn(telemetry_queue, n)
        BY <2>2, <3>1, <3>2 DEF PlaceOf
      <4>2. sent'[n] = 1 /\ ~InQueue(n)' /\ OnceIn(telemetry_queue', n)
        BY <2>2, <2>3, <3>2, <4>1
      <4> QED BY <1>1, <1>3, <4>1, <4>2 DEF PlaceOf
    <3>3. CASE n # h
      <4>1. sent'[n] = sent[n] /\ (InQueue(n)' <=> InQueue(n))
        BY <2>2, <2>3, <3>1, <3>3
      <4> QED BY <1>1, <1>3, <2>2, <3>1, <4>1 DEF PlaceOf
    <3> QED BY <3>2, <3>3
  <2> QED BY <1>4, <2>5, <2>6
<1> QED BY <1>6, <1>7

\* Everything queued is dropped.
LEMMA TimeoutKeeps ==
  ASSUME AccountInv, ReportType', Timeout
  PROVE  AccountInv'
<1> USE DEF AccountInv
<1>1. UNCHANGED <<tx, mixed, raising, raised, sent>> /\ telemetry_queue' = << >>
  BY DEF Timeout
<1>2. \A t \in Raisers : Busy(t)' <=> Busy(t)
  BY <1>1 DEF Busy
<1>3. \A n : Held(n)' <=> Held(n)
  BY <1>1 DEF Held, Busy
<1>4. HoldersOK' /\ BufferOK'
  BY <1>1, <1>2 DEF HoldersOK, BufferOK
<1>5. \A n : n \in lost' <=> n \in lost \/ InQueue(n)
  BY DEF Timeout, InQueue, InSeq
<1>6. \A n : ~InQueue(n)' /\ OnceIn(telemetry_queue', n)
  BY <1>1 DEF InQueue, InSeq, OnceIn
<1>7. FreshOK'
  BY <1>1, <1>5, <1>6 DEF FreshOK
<1>8. AtOnePlace'
  <2> SUFFICES ASSUME NEW n \in (1..raised) \ mixed PROVE PlaceOf(n)'
    BY <1>1 DEF AtOnePlace
  <2>1. PlaceOf(n)
    BY DEF AtOnePlace
  <2> QED BY <1>1, <1>3, <1>5, <1>6, <2>1 DEF PlaceOf
<1> QED BY <1>4, <1>7, <1>8

\* Every step of Telemetry keeps every alarm at its place.
LEMMA AccountStep ==
  ASSUME AccountInv, RestType, [Next]_vars
  PROVE  AccountInv'
<1>1. ReportType'
  BY TypesStep DEF AccountInv
<1>2. CASE \E t \in Raisers : \/ Raise(t) \/ wifi_valid_check(t) \/ WriteFrame(t)
                              \/ wifi_uart_write_queue(t)
  BY <1>1, <1>2, RaiseKeeps, CheckKeeps, WriteKeeps, QueueKeeps
<1>3. CASE \E state \in {3, 4} : wifi_status_change(state)
  <2>1. /\ Compose(0) \/ UNCHANGED <<tx, mixed>>
        /\ UNCHANGED <<telemetry_queue, raising, raised, sent, lost>>
    BY <1>3 DEF wifi_status_change
  <2> QED BY <1>1, <2>1, ComposeKeeps
<1>4. CASE telemetry_flush
  BY <1>1, <1>4, FlushKeeps
<1>5. CASE wifi_ota_request \/ RecvRequest \/ wti_timer_callback \/ Upload
  <2>1. Compose(0) /\ UNCHANGED <<telemetry_queue, raising, raised, sent, lost>>
    BY <1>5 DEF wifi_ota_request, RecvRequest, wti_timer_callback, OtherUpload, Upload
  <2> QED BY <1>1, <2>1, ComposeKeeps
<1>6. CASE Timeout
  BY <1>1, <1>6, TimeoutKeeps
<1>7. CASE \/ RecvAck \/ rcp_timer_callback \/ rcp_timer_set \/ wti_timer_set
           \/ Power_State_Change \/ Acknowledged \/ Sleep \/ Wake \/ UNCHANGED vars
  <2>1. UNCHANGED report
    BY <1>7 DEF RecvAck, rcp_timer_callback, rcp_timer_set, wti_timer_set,
                Power_State_Change, Acknowledged, Sleep, Wake, vars
  <2>2. UNCHANGED <<tx, mixed>> /\ UNCHANGED <<telemetry_queue, raising, raised, sent, lost>>
    BY <2>1
  <2> QED BY <1>1, <2>2, ComposeKeeps
<1> QED BY <1>2, <1>3, <1>4, <1>5, <1>6, <1>7 DEF Next, ThreadStep

\* One place is one when the places are counted.
LEMMA PlacesCounted ==
  ASSUME AccountInv, NEW n \in (1..raised) \ mixed
  PROVE  sent[n] + Queued(n)
           + Cardinality({t \in Raisers : Busy(t) /\ raising[t].n = n})
           + (IF n \in lost THEN 1 ELSE 0) = 1
<1> DEFINE H == {t \in Raisers : Busy(t) /\ raising[t].n = n}
           Q == {i \in DOMAIN telemetry_queue : telemetry_queue[i] = n}
<1>1. PlaceOf(n)
  BY DEF AccountInv, AtOnePlace
<1>2. Cardinality(H) = IF Held(n) THEN 1 ELSE 0
  <2>1. CASE Held(n)
    <3>1. PICK t \in Raisers : Busy(t) /\ raising[t].n = n
      BY <2>1 DEF Held
    <3>2. H = {t}
      BY <3>1 DEF AccountInv, HoldersOK
    <3> QED BY <2>1, <3>2, FS_Singleton
  <2>2. CASE ~Held(n)
    <3>1. H = {}
      BY <2>2 DEF Held
    <3> QED BY <2>2, <3>1, FS_EmptySet
  <2> QED BY <2>1, <2>2
<1>3. Cardinality(Q) = IF InQueue(n) THEN 1 ELSE 0
  <2>1. CASE InQueue(n)
    <3>1. PICK i \in DOMAIN telemetry_queue : telemetry_queue[i] = n
      BY <2>1 DEF InQueue, InSeq
    <3>2. Q = {i}
      BY <1>1, <3>1 DEF PlaceOf, OnceIn
    <3> QED BY <2>1, <3>2, FS_Singleton
  <2>2. CASE ~InQueue(n)
    <3>1. Q = {}
      BY <2>2 DEF InQueue, InSeq
    <3> QED BY <2>2, <3>1, FS_EmptySet
  <2> QED BY <2>1, <2>2
<1>4. Queued(n) = Cardinality(Q)
  BY DEF Queued
<1> HIDE DEF H, Q
<1>5. sent[n] + Queued(n) + Cardinality(H) + (IF n \in lost THEN 1 ELSE 0) = 1
  BY <1>1, <1>2, <1>3, <1>4 DEF PlaceOf
<1> QED BY <1>5 DEF H

\* An alarm that alarm_upload or event_upload composed alone is with its thread,
\* queued once, written once or dropped: whatever the module, the timers and the
\* other threads do, it is never sent twice and never gone without a trace.
THEOREM EveryAlarmAccounted == Spec => []AlarmsAccounted
<1>1. Init => AccountInv /\ RestType
  <2> SUFFICES ASSUME Init PROVE AccountInv
    BY TypesInit
  <2>1. ReportType
    BY TypesInit
  <2>2. \A t \in Raisers : ~Busy(t)
    BY DEF Init, Busy
  <2>3. HoldersOK /\ BufferOK
    BY <2>2 DEF Init, HoldersOK, BufferOK
  <2>4. FreshOK /\ AtOnePlace
    BY DEF Init, FreshOK, AtOnePlace, InQueue, InSeq
  <2> QED BY <2>1, <2>3, <2>4 DEF AccountInv
<1>2. AccountInv /\ RestType /\ [Next]_vars => (AccountInv /\ RestType)'
  BY AccountStep, TypesStep DEF AccountInv
<1>3. AccountInv /\ RestType => AlarmsAccounted
  BY TypeParts, PlacesCounted DEF AccountInv, AlarmsAccounted
<1> QED BY <1>1, <1>2, <1>3, PTL DEF Spec

-----------------------------------------------------------------------------
(* What waits while the module is connected.                                *)

\* While the module is connected and the flush is over, the queue is empty unless an
\* update went first or a thread queued with a stale check.
THEOREM QueueNotStuck == Spec => []NothingStuck
<1>1. Init => NothingStuck
  BY DEF Init, NothingStuck
<1>2. NothingStuck /\ [Next]_vars => NothingStuck'
  <2> SUFFICES ASSUME NothingStuck, [Next]_vars PROVE NothingStuck'
    OBVIOUS
  <2> USE DEF NothingStuck
  <2>1. ASSUME NEW t \in Raisers, Raise(t) \/ wifi_valid_check(t) \/ WriteFrame(t)
        PROVE  NothingStuck'
    BY <2>1 DEF Raise, wifi_valid_check, WriteFrame
  <2>2. ASSUME NEW t \in Raisers, wifi_uart_write_queue(t) PROVE NothingStuck'
    <3>1. UNCHANGED <<wifi_status, svc, held>> /\ awake
      BY <2>2 DEF wifi_uart_write_queue
    <3>2. \/ wifi_status = 4 => late'
          \/ UNCHANGED <<telemetry_queue, late>>
      BY <2>2, Zenon DEF wifi_uart_write_queue
    <3> QED BY <3>1, <3>2
  <2>3. ASSUME NEW state \in {3, 4}, wifi_status_change(state) PROVE NothingStuck'
    BY <2>3 DEF wifi_status_change
  <2>4. CASE telemetry_flush
    BY <2>4 DEF telemetry_flush
  <2>5. CASE \/ wifi_ota_request \/ RecvRequest \/ RecvAck \/ rcp_timer_callback
             \/ wti_timer_callback \/ rcp_timer_set \/ wti_timer_set
             \/ Power_State_Change \/ Upload \/ Acknowledged
    BY <2>5 DEF wifi_ota_request, RecvRequest, RecvAck, rcp_timer_callback,
                wti_timer_callback, rcp_timer_set, wti_timer_set, Power_State_Change,
                Upload, Acknowledged, OtherUpload
  <2>6. CASE Timeout
    BY <2>6 DEF Timeout
  <2>7. CASE Sleep \/ Wake \/ UNCHANGED vars
    BY <2>7 DEF Sleep, Wake, vars
  <2> QED BY <2>1, <2>2, <2>3, <2>4, <2>5, <2>6, <2>7 DEF Next, ThreadStep
<1> QED BY <1>1, <1>2, PTL DEF Spec

-----------------------------------------------------------------------------
(* The upload and the vote against sleep.                                   *)

\* One request waits at most; from the request until the upload ends the vote is held,
\* unless the timer has fired during an upload.
VoteInv ==
  /\ telemetry_detect_sem \in {0, 1}
  /\ telemetry_detect_sem = 1 \/ pc = "await" => pmPeriod \/ overlapped
  /\ telemetry_detect_sem = 1 /\ pc = "await" => overlapped

\* The vote of PM_PERIOD_ID is held while an upload is awaited, unless the timer
\* fired again during an upload.
THEOREM UploadHoldsVote == Spec => []UploadKeepsAwake
<1>1. Init => VoteInv
  BY DEF Init, VoteInv
<1>2. VoteInv /\ [Next]_vars => VoteInv'
  <2> SUFFICES ASSUME VoteInv, [Next]_vars PROVE VoteInv'
    OBVIOUS
  <2> USE DEF VoteInv
  <2>1. CASE rcp_timer_callback
    <3>1. pmPeriod' /\ pc' = pc
          /\ ((pc # "wait" \/ telemetry_detect_sem > 0) =>
                 overlapped' /\ telemetry_detect_sem = 0)
      BY <2>1, Zenon DEF rcp_timer_callback
    <3>2. telemetry_detect_sem' = telemetry_detect_sem + 1
      BY <2>1 DEF rcp_timer_callback
    <3> QED BY <3>1, <3>2
  <2>2. CASE Upload
    BY <2>2 DEF Upload
  <2>3. CASE Acknowledged \/ Timeout
    <3>1. /\ pc = "await" /\ pc' = "wait" /\ telemetry_detect_sem' = telemetry_detect_sem
          /\ overlapped /\ telemetry_detect_sem > 0 => overlapped'
      BY <2>3, Zenon DEF Acknowledged, Timeout, Release
    <3> QED BY <3>1
  <2>4. CASE UNCHANGED <<pc, telemetry_detect_sem, pmPeriod, overlapped>>
    BY <2>4
  <2> QED BY <2>1, <2>2, <2>3, <2>4
          DEF Next, ThreadStep, Raise, wifi_valid_check, WriteFrame, wifi_uart_write_queue,
              wifi_status_change, telemetry_flush, wifi_ota_request, RecvRequest, RecvAck,
              wti_timer_callback, rcp_timer_set, wti_timer_set, Power_State_Change, Sleep,
              Wake, OtherUpload, vars
<1>3. VoteInv => UploadKeepsAwake
  BY DEF VoteInv, UploadKeepsAwake
<1> QED BY <1>1, <1>2, <1>3, PTL DEF Spec

\* While the vote of PM_PERIOD_ID is held the device runs, and an upload is asked for or
\* awaited: the telemetry thread has a step left to take, and its wait ends in a release.
VoteHasEnd == pmPeriod => awake /\ (pc = "await" \/ telemetry_detect_sem > 0)

\* No vote is left over: when the telemetry thread has nothing to do, the device may
\* sleep again.  With the fairness of the thread this is why PeriodReleased holds.
THEOREM VoteNeverLeftOver == Spec => []VoteHasEnd
<1> DEFINE Inv == telemetry_detect_sem \in Nat /\ VoteHasEnd
<1>1. Init => Inv
  BY DEF Init, VoteHasEnd
<1>2. Inv /\ [Next]_vars => Inv'
  <2> SUFFICES ASSUME Inv, [Next]_vars PROVE Inv'
    OBVIOUS
  <2> USE DEF VoteHasEnd
  <2>1. CASE rcp_timer_callback
    <3>1. awake' /\ telemetry_detect_sem' = telemetry_detect_sem + 1
      BY <2>1, Zenon DEF rcp_timer_callback
    <3> QED BY <3>1
  <2>2. CASE Upload
    BY <2>2 DEF Upload
  <2>3. CASE Acknowledged \/ Timeout
    BY <2>3 DEF Acknowledged, Timeout, Release
  <2>4. CASE Sleep \/ Wake
    BY <2>4 DEF Sleep, Wake, upload
  <2>5. CASE UNCHANGED <<awake, pc, telemetry_detect_sem, pmPeriod>>
    BY <2>5
  <2> QED BY <2>1, <2>2, <2>3, <2>4, <2>5
          DEF Next, ThreadStep, Raise, wifi_valid_check, WriteFrame, wifi_uart_write_queue,
              wifi_status_change, telemetry_flush, wifi_ota_request, RecvRequest, RecvAck,
              wti_timer_callback, rcp_timer_set, wti_timer_set, Power_State_Change,
              OtherUpload, vars
<1> QED BY <1>1, <1>2, PTL DEF Spec

\* The wait for an acknowledgement starts with none left over from an earlier upload.
THEOREM AckIsFresh == Spec => []FreshAck
<1>1. Init => FreshAck
  BY DEF Init, FreshAck
<1>2. FreshAck /\ [Next]_vars => FreshAck'
  <2> SUFFICES ASSUME FreshAck, [Next]_vars PROVE FreshAck'
    OBVIOUS
  <2> USE DEF FreshAck
  <2>1. CASE RecvAck
    BY <2>1 DEF RecvAck
  <2>2. CASE ThreadStep
    BY <2>2 DEF ThreadStep, Upload, Reset, Acknowledged, Timeout
  <2>3. CASE UNCHANGED <<pc, early>>
    BY <2>3
  <2> QED BY <2>1, <2>2, <2>3
          DEF Next, Raise, wifi_valid_check, WriteFrame, wifi_uart_write_queue,
              wifi_status_change, telemetry_flush, wifi_ota_request, RecvRequest,
              rcp_timer_callback, wti_timer_callback, rcp_timer_set, wti_timer_set,
              Power_State_Change, Sleep, Wake, OtherUpload, vars
<1> QED BY <1>1, <1>2, PTL DEF Spec

\* After a change of supply the timer of that supply runs, whatever interval the cloud
\* sets afterwards.
THEOREM TimerOfSupplyRuns == Spec => []SyncArmed
<1>1. Init => SyncArmed
  BY DEF Init, SyncArmed
<1>2. SyncArmed /\ [Next]_vars => SyncArmed'
  <2> SUFFICES ASSUME SyncArmed, [Next]_vars PROVE SyncArmed'
    OBVIOUS
  <2> USE DEF SyncArmed
  <2>1. CASE rcp_timer_set \/ wti_timer_set
    <3>1. /\ UNCHANGED <<dc, switched>>
          /\ \/ rcp' \in {"long", "short"} /\ wti' = wti
             \/ rcp' = rcp /\ wti'
      BY <2>1, Zenon DEF rcp_timer_set, wti_timer_set
    <3> QED BY <3>1
  <2>2. CASE Power_State_Change
    <3>1. (dc' => wti') /\ (~dc' => rcp' \in {"long", "short"})
      BY <2>2, Zenon DEF Power_State_Change
    <3> QED BY <3>1
  <2>3. CASE UNCHANGED <<dc, rcp, wti, switched>>
    BY <2>3
  <2> QED BY <2>1, <2>2, <2>3
          DEF Next, ThreadStep, Raise, wifi_valid_check, WriteFrame, wifi_uart_write_queue,
              wifi_status_change, telemetry_flush, wifi_ota_request, RecvRequest, RecvAck,
              rcp_timer_callback, wti_timer_callback, Upload, Acknowledged, Timeout,
              Sleep, Wake, OtherUpload, vars
<1> QED BY <1>1, <1>2, PTL DEF Spec
=============================================================================
