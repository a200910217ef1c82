----------------------------- MODULE LinkProofs -----------------------------
(***************************************************************************)
(* Proofs about what comes over the Wi-Fi link.  The receive queue, for    *)
(* every size, provided that the limit on the bytes stored is smaller than *)
(* the buffer, as on that link (1207 of 1543).  The update of the          *)
(* firmware, for every image, every number of faults and every number of   *)
(* frames under way, except where a theorem says otherwise.  The parser of *)
(* the frames, on this link and that of the TDS sensor, for every sequence *)
(* of bytes and every buffer that holds a head.                            *)
(***************************************************************************)
EXTENDS RxRing, Ota, Frames, SequenceTheorems, WellFoundedInduction, TLAPS

-----------------------------------------------------------------------------
(* The receive queue.                                                       *)

\* wifi_protocol_init leaves both pointers at the start of the buffer.
LEMMA InitRing == RingInit /\ Limit < Size => RingInv
<1> SUFFICES ASSUME RingInit, Limit < Size PROVE RingInv
  OBVIOUS
<1>1. rx_buf \in [0..(Size - 1) -> Bytes \cup {0}] /\ refused \in BOOLEAN
  BY Zenon DEF RingInit
<1>2. RingTypeOK
  BY <1>1, RingAssumption DEF RingInit, RingTypeOK
<1>3. GapKept /\ ReadIsSafe /\ StartsEmpty
  BY RingAssumption DEF RingInit, GapKept, ReadIsSafe, StartsEmpty, Waiting
<1> QED BY <1>2, <1>3 DEF RingInv

\* Storing a byte keeps the gap: the receiving thread never brings queue_in onto
\* queue_out, and never writes the cell the reader is about to load.
LEMMA ReceiveRing ==
  ASSUME Limit < Size, RingInv, NEW b \in Bytes, receive_input(b)
  PROVE  RingInv'
<1> USE RingAssumption DEF RingInv
<1>1. CASE Full
  BY <1>1 DEF receive_input, RingTypeOK, GapKept, ReadIsSafe, StartsEmpty, Waiting
<1>2. CASE ~Full
  <2>1. /\ queue_in' = Slot + 1 /\ rx_buf' = [rx_buf EXCEPT ![Slot] = b]
        /\ UNCHANGED <<queue_out, pc, byte, value>> /\ refused' = FALSE
    BY <1>2 DEF receive_input
  <2>2. /\ Slot \in 0..(Size - 1) /\ Slot + 1 # queue_out
        /\ queue_in # queue_out => Slot # queue_out
    BY <1>2 DEF Slot, Full, RingTypeOK, GapKept, Waiting
  <2>3. RingTypeOK'
    <3>1. rx_buf' \in [0..(Size - 1) -> Bytes \cup {0}]
      BY <2>1, <2>2 DEF RingTypeOK
    <3>2. refused' \in BOOLEAN
      BY <2>1, Zenon
    <3> QED BY <2>1, <2>2, <3>1, <3>2 DEF RingTypeOK
  <2>4. GapKept' /\ StartsEmpty'
    BY <1>2, <2>1, <2>2 DEF Slot, Full, RingTypeOK, GapKept, StartsEmpty, Waiting
  <2>5. ReadIsSafe'
    BY <2>1, <2>2 DEF RingTypeOK, ReadIsSafe
  <2> QED BY <2>3, <2>4, <2>5
<1> QED BY <1>1, <1>2

\* Every step of the service thread keeps the invariant.
LEMMA ServiceRing ==
  ASSUME RingInv,
         get_queue_total_data \/ Wrap \/ Load \/ Advance \/ AdvanceFirst \/ LoadAfter
  PROVE  RingInv'
<1> USE RingAssumption DEF RingInv, RingTypeOK, GapKept, ReadIsSafe, StartsEmpty, Waiting
<1>1. CASE get_queue_total_data BY <1>1 DEF get_queue_total_data
<1>2. CASE Wrap BY <1>2 DEF Wrap
<1>3. CASE Load BY <1>3 DEF Load
<1>4. CASE Advance BY <1>4 DEF Advance
<1>5. CASE AdvanceFirst BY <1>5 DEF AdvanceFirst
<1>6. CASE LoadAfter BY <1>6 DEF LoadAfter
<1> QED BY <1>1, <1>2, <1>3, <1>4, <1>5, <1>6

\* Whatever the interleaving of the two threads and the order of the two accesses
\* in Queue_Read_Byte, the pointers stay in the buffer, the gap is kept and the
\* byte being read is not overwritten.
THEOREM RingSafe ==
  ASSUME Limit < Size
  PROVE  RingSpec => []RingInv
<1>1. RingInit => RingInv
  BY InitRing
<1>2. RingInv /\ [RingNext]_ring => RingInv'
  <2> SUFFICES ASSUME RingInv, [RingNext]_ring PROVE RingInv'
    OBVIOUS
  <2>1. ASSUME NEW b \in Bytes, receive_input(b) PROVE RingInv'
    BY <2>1, ReceiveRing
  <2>2. CASE get_queue_total_data \/ Wrap \/ Load \/ Advance \/ AdvanceFirst \/ LoadAfter
    BY <2>2, ServiceRing
  <2>3. CASE UNCHANGED ring
    BY <2>3 DEF ring, RingInv, RingTypeOK, GapKept, ReadIsSafe, StartsEmpty, Waiting
  <2> QED BY <2>1, <2>2, <2>3 DEF RingNext
<1> QED BY <1>1, <1>2, PTL DEF RingSpec

\* What the receiving thread calls "not full" has room for one more byte.
THEOREM RingHasRoom ==
  ASSUME Limit < Size
  PROVE  RingSpec => []NotFullHasRoom
<1>1. RingInv => NotFullHasRoom
  BY RingAssumption
     DEF RingInv, RingTypeOK, GapKept, StartsEmpty, NotFullHasRoom, Slot, Full, Waiting
<1> QED BY <1>1, RingSafe, PTL

-----------------------------------------------------------------------------
(* The queue implements ByteFifo.                                            *)

\* What a cell may hold: a byte received, or the 0 the buffer starts with.
Stored == Bytes \cup {0}

\* A function on 1..n is a sequence of length n.
LEMMA FunctionIsSeq ==
  ASSUME NEW S, NEW n \in Nat, NEW f \in [1..n -> S]
  PROVE  f \in Seq(S) /\ Len(f) = n
OBVIOUS

\* The i-th byte waiting lies in the buffer, and the bytes waiting are a sequence.
LEMMA ContentSeq ==
  ASSUME RingInv
  PROVE  /\ Waiting \in Nat
         /\ \A i \in 1..Waiting : Cell(i) \in 0..(Size - 1)
         /\ Content \in [1..Waiting -> Stored]
         /\ Content \in Seq(Stored) /\ Len(Content) = Waiting
<1>1. Waiting \in Nat /\ \A i \in 1..Waiting : Cell(i) \in 0..(Size - 1)
  BY RingAssumption DEF RingInv, RingTypeOK, GapKept, Waiting, Cell
<1>2. Content \in [1..Waiting -> Stored]
  BY <1>1 DEF Content, Stored, RingInv, RingTypeOK
<1> QED BY <1>1, <1>2, FunctionIsSeq

\* A byte stored is appended to the bytes waiting: it overwrites none of them.
LEMMA StoreAppends ==
  ASSUME Limit < Size, RingInv, NEW b \in Bytes, receive_input(b), ~Full
  PROVE  Content' = Append(Content, b)
<1> USE RingAssumption
<1>1. /\ queue_in' = Slot + 1 /\ rx_buf' = [rx_buf EXCEPT ![Slot] = b]
      /\ queue_out' = queue_out
  BY DEF receive_input
<1>2. /\ Waiting \in Nat /\ Waiting' = Waiting + 1 /\ Slot \in 0..(Size - 1)
      /\ Cell(Waiting + 1) = Slot
      /\ \A i \in 1..Waiting : Cell(i) \in 0..(Size - 1) /\ Cell(i) # Slot
  BY <1>1 DEF RingInv, RingTypeOK, GapKept, StartsEmpty, Waiting, Cell, Slot, Full
<1>3. \A i \in 1..(Waiting + 1) : Cell(i)' = Cell(i)
  BY <1>1 DEF Cell
<1>4. Content' = [i \in 1..(Waiting + 1) |-> rx_buf'[Cell(i)]]
  BY <1>2, <1>3 DEF Content
<1>5. /\ \A i \in 1..Waiting : rx_buf'[Cell(i)] = Content[i]
      /\ rx_buf'[Cell(Waiting + 1)] = b
  BY <1>1, <1>2 DEF Content, RingInv, RingTypeOK
<1>6. /\ Content \in Seq(Stored) /\ Len(Content) = Waiting /\ b \in Stored
  BY ContentSeq DEF Stored
<1>7. /\ Append(Content, b) \in Seq(Stored)
      /\ Len(Append(Content, b)) = Waiting + 1
      /\ \A i \in 1..Waiting : Append(Content, b)[i] = Content[i]
      /\ Append(Content, b)[Waiting + 1] = b
  BY <1>6, AppendProperties
<1>8. Content' \in [1..(Waiting + 1) -> Stored]
  BY <1>2, <1>4, <1>5, <1>6, ContentSeq DEF Stored
<1>9. Content' \in Seq(Stored) /\ Len(Content') = Waiting + 1
  BY <1>2, <1>8, FunctionIsSeq
<1>10. \A i \in 1..(Waiting + 1) : Content'[i] = Append(Content, b)[i]
  <2> TAKE i \in 1..(Waiting + 1)
  <2>1. Content'[i] = rx_buf'[Cell(i)]
    BY <1>4
  <2>2. i \in 1..Waiting \/ i = Waiting + 1
    BY <1>2
  <2> QED BY <1>5, <1>7, <2>1, <2>2
<1> QED BY <1>7, <1>9, <1>10, SeqEqual

\* Advancing queue_out takes the first of the bytes waiting.
LEMMA AdvanceTakes ==
  ASSUME RingInv, pc \in {"read", "advance"},
         queue_out' = queue_out + 1, UNCHANGED <<rx_buf, queue_in>>
  PROVE  /\ Content # <<>> /\ Head(Content) = rx_buf[queue_out]
         /\ Content' = Tail(Content)
<1> USE RingAssumption
<1>1. /\ Waiting \in Nat \ {0} /\ Waiting' = Waiting - 1 /\ Cell(1) = queue_out
      /\ \A i \in 1..(Waiting - 1) : Cell(i)' = Cell(i + 1)
  BY DEF RingInv, RingTypeOK, GapKept, ReadIsSafe, Waiting, Cell
<1>2. /\ Content \in Seq(Stored) /\ Len(Content) = Waiting
      /\ Content \in [1..Waiting -> Stored]
  BY ContentSeq
<1>3. Content # <<>> /\ Head(Content) = rx_buf[queue_out]
  BY <1>1, <1>2 DEF Content
<1>4. /\ Tail(Content) \in Seq(Stored) /\ Len(Tail(Content)) = Waiting - 1
      /\ \A i \in 1..(Waiting - 1) : Tail(Content)[i] = Content[i + 1]
  BY <1>1, <1>2, <1>3, HeadTailProperties
<1>5. Content' = [i \in 1..(Waiting - 1) |-> Content[i + 1]]
  BY <1>1 DEF Content
<1>6. Content' \in [1..(Waiting - 1) -> Stored]
  BY <1>1, <1>2, <1>5
<1>7. Content' \in Seq(Stored) /\ Len(Content') = Waiting - 1
  BY <1>1, <1>6, FunctionIsSeq
<1>8. \A i \in 1..(Waiting - 1) : Content'[i] = Tail(Content)[i]
  BY <1>4, <1>5
<1> QED BY <1>3, <1>4, <1>7, <1>8, SeqEqual

\* Steps that move no byte: the test of the loop, the wrap, the load.
LEMMA OthersKeep ==
  ASSUME RingInv, get_queue_total_data \/ Wrap \/ Load \/ LoadAfter
  PROVE  UNCHANGED <<Content, Handed, refused>>
<1> USE RingAssumption
<1>1. CASE get_queue_total_data
  BY <1>1 DEF get_queue_total_data, Content, Waiting, Cell, Handed
<1>2. CASE Wrap
  <2>1. /\ queue_out # queue_in /\ UNCHANGED <<rx_buf, queue_in, value, refused>>
        /\ pc = "call" /\ pc' = "read"
        /\ queue_out' = IF queue_out >= Size THEN 0 ELSE queue_out
    BY <1>2 DEF Wrap, RingInv, ReadIsSafe
  <2>2. Waiting' = Waiting /\ \A i \in 1..Waiting : Cell(i)' = Cell(i)
    BY <2>1 DEF RingInv, RingTypeOK, GapKept, StartsEmpty, Waiting, Cell
  <2> QED BY <2>1, <2>2 DEF Content, Handed
<1>3. CASE Load
  BY <1>3 DEF Load, Content, Waiting, Cell, Handed
<1>4. CASE LoadAfter
  BY <1>4 DEF LoadAfter, Content, Waiting, Cell, Handed
<1> QED BY <1>1, <1>2, <1>3, <1>4

\* Every step of the two threads stores, refuses or takes one byte of the queue, or
\* none.
LEMMA RingStepFifo ==
  ASSUME Limit < Size
  PROVE  RingInv /\ [RingNext]_ring => [Fifo!Next]_(Fifo!fifoVars)
<1> SUFFICES ASSUME RingInv, [RingNext]_ring PROVE [Fifo!Next]_(Fifo!fifoVars)
  OBVIOUS
<1> USE DEF Fifo!fifoVars
<1>1. ASSUME NEW b \in Bytes, receive_input(b) PROVE Fifo!Next
  <2>1. CASE ~Full
    <3>1. Content' = Append(Content, b) /\ refused' = FALSE
      BY <1>1, <2>1, StoreAppends DEF receive_input
    <3>2. UNCHANGED Handed
      <4>1. /\ rx_buf' = [rx_buf EXCEPT ![Slot] = b]
            /\ UNCHANGED <<queue_out, pc, value>>
        BY <1>1, <2>1 DEF receive_input
      <4>2. pc = "load" => queue_out - 1 \in 0..(Size - 1) /\ Slot # queue_out - 1
        BY <2>1, RingAssumption
           DEF RingInv, RingTypeOK, GapKept, ReadIsSafe, Slot, Full, Waiting
      <4> QED BY <4>1, <4>2 DEF Handed, RingInv, RingTypeOK
    <3> QED BY <3>1, <3>2 DEF Fifo!Next, Fifo!Store
  <2>2. CASE Full
    <3>1. Len(Content) >= Limit
      BY <2>2, ContentSeq, RingAssumption DEF RingInv, RingTypeOK, Full, Waiting
    <3>2. UNCHANGED <<Content, Handed>> /\ refused' = TRUE
      BY <1>1, <2>2 DEF receive_input, Content, Waiting, Cell, Handed
    <3> QED BY <3>1, <3>2 DEF Fifo!Next, Fifo!Refuse
  <2> QED BY <2>1, <2>2
<1>2. CASE Advance \/ AdvanceFirst
  <2>1. /\ Content # <<>> /\ Head(Content) = rx_buf[queue_out]
        /\ Content' = Tail(Content)
    BY <1>2, AdvanceTakes DEF Advance, AdvanceFirst
  <2>2. Handed' = rx_buf[queue_out] /\ UNCHANGED refused
    <3>1. CASE Advance
      BY <3>1 DEF Advance, Handed, RingInv, ReadIsSafe
    <3>2. CASE AdvanceFirst
      <4>1. queue_out' - 1 = queue_out /\ pc' = "load"
        BY <3>2, RingAssumption DEF AdvanceFirst, RingInv, RingTypeOK
      <4> QED BY <3>2, <4>1 DEF AdvanceFirst, Handed
    <3> QED BY <1>2, <3>1, <3>2
  <2> QED BY <2>1, <2>2 DEF Fifo!Next, Fifo!Take
<1>3. CASE get_queue_total_data \/ Wrap \/ Load \/ LoadAfter
  BY <1>3, OthersKeep
<1>4. CASE UNCHANGED ring
  BY <1>4 DEF ring, Content, Waiting, Cell, Handed
<1> QED BY <1>1, <1>2, <1>3, <1>4 DEF RingNext

\* The receive queue is a queue of bytes for every buffer size larger than the
\* limit: what Queue_Read_Byte returns is what the line delivered, in order and
\* once, and a byte is refused only when at least Limit bytes wait.
THEOREM RingImplementsFifo ==
  ASSUME Limit < Size
  PROVE  RingSpec => ImplementsFifo
<1>1. RingInit => Fifo!Init
  <2> SUFFICES ASSUME RingInit PROVE Fifo!Init
    OBVIOUS
  <2>1. Waiting = 0 /\ Handed = 0 /\ refused = FALSE
    BY DEF RingInit, Waiting, Handed
  <2>2. Content = <<>>
    BY <2>1 DEF Content
  <2> QED BY <2>1, <2>2 DEF Fifo!Init
<1> QED
  BY <1>1, RingStepFifo, RingSafe, PTL DEF RingSpec, ImplementsFifo, Fifo!Spec

-----------------------------------------------------------------------------
(* The update: the line.                                                    *)

\* The frames the module sends; blocks are numbered from 0.
Frame == [type : {"status", "progress", "begin", "block", "end"}, arg : Statuses \cup Nat]
FrameOK(f) ==
  /\ f \in Frame
  /\ f.type = "status" => f.arg \in Statuses
  /\ f.type = "block" => f.arg \in 0..(Blocks - 1)

LineType == line \in Seq(Frame) /\ \A i \in 1..Len(line) : FrameOK(line[i])

\* What a step does to the line: it is cleared, loses its first frame, or gets one.
LineStep ==
  \/ line' \in {line, << >>}
  \/ line # << >> /\ line' = Tail(line)
  \/ \E f \in Frame : FrameOK(f) /\ Len(line) < LineLen /\ line' = Append(line, f)

\* The tail of a line that is not empty.
LEMMA TailFrames ==
  ASSUME LineType, line # << >>
  PROVE  /\ Tail(line) \in Seq(Frame) /\ Len(Tail(line)) = Len(line) - 1
         /\ Len(line) \in Nat \ {0}
         /\ \A i \in 1..(Len(line) - 1) : Tail(line)[i] = line[i + 1]
         /\ Head(line) = line[1] /\ FrameOK(Head(line))
BY DEF LineType

\* A step of the line keeps its frames well formed.
LEMMA LineStepKeeps ==
  ASSUME LineType, LineStep
  PROVE  LineType'
<1>1. CASE line' = line
  BY <1>1 DEF LineType
<1>2. CASE line' = << >>
  BY <1>2 DEF LineType
<1>3. CASE line # << >> /\ line' = Tail(line)
  BY <1>3, TailFrames DEF LineType
<1>4. ASSUME NEW f \in Frame, FrameOK(f), line' = Append(line, f) PROVE LineType'
  BY <1>4 DEF LineType
<1> QED BY <1>1, <1>2, <1>3, <1>4 DEF LineStep

\* What the module sends is a frame.
LEMMA SendSteps ==
  ASSUME NEW type \in {"status", "progress", "begin", "block", "end"},
         NEW arg \in Statuses \cup Nat, Send(type, arg),
         type = "status" => arg \in Statuses,
         type = "block" => arg \in 0..(Blocks - 1)
  PROVE  LineStep
<1> DEFINE f == [type |-> type, arg |-> arg]
<1>1. f \in Frame /\ FrameOK(f)
  BY DEF Frame, FrameOK
<1>2. Len(line) < LineLen /\ line' = Append(line, f)
  BY DEF Send
<1> QED BY <1>1, <1>2 DEF LineStep

\* Every step of the device and the module is a step of the line.
LEMMA NextLine ==
  ASSUME acked \in Nat, [Next]_vars
  PROVE  LineStep
<1> USE OtaAssumption
<1>1. CASE UNCHANGED line
  BY <1>1 DEF LineStep
<1>2. UserMain31WinFun \/ K2_Sem_Release \/ lcd_task \/ OTA_Timeout_Timer_Callback
        \/ Connect \/ UNCHANGED vars => UNCHANGED line
  BY DEF UserMain31WinFun, K2_Sem_Release, lcd_task, PassEnter, PassCompare, PassDraw,
         PassSwitch, PassAct, OTA_Timeout_Timer_Callback, Connect, vars, peer
<1>3. CASE Handle
  BY <1>3 DEF Handle, update_control_parse, wifi_progress_update, wifi_ota_begin,
              wifi_ota_receive, wifi_ota_end, Got, Taken, LineStep
<1>4. CASE ModuleReport
  <2>1. \E s \in Statuses : Send("status", s)
    BY <1>4 DEF ModuleReport, Report, Statuses
  <2> QED BY <2>1, SendSteps
<1>5. CASE ModuleProgress
  BY <1>5, SendSteps DEF ModuleProgress
<1>6. CASE ModuleRestart
  BY <1>6 DEF ModuleRestart, LineStep
<1>7. CASE ModuleBegin
  BY <1>7, SendSteps DEF ModuleBegin
<1>8. CASE ModuleBlock
  BY <1>8, SendSteps DEF ModuleBlock
<1>9. CASE ModuleAgain \/ ModuleAck
  BY <1>1, <1>9 DEF ModuleAgain, ModuleAck
<1>10. CASE ModuleEnd
  BY <1>10, SendSteps DEF ModuleEnd
<1>11. CASE Lose
  BY <1>11 DEF Lose, Taken, LineStep
<1> QED BY <1>1, <1>2, <1>3, <1>4, <1>5, <1>6, <1>7, <1>8, <1>9, <1>10, <1>11
           DEF Next, Module

-----------------------------------------------------------------------------
(* The image.                                                               *)

ImageType ==
  /\ update_file_cur_size \in 0..Blocks /\ acked \in Nat /\ acks \in Nat
  /\ flash \in [0..(Blocks - 1) -> -1..Blocks]

\* What has been written is in its place, and what has not is erased: a place that
\* was written before would be spoiled.
Written == unerased \/ \A i \in 0..(update_file_cur_size - 1) : flash[i] = i
RestErased ==
  firm_update_flag =>
    unerased \/ \A i \in update_file_cur_size..(Blocks - 1) : flash[i] = Blank

ImageInv == ImageType /\ Written /\ RestErased

\* A block is written where the last one ended.
LEMMA WriteImage ==
  ASSUME ImageInv, NEW k \in 0..(Blocks - 1), update_file_cur_size = k, Write(k),
         firm_update_flag, UNCHANGED <<unerased, firm_update_flag>>
  PROVE  /\ update_file_cur_size' \in 0..Blocks
         /\ flash' \in [0..(Blocks - 1) -> -1..Blocks]
         /\ Written' /\ RestErased'
<1> USE OtaAssumption
<1>1. /\ update_file_cur_size' = k + 1
      /\ flash' = [flash EXCEPT ![k] = IF @ = Blank THEN k ELSE Spoiled]
  BY DEF Write
<1>2. flash' \in [0..(Blocks - 1) -> -1..Blocks]
  BY <1>1 DEF ImageInv, ImageType, Blank, Spoiled
<1>3. \A i \in 0..(Blocks - 1) : i # k => flash'[i] = flash[i]
  BY <1>1 DEF ImageInv, ImageType
<1>4. ~unerased => flash'[k] = k
  BY <1>1 DEF ImageInv, ImageType, RestErased
<1>5. Written'
  BY <1>1, <1>3, <1>4 DEF ImageInv, Written
<1>6. RestErased'
  BY <1>1, <1>3 DEF ImageInv, RestErased
<1> QED BY <1>1, <1>2, <1>5, <1>6

\* Every step keeps the image in order.
LEMMA NextImage ==
  ASSUME ImageInv, LineType, [Next]_vars
  PROVE  ImageInv'
<1> USE OtaAssumption
<1>1. CASE UNCHANGED <<firm_update_flag, update_file_cur_size, flash, unerased>>
           /\ acked' \in Nat /\ acks' \in Nat
  BY <1>1 DEF ImageInv, ImageType, Written, RestErased
<1>2. acked \in Nat /\ acks \in Nat
  BY DEF ImageInv, ImageType
<1>3. CASE wifi_ota_begin
  <2>1. update_file_cur_size' = 0 /\ UNCHANGED <<acked, acks>>
    BY <1>3 DEF wifi_ota_begin
  <2>2. CASE flash' = [i \in 0..(Blocks - 1) |-> Blank]
    BY <1>2, <2>1, <2>2 DEF ImageInv, ImageType, Written, RestErased, Blank
  <2>3. CASE unerased' = TRUE /\ UNCHANGED flash
    <3>1. unerased'
      BY <2>3, Zenon
    <3> QED BY <1>2, <2>1, <2>3, <3>1 DEF ImageInv, ImageType, Written, RestErased
  <2> QED BY <1>3, <2>2, <2>3 DEF wifi_ota_begin
<1>4. CASE wifi_ota_receive
  <2>1. UNCHANGED <<firm_update_flag, unerased, acked>> /\ acks' \in Nat
    BY <1>2, <1>4 DEF wifi_ota_receive, Answer
  <2>2. CASE firm_update_flag /\ Accepted(Head(line).arg) /\ Write(Head(line).arg)
    <3>1. Head(line).arg \in 0..(Blocks - 1)
      BY <1>4, TailFrames DEF wifi_ota_receive, Got, FrameOK
    <3> QED BY <1>2, <2>1, <2>2, <3>1, WriteImage DEF Accepted, ImageInv, ImageType
  <2>3. CASE UNCHANGED <<flash, update_file_cur_size>>
    BY <1>1, <1>2, <2>1, <2>3
  <2> QED BY <1>4, <2>2, <2>3 DEF wifi_ota_receive
<1>5. CASE wifi_ota_end
  <2>1. CASE firm_update_flag
    <3>1. /\ update_file_cur_size' = 0 /\ acks' = 0
          /\ UNCHANGED <<flash, unerased, acked>>
      BY <1>5, <2>1 DEF wifi_ota_end
    <3>2. ~firm_update_flag'
      BY <1>5, <2>1, Zenon DEF wifi_ota_end
    <3> QED BY <1>2, <3>1, <3>2 DEF ImageInv, ImageType, Written, RestErased
  <2>2. CASE ~firm_update_flag
    BY <1>1, <1>2, <1>5, <2>2 DEF wifi_ota_end, update
  <2> QED BY <2>1, <2>2
<1>6. CASE UserMain31WinFun \/ K2_Sem_Release \/ OTA_Timeout_Timer_Callback \/ Connect
           \/ UNCHANGED vars
  BY <1>1, <1>2, <1>6 DEF UserMain31WinFun, K2_Sem_Release, OTA_Timeout_Timer_Callback,
                          Connect, vars, update, peer
<1>7. CASE lcd_task
  BY <1>1, <1>2, <1>7 DEF lcd_task, PassEnter, PassCompare, PassDraw, PassSwitch, PassAct,
                          update, peer
<1>8. CASE update_control_parse \/ wifi_progress_update
  BY <1>1, <1>2, <1>8 DEF update_control_parse, wifi_progress_update, update
<1>9. CASE Module \/ Lose
  <2>1. UNCHANGED update
    BY <1>9 DEF Module, ModuleReport, Report, ModuleProgress, ModuleRestart, ModuleBegin,
                ModuleBlock, ModuleAgain, ModuleAck, ModuleEnd, Lose
  <2>2. acked' \in {0, acked, acked + 1}
    BY <1>9 DEF Module, ModuleReport, Report, ModuleProgress, ModuleRestart, ModuleBegin,
                ModuleBlock, ModuleAgain, ModuleAck, ModuleEnd, Lose
  <2>3. acks' \in {0, acks} \/ (acks > 0 /\ acks' = acks - 1)
    BY <1>9 DEF Module, ModuleReport, Report, ModuleProgress, ModuleRestart, ModuleBegin,
                ModuleBlock, ModuleAgain, ModuleAck, ModuleEnd, Lose
  <2> QED BY <1>1, <1>2, <2>1, <2>2, <2>3 DEF update
<1> QED BY <1>3, <1>4, <1>5, <1>6, <1>7, <1>8, <1>9 DEF Next, Handle

-----------------------------------------------------------------------------
(* Types.                                                                   *)

Told == Statuses \cup {"none"}

StatusType ==
  /\ ota_status \in Told /\ now_status \in Told
  /\ pass \in [at : {"start", "compare", "draw", "switch", "act"}, read : Told]

\* The flags of the window and of the update.
ViewFlags ==
  /\ window \in BOOLEAN /\ pending \in BOOLEAN /\ timer \in BOOLEAN /\ late \in BOOLEAN
UpdateFlags ==
  /\ connected \in BOOLEAN /\ wifi_ota_update_flag \in BOOLEAN
  /\ firm_update_flag \in BOOLEAN /\ unerased \in BOOLEAN /\ short \in BOOLEAN

\* Every step keeps the statuses among the ones there are.
LEMMA NextStatus ==
  ASSUME StatusType, LineType, [Next]_vars
  PROVE  StatusType'
<1> USE DEF StatusType, Told
<1>1. CASE UNCHANGED <<ota_status, now_status, pass>>
  BY <1>1
<1>2. CASE UserMain31WinFun
  BY <1>2 DEF UserMain31WinFun, Statuses
<1>3. CASE lcd_task
  <2>1. ota_status' \in {ota_status, "Network_Fail"}
    BY <1>3 DEF lcd_task, PassEnter, PassCompare, PassDraw, PassSwitch, PassAct, Search,
                ShowDownload, ShowWaiting, AskDevice, StopTimer, state
  <2>2. now_status' \in {now_status, ota_status}
    BY <1>3 DEF lcd_task, PassEnter, PassCompare, PassDraw, PassSwitch, PassAct
  <2>3. pass' \in [at : {"start", "compare", "draw", "switch", "act"},
                   read : {"none", ota_status}]
    BY <1>3 DEF lcd_task, PassEnter, PassCompare, PassDraw, PassSwitch, PassAct, Start
  <2> QED BY <2>1, <2>2, <2>3 DEF Statuses
<1>4. CASE OTA_Timeout_Timer_Callback
  BY <1>4 DEF OTA_Timeout_Timer_Callback, view, Statuses
<1>5. CASE update_control_parse
  <2>1. ota_status' \in Statuses
    BY <1>5, TailFrames DEF update_control_parse, Got, FrameOK
  <2> QED BY <1>5, <2>1 DEF update_control_parse, view
<1>6. CASE wifi_ota_end
  BY <1>6 DEF wifi_ota_end, view, state, Start
<1>7. CASE K2_Sem_Release \/ wifi_progress_update \/ wifi_ota_begin \/ wifi_ota_receive
           \/ Connect \/ UNCHANGED vars
  BY <1>1, <1>7 DEF K2_Sem_Release, wifi_progress_update, wifi_ota_begin, Connect,
                    wifi_ota_receive, vars, view, state
<1>8. CASE Module \/ Lose
  BY <1>1, <1>8 DEF Module, ModuleReport, Report, ModuleProgress, ModuleRestart,
                    ModuleBegin, ModuleBlock, ModuleAgain, ModuleAck, ModuleEnd, Lose,
                    view, state
<1> QED BY <1>2, <1>3, <1>4, <1>5, <1>6, <1>7, <1>8 DEF Next, Handle

\* Every step keeps the flags of the window.
LEMMA NextViewFlags ==
  ASSUME ViewFlags, [Next]_vars
  PROVE  ViewFlags'
<1> USE DEF ViewFlags
<1>1. CASE UNCHANGED <<window, pending, timer, late>>
  BY <1>1, Zenon
<1>2. CASE UserMain31WinFun
  BY <1>2, Zenon DEF UserMain31WinFun
<1>3. CASE K2_Sem_Release
  BY <1>3, Zenon DEF K2_Sem_Release, state
<1>4. CASE PassEnter
  <2>1. timer' \in BOOLEAN
    BY <1>4, Zenon DEF PassEnter
  <2> QED BY <1>4, <2>1, Zenon DEF PassEnter
<1>5. CASE PassAct
  <2>1. timer' \in BOOLEAN
    BY <1>5, Zenon DEF PassAct, Search, ShowDownload, ShowWaiting, AskDevice, StopTimer,
                       wifi_ota_request
  <2>2. late' \in BOOLEAN
    BY <1>5, Zenon DEF PassAct, Search, ShowDownload, ShowWaiting, AskDevice, StopTimer
  <2> QED BY <1>5, <2>1, <2>2, Zenon DEF PassAct
<1>6. CASE update_control_parse
  BY <1>6, Zenon DEF update_control_parse, view
<1>7. CASE wifi_ota_end
  <2>1. CASE firm_update_flag
    BY <1>7, <2>1, Zenon DEF wifi_ota_end
  <2>2. CASE ~firm_update_flag
    BY <1>1, <1>7, <2>2 DEF wifi_ota_end, view, state
  <2> QED BY <2>1, <2>2
<1>8. CASE Connect
  <2>1. timer' \in BOOLEAN
    BY <1>8, Zenon DEF Connect, wifi_ota_request
  <2> QED BY <1>8, <2>1, Zenon DEF Connect, view
<1>9. CASE PassCompare \/ PassDraw \/ PassSwitch \/ OTA_Timeout_Timer_Callback
           \/ wifi_progress_update \/ wifi_ota_begin \/ wifi_ota_receive \/ UNCHANGED vars
  BY <1>1, <1>9 DEF PassCompare, PassDraw, PassSwitch, OTA_Timeout_Timer_Callback,
                    wifi_progress_update, wifi_ota_begin, wifi_ota_receive, vars, view,
                    state
<1>10. CASE Module \/ Lose
  BY <1>1, <1>10 DEF Module, ModuleReport, Report, ModuleProgress, ModuleRestart,
                     ModuleBegin, ModuleBlock, ModuleAgain, ModuleAck, ModuleEnd, Lose,
                     view, state
<1> QED BY <1>2, <1>3, <1>4, <1>5, <1>6, <1>7, <1>8, <1>9, <1>10
           DEF Next, Handle, lcd_task

\* And those of the update.
LEMMA NextUpdateFlags ==
  ASSUME UpdateFlags, [Next]_vars
  PROVE  UpdateFlags'
<1> USE DEF UpdateFlags
<1>1. CASE UNCHANGED <<connected, wifi_ota_update_flag, firm_update_flag, unerased, short>>
  BY <1>1, Zenon
<1>2. CASE PassAct
  <2>1. wifi_ota_update_flag' \in BOOLEAN
    BY <1>2, Zenon DEF PassAct, Search, ShowDownload, ShowWaiting, AskDevice, StopTimer
  <2> QED BY <1>2, <2>1, Zenon DEF PassAct
<1>3. CASE wifi_ota_begin
  <2>1. unerased' \in BOOLEAN
    BY <1>3, Zenon DEF wifi_ota_begin
  <2> QED BY <1>3, <2>1, Zenon DEF wifi_ota_begin, radio
<1>4. CASE wifi_ota_end
  <2>1. CASE firm_update_flag
    BY <1>4, <2>1, Zenon DEF wifi_ota_end
  <2>2. CASE ~firm_update_flag
    BY <1>1, <1>4, <2>2 DEF wifi_ota_end, update, radio
  <2> QED BY <2>1, <2>2
<1>5. CASE Connect
  BY <1>5, Zenon DEF Connect, update
<1>6. CASE ModuleRestart
  BY <1>6, Zenon DEF ModuleRestart, update
<1>7. CASE UserMain31WinFun \/ K2_Sem_Release \/ PassEnter \/ PassCompare \/ PassDraw
           \/ PassSwitch \/ OTA_Timeout_Timer_Callback
  BY <1>1, <1>7 DEF UserMain31WinFun, K2_Sem_Release, PassEnter, PassCompare, PassDraw,
                    PassSwitch, OTA_Timeout_Timer_Callback, update, radio
<1>8. CASE update_control_parse \/ wifi_progress_update \/ wifi_ota_receive
           \/ UNCHANGED vars
  BY <1>1, <1>8 DEF update_control_parse, wifi_progress_update, wifi_ota_receive, vars,
                    update, radio
<1>9. CASE (Module /\ ~ModuleRestart) \/ Lose
  BY <1>1, <1>9 DEF Module, ModuleReport, Report, ModuleProgress, ModuleBegin, ModuleBlock,
                    ModuleAgain, ModuleAck, ModuleEnd, Lose, update, radio
<1> QED BY <1>2, <1>3, <1>4, <1>5, <1>6, <1>7, <1>8, <1>9 DEF Next, Handle, lcd_task

-----------------------------------------------------------------------------
(* The theorems about the image.                                            *)

OtaInv == LineType /\ ImageInv /\ StatusType /\ ViewFlags /\ UpdateFlags

\* The invariant behind the two theorems below, for every image, every number of
\* frames under way and every number of faults.
THEOREM OtaSafe == Spec => []OtaInv
<1>1. Init => OtaInv
  <2> SUFFICES ASSUME Init PROVE OtaInv
    OBVIOUS
  <2>1. ViewFlags /\ UpdateFlags
    BY Zenon DEF Init, ViewFlags, UpdateFlags
  <2>2. LineType /\ StatusType
    BY DEF Init, LineType, StatusType, Told, Start
  <2>3. ImageInv
    <3>1. ~firm_update_flag
      BY Zenon DEF Init
    <3> QED BY <3>1, OtaAssumption DEF Init, ImageInv, ImageType, Written, RestErased, Blank
  <2> QED BY <2>1, <2>2, <2>3 DEF OtaInv
<1>2. OtaInv /\ [Next]_vars => OtaInv'
  <2> SUFFICES ASSUME OtaInv, [Next]_vars PROVE OtaInv'
    OBVIOUS
  <2>1. acked \in Nat
    BY DEF OtaInv, ImageInv, ImageType
  <2> QED BY <2>1, NextLine, LineStepKeeps, NextImage, NextStatus, NextViewFlags,
             NextUpdateFlags DEF OtaInv
<1> QED BY <1>1, <1>2, PTL DEF Spec

\* wifi_ota_receive writes every block at its place and only there, whatever is lost,
\* repeated or left over from an earlier download, unless the erasing has failed.
THEOREM ImageIsIntact == Spec => []ImageIntact
<1>1. OtaInv => ImageIntact
  <2> SUFFICES ASSUME OtaInv PROVE ImageIntact
    OBVIOUS
  <2>1. {window, pending, timer, connected, wifi_ota_update_flag, firm_update_flag, late,
         unerased, short} \subseteq BOOLEAN
    BY Zenon DEF OtaInv, ViewFlags, UpdateFlags
  <2>2. /\ {ota_status, now_status, pass.read} \subseteq Statuses \cup {"none"}
        /\ pass.at \in {"start", "compare", "draw", "switch", "act"}
    BY DEF OtaInv, StatusType, Told
  <2>3. TypeOK
    BY <2>1, <2>2, Zenon DEF OtaInv, ImageInv, ImageType, TypeOK
  <2>4. Written
    BY DEF OtaInv, ImageInv
  <2> QED BY <2>3, <2>4, Zenon DEF ImageIntact, Written
<1> QED BY <1>1, OtaSafe, PTL

-----------------------------------------------------------------------------
(* The end of a download.                                                   *)

Receiving == module \in {"blocks", "await"}
In(type) == \E i \in 1..Len(line) : line[i].type = type

\* The module counts no acknowledgement of a block the device does not have.
NotAhead == Receiving => acked + acks <= update_file_cur_size

\* A download begins with nothing acknowledged, and what is still under way from
\* before it are reports: no old block will be acknowledged in the new download.
NewCount ==
  /\ module = "begin" => acked = 0
  /\ Receiving /\ In("begin") => acked + acks = 0
StatusFirst ==
  /\ module = "begin" /\ line # << >> => line[Len(line)].type = "status"
  /\ \A j \in 1..Len(line) : line[j].type = "begin" =>
       \A i \in 1..(j - 1) : line[i].type = "status"

\* When the end is under way, everything has been written.
EndComplete == In("end") => update_file_cur_size = Blocks /\ ~In("begin")

EndInv == NotAhead /\ NewCount /\ StatusFirst /\ EndComplete /\ ~short

\* The line, when its first frame is taken: what is left was there before.
LEMMA TakenLine ==
  ASSUME LineType, line # << >>, line' = Tail(line)
  PROVE  /\ Len(line') = Len(line) - 1 /\ Len(line) \in Nat \ {0}
         /\ \A i \in 1..Len(line') : line'[i] = line[i + 1]
         /\ \A i \in 1..Len(line') : i + 1 \in 1..Len(line)
         /\ (line' # << >> => line'[Len(line')] = line[Len(line)])
BY TailFrames

\* And when one is added.
LEMMA SentLine ==
  ASSUME LineType, NEW type, NEW arg, Send(type, arg)
  PROVE  /\ Len(line') = Len(line) + 1 /\ Len(line) \in Nat /\ Len(line) < LineLen
         /\ \A i \in 1..Len(line) : line'[i] = line[i]
         /\ line'[Len(line) + 1].type = type
         /\ line' # << >>
<1> DEFINE f == [type |-> type, arg |-> arg]
<1>1. line' = Append(line, f) /\ Len(line) < LineLen
  BY DEF Send
<1>2. line \in Seq(Frame) /\ Len(line) \in Nat
  BY DEF LineType
<1>3. Len(line') = Len(line) + 1 /\ line'[Len(line) + 1] = f
      /\ \A i \in 1..Len(line) : line'[i] = line[i]
  BY <1>1, <1>2
<1> QED BY <1>1, <1>2, <1>3

\* Frames that are taken or lost leave the line in order.
LEMMA TakenOrder ==
  ASSUME LineType, line # << >>, line' = Tail(line), StatusFirst,
         module' = module
  PROVE  /\ StatusFirst'
         /\ (In("begin")' => In("begin")) /\ (In("end")' => In("end"))
<1>1. /\ Len(line') = Len(line) - 1 /\ Len(line) \in Nat \ {0}
      /\ \A i \in 1..Len(line') : line'[i] = line[i + 1]
      /\ (line' # << >> => line'[Len(line')] = line[Len(line)])
  BY TakenLine
<1>2. StatusFirst'
  BY <1>1 DEF StatusFirst
<1>3. (In("begin")' => In("begin")) /\ (In("end")' => In("end"))
  BY <1>1 DEF In
<1> QED BY <1>2, <1>3

\* So does a frame that is sent, if it is not the beginning of a download.
LEMMA SentOrder ==
  ASSUME LineType, StatusFirst,
         NEW type \in {"status", "progress", "block", "end"}, NEW arg, Send(type, arg),
         module' # "begin" \/ type = "status"
  PROVE  /\ StatusFirst'
         /\ (In("begin")' => In("begin")) /\ (In("end")' => In("end") \/ type = "end")
<1>1. /\ Len(line') = Len(line) + 1 /\ Len(line) \in Nat
      /\ \A i \in 1..Len(line) : line'[i] = line[i]
      /\ line'[Len(line) + 1].type = type
  BY SentLine
<1>2. StatusFirst'
  <2>1. ASSUME NEW j \in 1..Len(line'), line'[j].type = "begin", NEW i \in 1..(j - 1)
        PROVE  line'[i].type = "status"
    <3>1. j \in 1..Len(line) /\ i \in 1..Len(line)
      BY <1>1, <2>1
    <3> QED BY <1>1, <2>1, <3>1 DEF StatusFirst
  <2>2. module' = "begin" /\ line' # << >> => line'[Len(line')].type = "status"
    BY <1>1
  <2> QED BY <2>1, <2>2 DEF StatusFirst
<1>3. In("begin")' => In("begin")
  BY <1>1 DEF In
<1>4. In("end")' => In("end") \/ type = "end"
  BY <1>1 DEF In
<1> QED BY <1>2, <1>3, <1>4

\* A step that touches neither the line nor the counts may ask the module again.
LEMMA QuietEnd ==
  ASSUME EndInv, UNCHANGED <<line, acked, acks, update_file_cur_size, short>>,
         module' \in {module, "asked1", "asked2"}
  PROVE  EndInv'
BY DEF EndInv, NotAhead, NewCount, StatusFirst, EndComplete, Receiving, In

\* What the device does with a frame.
LEMMA HandleEnd ==
  ASSUME OtaInv, EndInv, Handle
  PROVE  EndInv'
<1> USE OtaAssumption
<1>1. /\ line # << >> /\ LineType /\ StatusFirst
      /\ Len(line) \in Nat \ {0} /\ Head(line) = line[1] /\ FrameOK(Head(line))
  BY TailFrames
     DEF Handle, update_control_parse, wifi_progress_update, wifi_ota_begin,
         wifi_ota_receive, wifi_ota_end, Got, OtaInv, EndInv
<1>2. /\ update_file_cur_size \in 0..Blocks /\ acked \in Nat /\ acks \in Nat
  BY DEF OtaInv, ImageInv, ImageType
<1>3. CASE Taken /\ UNCHANGED <<module, acked, acks, update_file_cur_size, short>>
  BY <1>1, <1>3, TakenOrder
     DEF Taken, EndInv, NotAhead, NewCount, EndComplete, Receiving
<1>4. CASE wifi_ota_begin
  <2>1. /\ line[1].type = "begin" /\ line' = Tail(line) /\ update_file_cur_size' = 0
        /\ UNCHANGED <<module, acked, acks, short>>
    BY <1>1, <1>4 DEF wifi_ota_begin, Got, Taken
  <2>2. In("begin")
    BY <1>1, <2>1 DEF In
  <2>3. /\ StatusFirst'
        /\ (In("begin")' => In("begin")) /\ (In("end")' => In("end"))
    BY <1>1, <2>1, TakenOrder
  <2> QED BY <1>2, <2>1, <2>2, <2>3
          DEF EndInv, NotAhead, NewCount, EndComplete, Receiving
<1>5. CASE wifi_ota_receive
  <2>1. /\ line[1].type = "block" /\ line' = Tail(line)
        /\ UNCHANGED <<module, acked, short>>
    BY <1>1, <1>5 DEF wifi_ota_receive, Got, Taken
  <2>2. \/ UNCHANGED <<acks, update_file_cur_size>>
        \/ /\ update_file_cur_size \in 0..(Blocks - 1)
           /\ acks' = acks + 1 /\ update_file_cur_size' = update_file_cur_size + 1
    BY <1>1, <1>5, <2>1 DEF wifi_ota_receive, Accepted, Write, Answer, FrameOK
  <2>3. ~In("begin")
    BY <1>1, <2>1 DEF StatusFirst, In
  <2>4. /\ StatusFirst'
        /\ (In("begin")' => In("begin")) /\ (In("end")' => In("end"))
    BY <1>1, <2>1, TakenOrder
  <2> QED BY <1>2, <2>1, <2>2, <2>3, <2>4
          DEF EndInv, NotAhead, NewCount, EndComplete, Receiving
<1>6. CASE wifi_ota_end /\ firm_update_flag
  <2>1. line[1].type = "end"
    BY <1>1, <1>6 DEF wifi_ota_end, Got
  <2>2. update_file_cur_size = Blocks
    BY <1>1, <2>1 DEF EndInv, EndComplete, In
  <2>3. (short' <=> short \/ update_file_cur_size # Blocks) /\ line' = << >>
        /\ module' = "idle"
    BY <1>6, Zenon DEF wifi_ota_end
  <2> QED BY <2>2, <2>3
          DEF EndInv, NotAhead, NewCount, StatusFirst, EndComplete, Receiving, In
<1> QED BY <1>3, <1>4, <1>5, <1>6
        DEF Handle, update_control_parse, wifi_progress_update, wifi_ota_end, update

\* What the module does, if at most two frames are under way.
LEMMA ModuleEndKept ==
  ASSUME LineLen <= 2, OtaInv, EndInv, Module \/ Lose
  PROVE  EndInv'
<1> USE OtaAssumption
<1>1. LineType /\ StatusFirst /\ update_file_cur_size \in 0..Blocks
      /\ acked \in Nat /\ acks \in Nat
  BY DEF OtaInv, EndInv, ImageInv, ImageType
<1>2. UNCHANGED <<update_file_cur_size, short>>
  BY DEF Module, ModuleReport, Report, ModuleProgress, ModuleRestart, ModuleBegin,
         ModuleBlock, ModuleAgain, ModuleAck, ModuleEnd, Lose, update
<1> USE DEF EndInv, NotAhead, NewCount, EndComplete, Receiving
<1>3. CASE ModuleReport
  <2>1. PICK s \in Statuses, next \in {"self", "idle", "restart", "begin"} :
          /\ Send("status", s) /\ module' = next
          /\ acked' = IF next = "begin" THEN 0 ELSE acked
    BY <1>3 DEF ModuleReport, Report, Statuses
  <2>2. /\ StatusFirst'
        /\ (In("begin")' => In("begin")) /\ (In("end")' => In("end"))
    BY <1>1, <2>1, SentOrder
  <2> QED BY <1>2, <2>1, <2>2
<1>4. CASE ModuleProgress \/ ModuleBlock
  <2>1. \E type \in {"progress", "block"}, arg \in Nat : Send(type, arg)
    BY <1>1, <1>4 DEF ModuleProgress, ModuleBlock
  <2>2. module' # "begin" /\ (Receiving' => Receiving) /\ UNCHANGED <<acked, acks>>
    BY <1>4 DEF ModuleProgress, ModuleBlock
  <2>3. /\ StatusFirst'
        /\ (In("begin")' => In("begin")) /\ (In("end")' => In("end"))
    BY <1>1, <2>1, <2>2, SentOrder
  <2> QED BY <1>2, <2>2, <2>3
<1>5. CASE ModuleRestart
  BY <1>2, <1>5 DEF ModuleRestart, StatusFirst, In
<1>6. CASE ModuleBegin
  <2>1. Send("begin", 0) /\ module = "begin" /\ module' = "blocks" /\ acks' = 0
        /\ acked' = 0
    BY <1>6 DEF ModuleBegin
  <2>2. /\ Len(line') = Len(line) + 1 /\ Len(line) \in Nat /\ Len(line) < LineLen
        /\ \A i \in 1..Len(line) : line'[i] = line[i]
        /\ line'[Len(line) + 1].type = "begin"
    BY <1>1, <2>1, SentLine
  <2>3. \A i \in 1..Len(line) : line[i].type = "status"
    BY <1>1, <2>1, <2>2 DEF StatusFirst
  <2>4. \A i \in 1..Len(line) : line'[i].type = "status"
    BY <2>2, <2>3
  <2>5. StatusFirst' /\ ~In("end")'
    BY <2>1, <2>2, <2>4 DEF StatusFirst, In
  <2> QED BY <1>1, <1>2, <2>1, <2>5
<1>7. CASE ModuleAgain \/ ModuleAck
  <2>1. /\ Receiving /\ Receiving' /\ module' # "begin" /\ UNCHANGED line
        /\ acked' \in Nat /\ acks' \in Nat /\ acked' + acks' = acked + acks
    BY <1>1, <1>7 DEF ModuleAgain, ModuleAck
  <2>2. StatusFirst'
    BY <1>1, <2>1 DEF StatusFirst
  <2>3. In("begin")' = In("begin") /\ In("end")' = In("end")
    BY <2>1 DEF In
  <2> QED BY <1>1, <1>2, <2>1, <2>2, <2>3
<1>8. CASE ModuleEnd
  <2>1. Send("end", 0) /\ module' = "end" /\ Receiving /\ acked = Blocks
        /\ UNCHANGED <<acked, acks>>
    BY <1>8 DEF ModuleEnd
  <2>2. update_file_cur_size = Blocks /\ ~In("begin")
    BY <1>1, <2>1
  <2>3. StatusFirst' /\ (In("begin")' => In("begin"))
    BY <1>1, <2>1, SentOrder
  <2> QED BY <1>2, <2>1, <2>2, <2>3
<1>9. CASE Lose
  <2>1. UNCHANGED <<module, acked>>
    BY <1>9 DEF Lose
  <2>2. CASE line # << >> /\ Taken /\ UNCHANGED acks
    BY <1>1, <1>2, <2>1, <2>2, TakenOrder DEF Taken
  <2>3. CASE acks > 0 /\ acks' = acks - 1 /\ UNCHANGED line
    BY <1>1, <1>2, <2>1, <2>3 DEF StatusFirst, In
  <2> QED BY <1>9, <2>2, <2>3 DEF Lose
<1> QED BY <1>3, <1>4, <1>5, <1>6, <1>7, <1>8, <1>9 DEF Module

\* The device never starts an image of which a part is missing, for every image and
\* any number of faults, if at most two frames are under way: then no block of an
\* earlier download waits when the next one begins.  (An acknowledgement does not say
\* which block it is for, and with three frames an old one can be taken for a new
\* one.)
THEOREM ImageIsComplete ==
  ASSUME LineLen <= 2
  PROVE  Spec => []NeverShort
<1>1. Init => EndInv
  <2> SUFFICES ASSUME Init PROVE EndInv
    OBVIOUS
  <2>1. ~short
    BY Zenon DEF Init
  <2> QED BY <2>1
          DEF Init, EndInv, NotAhead, NewCount, StatusFirst, EndComplete, Receiving, In
<1>2. OtaInv /\ EndInv /\ [Next]_vars => EndInv'
  <2> SUFFICES ASSUME OtaInv, EndInv, [Next]_vars PROVE EndInv'
    OBVIOUS
  <2>1. CASE Handle
    BY <2>1, HandleEnd
  <2>2. CASE Module \/ Lose
    BY <2>2, ModuleEndKept
  <2>3. CASE lcd_task
    <3>1. module' \in {module, "asked1", "asked2"}
      BY <2>3 DEF lcd_task, PassEnter, PassCompare, PassDraw, PassSwitch, PassAct, peer,
                  Search, ShowDownload, ShowWaiting, AskDevice, StopTimer, wifi_ota_request
    <3>2. UNCHANGED <<line, acked, acks, update_file_cur_size, short>>
      BY <2>3 DEF lcd_task, PassEnter, PassCompare, PassDraw, PassSwitch, PassAct, peer,
                  update
    <3> QED BY <3>1, <3>2, QuietEnd
  <2>4. CASE Connect
    BY <2>4, QuietEnd DEF Connect, wifi_ota_request, update
  <2>5. CASE UserMain31WinFun \/ K2_Sem_Release \/ OTA_Timeout_Timer_Callback
             \/ UNCHANGED vars
    BY <2>5, QuietEnd DEF UserMain31WinFun, K2_Sem_Release, OTA_Timeout_Timer_Callback,
                          vars, update, peer
  <2> QED BY <2>1, <2>2, <2>3, <2>4, <2>5 DEF Next
<1>3. EndInv => NeverShort
  BY DEF EndInv, NeverShort
<1> QED BY <1>1, <1>2, <1>3, OtaSafe, PTL DEF Spec

-----------------------------------------------------------------------------
(* The way out of the update window.                                        *)

\* A status that blocks Return has the timer behind it.
BlockedTimed == ota_status \in Blocked /\ ~late => timer

\* The window can be left, or the timer or the next pass will change what it shows.
BlockedHasWayOut ==
  window /\ now_status \in Blocked /\ ~late => timer \/ ota_status # now_status

\* Every step keeps the timer behind such a status.
LEMMA NextBlocked ==
  ASSUME BlockedTimed, [Next]_vars
  PROVE  BlockedTimed'
<1>1. CASE ota_status' = ota_status /\ (timer => timer') /\ UNCHANGED late
  BY <1>1 DEF BlockedTimed
<1>2. CASE ota_status' \notin Blocked
  BY <1>2 DEF BlockedTimed
<1>3. CASE UserMain31WinFun
  BY <1>2, <1>3 DEF UserMain31WinFun, Blocked
<1>4. CASE PassEnter
  <2>1. timer => timer'
    BY <1>4, Zenon DEF PassEnter
  <2> QED BY <1>1, <1>4, <2>1 DEF PassEnter
<1>5. CASE PassAct
  <2>1. CASE Search \/ ShowDownload \/ ShowWaiting \/ AskDevice
    <3>1. UNCHANGED late
      BY <2>1 DEF Search, ShowDownload, ShowWaiting, AskDevice
    <3>2. timer => timer'
      BY <2>1, Zenon DEF Search, ShowDownload, ShowWaiting, AskDevice, wifi_ota_request
    <3>3. ota_status' \in {ota_status, "Network_Fail"}
      BY <2>1 DEF Search, ShowDownload, ShowWaiting, AskDevice
    <3>4. "Network_Fail" \notin Blocked
      BY DEF Blocked
    <3> QED BY <1>1, <1>2, <3>1, <3>2, <3>3, <3>4
  <2>2. CASE StopTimer
    <3>1. pass.read \notin Blocked /\ UNCHANGED ota_status
      BY <2>2 DEF StopTimer, Final, Blocked
    <3>2. ota_status \in Blocked => late'
      BY <2>2, <3>1, Zenon DEF StopTimer
    <3> QED BY <3>1, <3>2 DEF BlockedTimed
  <2> QED BY <1>5, <2>1, <2>2 DEF PassAct
<1>6. CASE OTA_Timeout_Timer_Callback
  BY <1>2, <1>6 DEF OTA_Timeout_Timer_Callback, Blocked
<1>7. CASE update_control_parse
  <2>1. UNCHANGED timer /\ (ota_status' \in Blocked /\ ~timer => late')
    BY <1>7, Zenon DEF update_control_parse
  <2> QED BY <2>1 DEF BlockedTimed
<1>8. CASE wifi_ota_end
  <2>1. CASE firm_update_flag
    BY <1>2, <1>8, <2>1 DEF wifi_ota_end, Blocked
  <2>2. CASE ~firm_update_flag
    BY <1>1, <1>8, <2>2 DEF wifi_ota_end, state
  <2> QED BY <2>1, <2>2
<1>9. CASE Connect
  <2>1. timer => timer'
    BY <1>9, Zenon DEF Connect, wifi_ota_request
  <2> QED BY <1>1, <1>9, <2>1 DEF Connect
<1>10. CASE K2_Sem_Release \/ PassCompare \/ PassDraw \/ PassSwitch \/ wifi_progress_update
            \/ wifi_ota_begin \/ wifi_ota_receive \/ UNCHANGED vars
  <2>1. UNCHANGED <<ota_status, timer, late>>
    BY <1>10 DEF K2_Sem_Release, PassCompare, PassDraw, PassSwitch, wifi_progress_update,
                 wifi_ota_begin, wifi_ota_receive, vars, state
  <2> QED BY <1>1, <2>1
<1>11. CASE Module \/ Lose
  BY <1>1, <1>11 DEF Module, ModuleReport, Report, ModuleProgress, ModuleRestart,
                     ModuleBegin, ModuleBlock, ModuleAgain, ModuleAck, ModuleEnd, Lose, state
<1> QED BY <1>3, <1>4, <1>5, <1>6, <1>7, <1>8, <1>9, <1>10, <1>11
           DEF Next, Handle, lcd_task

\* A window that shows a status in which Return does nothing shows an old one, which
\* its next pass replaces, or OTA_Timeout_Timer runs, which will end it: the timer is
\* stopped only by a status the window can be left in, and a status that comes while
\* it is being stopped is the exception the code has.  It is the part of BlockedEnds
\* that does not depend on fairness, whatever the module sends, loses or repeats.
THEOREM BlockedIsTimed == Spec => []BlockedHasWayOut
<1>1. Init => BlockedTimed
  BY DEF Init, BlockedTimed, Blocked
<1>2. BlockedTimed /\ [Next]_vars => BlockedTimed'
  BY NextBlocked
<1>3. BlockedTimed => BlockedHasWayOut
  BY DEF BlockedTimed, BlockedHasWayOut
<1> QED BY <1>1, <1>2, <1>3, PTL DEF Spec

-----------------------------------------------------------------------------
(* The parser of the frames.                                                *)

\* Induction from the end of a buffer to its start.
LEMMA Downward ==
  ASSUME NEW n \in Nat, NEW S,
         \A o \in 0..n : (\A p \in (o + 1)..n : p \in S) => o \in S
  PROVE  \A o \in 0..n : o \in S
<1> DEFINE Bad == {k \in Nat : k <= n /\ n - k \notin S}
<1>1. Bad = {}
  <2> SUFFICES ASSUME Bad # {} PROVE FALSE
    OBVIOUS
  <2>1. PICK k \in Bad : \A j \in Bad : <<j, k>> \notin OpToRel(<, Nat)
    <3>1. Bad \subseteq Nat
      OBVIOUS
    <3> HIDE DEF Bad
    <3> QED BY <3>1, WFMin, NatLessThanWellFounded
  <2>0. k \in Nat /\ k <= n /\ n - k \notin S
    BY <2>1
  <2>2. \A j \in Bad : ~(j < k)
    BY <2>1 DEF OpToRel
  <2>3. \A p \in (n - k + 1)..n : p \in S
    <3> SUFFICES ASSUME NEW p \in (n - k + 1)..n, p \notin S PROVE FALSE
      OBVIOUS
    <3>1. n - p \in Nat /\ n - p <= n /\ n - (n - p) = p /\ n - p < k
      BY <2>0
    <3>2. n - p \in Bad
      BY <3>1
    <3> QED BY <3>1, <3>2, <2>2
  <2>4. n - k \in 0..n
    BY <2>0
  <2> QED BY <2>0, <2>3, <2>4
<1>2. ASSUME NEW o \in 0..n, o \notin S PROVE FALSE
  <2>1. n - o \in Nat /\ n - o <= n /\ n - (n - o) = o
    OBVIOUS
  <2>2. n - o \in Bad
    BY <2>1, <1>2
  <2> QED BY <2>2, <1>1
<1> QED BY <1>2

\* The links have two formats.
LEMMA HeadSizes ==
  ASSUME link \in Links
  PROVE  /\ PROTOCOL_HEAD \in 7..11 /\ SkipLarge \in 1..3 /\ SkipBad \in 3..9
         /\ SkipBad < PROTOCOL_HEAD /\ SkipLarge < PROTOCOL_HEAD
BY DEF Links, PROTOCOL_HEAD, SkipLarge, SkipBad

\* A byte of a buffer is a number.
LEMMA BytesOf ==
  ASSUME NEW b \in Seq(Byte)
  PROVE  /\ Len(b) \in Nat
         /\ \A i \in 1..Len(b) : b[i] \in Byte /\ b[i] \in Nat
<1>1. Byte \subseteq Nat
  BY DEF Byte
<1> HIDE DEF Byte
<1>2. \A i \in 1..Len(b) : b[i] \in Byte
  OBVIOUS
<1>3. Len(b) \in Nat
  OBVIOUS
<1> QED BY <1>1, <1>2, <1>3, Zenon

\* The length a frame states is a number, whatever its bytes.
LEMMA TotalNat ==
  ASSUME link \in Links, NEW b \in Seq(Byte), NEW o \in 0..Len(b),
         ~(Len(b) - o < PROTOCOL_HEAD)
  PROVE  Total(b, o) \in Nat
<1>1. b[o + 5] \in Nat /\ b[o + 6] \in Nat /\ b[o + 2] \in Nat
  BY BytesOf, HeadSizes
<1>2. \A x, y \in Nat : (256 * x + y + 7) % 65536 \in Nat
  OBVIOUS
<1>3. CASE link = "wifi"
  BY <1>1, <1>2, <1>3 DEF Total, At, PROTOCOL_HEAD
<1>4. CASE link # "wifi"
  BY <1>1, <1>4 DEF Total, At
<1> QED BY <1>3, <1>4

\* A turn of the loop goes on only at larger offsets of the buffer.
LEMMA TurnsAhead ==
  ASSUME link \in Links, NEW b \in Seq(Byte), NEW o \in 0..Len(b),
         ~(Len(b) - o < PROTOCOL_HEAD)
  PROVE  /\ o + 1 \in (o + 1)..Len(b) /\ o + SkipLarge \in (o + 1)..Len(b)
         /\ o + SkipBad \in (o + 1)..Len(b)
         /\ ~(Len(b) - o < Total(b, o)) /\ Total(b, o) # 0 =>
              o + Total(b, o) \in (o + 1)..Len(b)
<1>1. /\ Len(b) \in Nat /\ Total(b, o) \in Nat
      /\ PROTOCOL_HEAD \in 7..11 /\ SkipLarge \in 1..3 /\ SkipBad \in 3..9
      /\ SkipBad < PROTOCOL_HEAD /\ SkipLarge < PROTOCOL_HEAD
  BY BytesOf, HeadSizes, TotalNat
<1> QED BY <1>1

\* One turn of the loop depends on the turns at larger offsets alone.
LEMMA ScanLocal ==
  ASSUME link \in Links, NEW b \in Seq(Byte), NEW o \in 0..Len(b), NEW stale,
         NEW g, NEW h, \A p \in (o + 1)..Len(b) : g[p] = h[p]
  PROVE  ScanAt(g, b, o, stale) = ScanAt(h, b, o, stale)
<1>1. CASE Len(b) - o < PROTOCOL_HEAD
  BY <1>1 DEF ScanAt
<1>2. CASE ~(Len(b) - o < PROTOCOL_HEAD)
  <2>1. /\ g[o + 1] = h[o + 1] /\ g[o + SkipLarge] = h[o + SkipLarge]
        /\ g[o + SkipBad] = h[o + SkipBad]
        /\ ~(Len(b) - o < Total(b, o)) /\ Total(b, o) # 0 =>
              g[o + Total(b, o)] = h[o + Total(b, o)]
    BY <1>2, TurnsAhead
  <2>2. CASE ~IsHead(b, o) \/ TooLarge(b, o) \/ Len(b) - o < Total(b, o) \/ Total(b, o) = 0
    BY <1>2, <2>1, <2>2 DEF ScanAt
  <2>3. CASE ~(~IsHead(b, o) \/ TooLarge(b, o) \/ Len(b) - o < Total(b, o) \/ Total(b, o) = 0)
    <3>1. CASE SumRight(b, o, stale)
      BY <1>2, <2>1, <2>3, <3>1 DEF ScanAt
    <3>2. CASE ~SumRight(b, o, stale)
      BY <1>2, <2>1, <2>3, <3>2 DEF ScanAt
    <3> QED BY <3>1, <3>2
  <2> QED BY <2>2, <2>3
<1> QED BY <1>1, <1>2

\* The function From of Scan.
ScanFrom(b, stale) ==
  CHOOSE f : f = [o \in 0..Len(b) |-> ScanAt(f, b, o, stale)]

\* The scan is read off its function at offset 0.
LEMMA ScanIsFrom ==
  ASSUME NEW b, NEW stale PROVE Scan(b, stale) = ScanFrom(b, stale)[0]
BY DEF Scan, ScanFrom

\* There is a function that obeys the equation of the scan: the one that is right
\* from o + 1 on is made right at o, from the end of the buffer to its start.
LEMMA ScanExists ==
  ASSUME link \in Links, NEW b \in Seq(Byte), NEW stale
  PROVE  \E f : f = [o \in 0..Len(b) |-> ScanAt(f, b, o, stale)]
<1> DEFINE n == Len(b)
           Good(g, o) == /\ g = [p \in 0..n |-> g[p]]
                         /\ \A p \in o..n : g[p] = ScanAt(g, b, p, stale)
           S == {o \in 0..n : \E g : Good(g, o)}
<1>1. n \in Nat
  BY BytesOf
<1>2. ASSUME NEW o \in 0..n, \A p \in (o + 1)..n : p \in S PROVE o \in S
  <2>1. PICK g : Good(g, o + 1)
    <3>1. CASE o = n
      <4>1. Good([p \in 0..n |-> p], n + 1)
        BY <1>1
      <4>2. \E g : Good(g, n + 1)
        BY <4>1
      <4> QED BY <4>2, <3>1
    <3>2. CASE o # n
      <4>1. o + 1 \in S
        BY <1>1, <1>2, <3>2
      <4> QED BY <4>1, Zenon
    <3> QED BY <3>1, <3>2
  <2> DEFINE h == [p \in 0..n |-> IF p = o THEN ScanAt(g, b, o, stale) ELSE g[p]]
  <2>2. \A p \in 0..n : h[p] = IF p = o THEN ScanAt(g, b, o, stale) ELSE g[p]
    OBVIOUS
  <2>3. h = [p \in 0..n |-> h[p]]
    OBVIOUS
  <2> HIDE DEF h
  <2>4. ASSUME NEW p \in o..n PROVE h[p] = ScanAt(h, b, p, stale)
    <3>1. p \in 0..n /\ \A q \in (p + 1)..n : h[q] = g[q]
      BY <1>1, <2>2
    <3>2. ScanAt(h, b, p, stale) = ScanAt(g, b, p, stale)
      BY <3>1, ScanLocal
    <3>3. p = o \/ p \in (o + 1)..n
      BY <1>1
    <3> QED BY <3>1, <3>2, <3>3, <2>1, <2>2
  <2>5. Good(h, o)
    BY <2>3, <2>4
  <2> QED BY <2>5
<1> HIDE DEF S
<1>3. \A o \in 0..n : o \in S
  BY <1>1, <1>2, Downward
<1>4. PICK g : Good(g, 0)
  BY <1>1, <1>3 DEF S
<1>5. g = [p \in 0..n |-> ScanAt(g, b, p, stale)]
  BY <1>4
<1> QED BY <1>5

\* The scan obeys its equation.
LEMMA ScanEquation ==
  ASSUME link \in Links, NEW b \in Seq(Byte), NEW stale, NEW o \in 0..Len(b)
  PROVE  ScanFrom(b, stale)[o] = ScanAt(ScanFrom(b, stale), b, o, stale)
<1> DEFINE f == ScanFrom(b, stale)
<1>1. f = [p \in 0..Len(b) |-> ScanAt(f, b, p, stale)]
  BY ScanExists DEF ScanFrom
<1> HIDE DEF f
<1> QED BY <1>1 DEF f

\* What a frame says is a sequence of sequences of bytes.
Saying == Seq(Byte)

\* A place of a buffer holds a byte.
LEMMA ByteIn == ASSUME NEW b \in Seq(Byte), NEW i \in 1..Len(b) PROVE b[i] \in Byte
OBVIOUS

\* A part of a buffer.
LEMMA PartOf ==
  ASSUME NEW b \in Seq(Byte), NEW i \in Nat, NEW j \in Int, i >= 1, j <= Len(b)
  PROVE  /\ SubSeq(b, i, j) \in Seq(Byte)
         /\ Len(SubSeq(b, i, j)) = IF i <= j THEN j - i + 1 ELSE 0
         /\ \A k \in 1..(j - i + 1) : SubSeq(b, i, j)[k] = b[i + k - 1]
<1>1. \A k \in i..j : b[k] \in Byte
  BY ByteIn, BytesOf
<1> HIDE DEF Byte
<1> QED BY <1>1, SubSeqProperties

\* A sequence of one.
LEMMA Single == ASSUME NEW S, NEW x \in S PROVE <<x>> \in Seq(S)
OBVIOUS

\* What data_point_handle passes on are bytes.
LEMMA PointSays ==
  ASSUME NEW p \in Seq(Byte), Len(p) >= 4
  PROVE  data_point_handle(p) \in Seq(Saying)
<1>1. p[1] \in Byte
  BY ByteIn, BytesOf
<1>2. <<p[1]>> \in Seq(Byte)
  BY <1>1, Single
<1>3. SubSeq(p, 5, Len(p)) \in Seq(Byte)
  BY PartOf, BytesOf
<1>4. <<p[1]>> \o SubSeq(p, 5, Len(p)) \in Saying
  BY <1>2, <1>3, ConcatProperties DEF Saying
<1>5. << <<p[1]>> \o SubSeq(p, 5, Len(p)) >> \in Seq(Saying) /\ <<>> \in Seq(Saying)
  BY <1>4, Single, EmptySeq
<1>6. At(p, 0) = p[1]
  BY DEF At
<1> QED BY <1>5, <1>6 DEF data_point_handle

\* A point takes at least its own head of four bytes: the loop of data_handle goes on.
LEMMA StepSize ==
  ASSUME NEW data \in Seq(Byte), NEW i \in 0..Len(data), ~(i + 4 > Len(data))
  PROVE  Step(data, i) \in Nat /\ Step(data, i) >= 4
<1>1. data[i + 3] \in Nat /\ data[i + 4] \in Nat
  BY BytesOf
<1>2. At(data, i + 2) = data[i + 3] /\ At(data, i + 3) = data[i + 4]
  BY BytesOf DEF At
<1>3. \A x, y \in Nat : 256 * x + y + 4 \in Nat /\ 256 * x + y + 4 >= 4
  OBVIOUS
<1> QED BY <1>1, <1>2, <1>3 DEF Step

\* One turn of the loop over the points depends on the later ones alone.
LEMMA PointsLocal ==
  ASSUME NEW data \in Seq(Byte), NEW i \in 0..Len(data),
         NEW g, NEW h, \A p \in (i + 1)..Len(data) : g[p] = h[p]
  PROVE  PointsAt(g, data, i) = PointsAt(h, data, i)
<1>1. CASE i = Len(data) \/ i + 4 > Len(data) \/ i + Step(data, i) > Len(data)
  BY <1>1 DEF PointsAt
<1>2. CASE ~(i = Len(data) \/ i + 4 > Len(data) \/ i + Step(data, i) > Len(data))
  <2>1. i + Step(data, i) \in (i + 1)..Len(data)
    BY <1>2, StepSize, BytesOf
  <2> QED BY <1>2, <2>1 DEF PointsAt
<1> QED BY <1>1, <1>2

\* The function From of Points.
PointsFrom(data) == CHOOSE f : f = [i \in 0..Len(data) |-> PointsAt(f, data, i)]

\* The loop over the points of a frame obeys its equation, by the same argument.
LEMMA PointsEquation ==
  ASSUME NEW data \in Seq(Byte), NEW i \in 0..Len(data)
  PROVE  PointsFrom(data)[i] = PointsAt(PointsFrom(data), data, i)
<1> DEFINE n == Len(data)
           Good(g, o) == /\ g = [p \in 0..n |-> g[p]]
                         /\ \A p \in o..n : g[p] = PointsAt(g, data, p)
           S == {o \in 0..n : \E g : Good(g, o)}
<1>1. n \in Nat
  BY BytesOf
<1>2. ASSUME NEW o \in 0..n, \A p \in (o + 1)..n : p \in S PROVE o \in S
  <2>1. PICK g : Good(g, o + 1)
    <3>1. CASE o = n
      <4>1. Good([p \in 0..n |-> p], n + 1)
        BY <1>1
      <4>2. \E g : Good(g, n + 1)
        BY <4>1
      <4> QED BY <4>2, <3>1
    <3>2. CASE o # n
      <4>1. o + 1 \in S
        BY <1>1, <1>2, <3>2
      <4> QED BY <4>1, Zenon
    <3> QED BY <3>1, <3>2
  <2> DEFINE h == [p \in 0..n |-> IF p = o THEN PointsAt(g, data, o) ELSE g[p]]
  <2>2. \A p \in 0..n : h[p] = IF p = o THEN PointsAt(g, data, o) ELSE g[p]
    OBVIOUS
  <2>3. h = [p \in 0..n |-> h[p]]
    OBVIOUS
  <2> HIDE DEF h
  <2>4. ASSUME NEW p \in o..n PROVE h[p] = PointsAt(h, data, p)
    <3>1. p \in 0..n /\ \A q \in (p + 1)..n : h[q] = g[q]
      BY <1>1, <2>2
    <3>2. PointsAt(h, data, p) = PointsAt(g, data, p)
      BY <3>1, PointsLocal
    <3>3. p = o \/ p \in (o + 1)..n
      BY <1>1
    <3> QED BY <3>1, <3>2, <3>3, <2>1, <2>2
  <2>5. Good(h, o)
    BY <2>3, <2>4
  <2> QED BY <2>5
<1> HIDE DEF S
<1>3. \A o \in 0..n : o \in S
  BY <1>1, <1>2, Downward
<1>4. PICK g : Good(g, 0)
  BY <1>1, <1>3 DEF S
<1>5. g = [p \in 0..n |-> PointsAt(g, data, p)]
  BY <1>4
<1>6. PointsFrom(data) = [p \in 0..n |-> PointsAt(PointsFrom(data), data, p)]
  BY <1>5 DEF PointsFrom
<1> DEFINE f == PointsFrom(data)
<1> HIDE DEF f
<1>7. f = [p \in 0..n |-> PointsAt(f, data, p)]
  BY <1>6 DEF f
<1>8. f[i] = PointsAt(f, data, i)
  BY <1>7
<1> QED BY <1>8 DEF f

\* What the points of a frame say are bytes.
LEMMA PointsSay == ASSUME NEW data \in Seq(Byte) PROVE Points(data) \in Seq(Saying)
<1> DEFINE n == Len(data)
           F == PointsFrom(data)
           S == {i \in 0..n : F[i] \in Seq(Saying)}
<1>1. n \in Nat
  BY BytesOf
<1>2. ASSUME NEW i \in 0..n, \A p \in (i + 1)..n : p \in S PROVE i \in S
  <2>1. F[i] = PointsAt(F, data, i)
    BY PointsEquation
  <2>2. <<>> \in Seq(Saying) /\ <<Behind>> \in Seq(Saying)
    BY Single, EmptySeq DEF Behind, Saying
  <2>3. CASE i = n \/ i + 4 > n \/ i + Step(data, i) > n
    BY <2>1, <2>2, <2>3 DEF PointsAt
  <2>4. CASE ~(i = n \/ i + 4 > n \/ i + Step(data, i) > n)
    <3> DEFINE j == i + Step(data, i)
    <3>1. j \in (i + 4)..n /\ Step(data, i) \in Nat /\ Step(data, i) >= 4
      BY <2>4, StepSize, <1>1
    <3> HIDE DEF j
    <3>2. SubSeq(data, i + 1, j) \in Seq(Byte) /\ Len(SubSeq(data, i + 1, j)) >= 4
      BY <3>1, <1>1, PartOf
    <3>3. data_point_handle(SubSeq(data, i + 1, j)) \in Seq(Saying)
      BY <3>2, PointSays
    <3>4. F[j] \in Seq(Saying)
      BY <1>1, <1>2, <3>1
    <3>5. F[i] = data_point_handle(SubSeq(data, i + 1, j)) \o F[j]
      BY <2>1, <2>4 DEF PointsAt, j
    <3> QED BY <3>3, <3>4, <3>5, ConcatProperties
  <2> QED BY <2>3, <2>4
<1> HIDE DEF S
<1>3. \A i \in 0..n : i \in S
  BY <1>1, <1>2, Downward
<1>4. Points(data) = F[0]
  BY DEF Points, PointsFrom
<1> QED BY <1>1, <1>3, <1>4 DEF S

\* A frame at o is whole: its head has arrived and as many bytes as it says.
Whole(b, o) ==
  /\ ~(Len(b) - o < PROTOCOL_HEAD) /\ ~(Len(b) - o < Total(b, o)) /\ Total(b, o) # 0

\* The data of a whole frame are bytes that have arrived.
LEMMA FrameData ==
  ASSUME link \in Links, NEW b \in Seq(Byte), NEW o \in 0..Len(b), Whole(b, o)
  PROVE  SubSeq(b, o + 7, o + Total(b, o) - 1) \in Seq(Byte)
<1>1. Total(b, o) \in Nat /\ o + Total(b, o) - 1 <= Len(b) /\ Len(b) \in Nat
  BY TotalNat, BytesOf DEF Whole
<1> DEFINE j == o + Total(b, o) - 1
<1>2. j \in Int /\ j <= Len(b) /\ o + 7 \in Nat /\ o + 7 >= 1
  BY <1>1
<1> HIDE DEF j
<1>3. SubSeq(b, o + 7, j) \in Seq(Byte)
  BY <1>2, PartOf
<1> QED BY <1>3 DEF j

\* What is acted on for a whole frame are bytes.
LEMMA HandledSays ==
  ASSUME link \in Links, NEW b \in Seq(Byte), NEW o \in 0..Len(b), Whole(b, o)
  PROVE  Handled(b, o) \in Seq(Saying)
<1>1. <<>> \in Seq(Saying) /\ <<Behind>> \in Seq(Saying)
  BY Single, EmptySeq DEF Behind, Saying
<1>2. data_handle(b, o) \in Seq(Saying)
  <2> DEFINE data == SubSeq(b, o + 7, o + Total(b, o) - 1)
             cmd_type == At(b, o + 3)
  <2>1. data \in Seq(Byte)
    BY FrameData
  <2>2. cmd_type \in Byte
    BY ByteIn, BytesOf, HeadSizes DEF At, Whole
  <2> HIDE DEF data, cmd_type
  <2>3. <<cmd_type>> \o data \in Saying
    BY <2>1, <2>2, Single, ConcatProperties DEF Saying
  <2>4. << <<cmd_type>> \o data >> \in Seq(Saying)
    BY <2>3, Single
  <2>5. Points(data) \in Seq(Saying)
    BY <2>1, PointsSay
  <2> QED BY <1>1, <2>4, <2>5 DEF data_handle, data, cmd_type
<1>3. CASE link = "tds"
  <2>1. At(b, o + 4) \in Byte /\ At(b, o + 5) \in Byte
    BY ByteIn, BytesOf, HeadSizes DEF At, Whole
  <2>2. \A x, y \in Byte : <<x, y>> \in Seq(Byte)
    OBVIOUS
  <2>3. <<At(b, o + 4), At(b, o + 5)>> \in Saying
    BY <2>1, <2>2 DEF Saying
  <2>4. << <<At(b, o + 4), At(b, o + 5)>> >> \in Seq(Saying)
    BY <2>3, Single
  <2> QED BY <1>1, <1>3, <2>4 DEF Handled, tds_handle
<1> QED BY <1>2, <1>3 DEF Handled, Links

\* What one turn comes to, by cases.
LEMMA TurnCases ==
  ASSUME NEW g, NEW b, NEW o, NEW stale, NEW r, r = ScanAt(g, b, o, stale)
  PROVE
         /\ Len(b) - o < PROTOCOL_HEAD => r = Result(o, <<>>, FALSE, FALSE)
         /\ ~(Len(b) - o < PROTOCOL_HEAD) =>
              /\ ~IsHead(b, o) => r = g[o + 1]
              /\ IsHead(b, o) /\ TooLarge(b, o) => r = g[o + SkipLarge]
              /\ IsHead(b, o) /\ ~TooLarge(b, o) =>
                   /\ Len(b) - o < Total(b, o) => r = Result(o, <<>>, FALSE, FALSE)
                   /\ ~(Len(b) - o < Total(b, o)) /\ Total(b, o) = 0 =>
                        r = Result(o, <<>>, FALSE, TRUE)
                   /\ Whole(b, o) /\ SumRight(b, o, stale) =>
                        r = Result(g[o + Total(b, o)].used,
                                   Handled(b, o) \o g[o + Total(b, o)].said,
                                   SumMissing(b, o) \/ Contains(Handled(b, o), Behind)
                                     \/ g[o + Total(b, o)].missed,
                                   g[o + Total(b, o)].crash)
                   /\ Whole(b, o) /\ ~SumRight(b, o, stale) =>
                        r = Result(g[o + SkipBad].used, <<>> \o g[o + SkipBad].said,
                                   SumMissing(b, o) \/ Contains(<<>>, Behind)
                                     \/ g[o + SkipBad].missed,
                                   g[o + SkipBad].crash)
BY DEF ScanAt, Whole

\* The results of a scan of n bytes that has got to o: the rest it leaves is
\* shorter than the buffer, unless the service has stopped.
Scanned(n, o) ==
  {r \in [used : o..n, said : Seq(Saying), missed : BOOLEAN, crash : BOOLEAN] :
     ~r.crash => n - r.used < BufSize}

\* A pass takes no more than there is, and leaves less than the buffer holds: it stops
\* for want of a head, or of a frame that is not too large for the buffer.
LEMMA ScanType ==
  ASSUME link \in Links, NEW b \in Seq(Byte), NEW stale
  PROVE  \A o \in 0..Len(b) : ScanFrom(b, stale)[o] \in Scanned(Len(b), o)
<1> DEFINE n == Len(b)
           F == ScanFrom(b, stale)
           S == {o \in 0..n : F[o] \in Scanned(n, o)}
<1>1. n \in Nat
  BY BytesOf
<1>2. ASSUME NEW o \in 0..n, \A p \in (o + 1)..n : p \in S PROVE o \in S
  <2>1. \A p \in (o + 1)..n : F[p] \in Scanned(n, o)
    <3> SUFFICES ASSUME NEW p \in (o + 1)..n PROVE F[p] \in Scanned(n, o)
      OBVIOUS
    <3>1. F[p] \in Scanned(n, p)
      BY <1>2
    <3>2. p..n \subseteq o..n
      BY <1>1
    <3> HIDE DEF F, n
    <3> QED BY <3>1, <3>2 DEF Scanned
  <2>2. F[o] = ScanAt(F, b, o, stale)
    BY ScanEquation
  <2>3. BufSize \in Nat /\ BufSize >= 11 /\ PROTOCOL_HEAD \in 7..11
    BY FrameAssumption, HeadSizes
  <2>4. <<>> \in Seq(Saying)
    BY EmptySeq
  <2> HIDE DEF F
  <2>5. ASSUME NEW used \in o..n, NEW said \in Seq(Saying), NEW missed \in BOOLEAN,
               NEW crash \in BOOLEAN, ~crash => n - used < BufSize
        PROVE  Result(used, said, missed, crash) \in Scanned(n, o)
    BY <2>5 DEF Result, Scanned
  <2>6. CASE n - o < PROTOCOL_HEAD
    <3>1. F[o] = Result(o, <<>>, FALSE, FALSE)
      BY <2>2, <2>6, TurnCases
    <3>2. o \in o..n /\ n - o < BufSize
      BY <1>1, <2>3, <2>6
    <3> QED BY <3>1, <3>2, <2>4, <2>5
  <2>7. CASE ~(n - o < PROTOCOL_HEAD)
    <3>0. Total(b, o) \in Nat
      BY <2>7, TotalNat
    <3>1. CASE ~IsHead(b, o) \/ TooLarge(b, o)
      BY <2>1, <2>2, <2>7, <3>1, TurnsAhead, TurnCases
    <3>2. CASE IsHead(b, o) /\ ~TooLarge(b, o) /\ ~Whole(b, o)
      <4>1. o \in o..n /\ (n - o < Total(b, o) => n - o < BufSize)
        BY <1>1, <2>3, <3>0, <3>2 DEF TooLarge
      <4>2. \/ n - o < Total(b, o) /\ F[o] = Result(o, <<>>, FALSE, FALSE)
            \/ F[o] = Result(o, <<>>, FALSE, TRUE)
        BY <2>2, <2>7, <3>2, TurnCases DEF Whole
      <4> QED BY <4>1, <4>2, <2>4, <2>5
    <3>3. CASE IsHead(b, o) /\ ~TooLarge(b, o) /\ Whole(b, o) /\ SumRight(b, o, stale)
      <4> DEFINE rest == F[o + Total(b, o)]
                 missed == SumMissing(b, o) \/ Contains(Handled(b, o), Behind) \/ rest.missed
      <4>1. rest \in Scanned(n, o)
        BY <2>1, <2>7, <3>3, TurnsAhead DEF Whole
      <4>2. F[o] = Result(rest.used, Handled(b, o) \o rest.said, missed, rest.crash)
        BY <2>2, <2>7, <3>3, TurnCases
      <4>3. Handled(b, o) \in Seq(Saying)
        BY <3>3, HandledSays
      <4>4. missed \in BOOLEAN
        OBVIOUS
      <4> HIDE DEF rest, missed
      <4>5. /\ rest.used \in o..n /\ rest.said \in Seq(Saying) /\ rest.crash \in BOOLEAN
            /\ ~rest.crash => n - rest.used < BufSize
        BY <4>1 DEF Scanned
      <4>6. Handled(b, o) \o rest.said \in Seq(Saying)
        BY <4>3, <4>5, ConcatProperties
      <4> QED BY <4>2, <4>4, <4>5, <4>6, <2>5
    <3>4. CASE IsHead(b, o) /\ ~TooLarge(b, o) /\ Whole(b, o) /\ ~SumRight(b, o, stale)
      <4> DEFINE rest == F[o + SkipBad]
                 missed == SumMissing(b, o) \/ Contains(<<>>, Behind) \/ rest.missed
      <4>1. rest \in Scanned(n, o)
        BY <2>1, <2>7, <3>4, TurnsAhead
      <4>2. F[o] = Result(rest.used, <<>> \o rest.said, missed, rest.crash)
        BY <2>2, <2>7, <3>4, TurnCases
      <4>4. missed \in BOOLEAN
        OBVIOUS
      <4> HIDE DEF rest, missed
      <4>5. /\ rest.used \in o..n /\ rest.said \in Seq(Saying) /\ rest.crash \in BOOLEAN
            /\ ~rest.crash => n - rest.used < BufSize
        BY <4>1 DEF Scanned
      <4>6. <<>> \o rest.said \in Seq(Saying)
        BY <2>4, <4>5, ConcatProperties
      <4> QED BY <4>2, <4>4, <4>5, <4>6, <2>5
    <3> QED BY <3>1, <3>2, <3>3, <3>4
  <2> QED BY <2>6, <2>7
<1> HIDE DEF S
<1>3. \A o \in 0..n : o \in S
  BY <1>1, <1>2, Downward
<1> QED BY <1>3 DEF S

\* What the variables hold.
FrameTypeOK ==
  /\ link \in Links /\ wire \in Seq(Byte) /\ buf \in Seq(Byte)
  /\ heard \in Seq(Saying) /\ early \in BOOLEAN /\ halted \in BOOLEAN

\* What noise makes of a frame are bytes.
LEMMA NoiseIsBytes ==
  ASSUME NEW b \in Seq(Byte), NEW hit \in Damaged(b) PROVE hit \in Seq(Byte)
<1>1. Len(b) \in Nat /\ Noise \subseteq Byte
  BY BytesOf, FrameAssumption
<1>2. ASSUME NEW i \in 1..Len(b) PROVE RemoveAt(b, i) \in Seq(Byte)
  <2>1. SubSeq(b, 1, i - 1) \in Seq(Byte) /\ SubSeq(b, i + 1, Len(b)) \in Seq(Byte)
    BY <1>1, PartOf
  <2> QED BY <2>1, ConcatProperties DEF RemoveAt
<1>3. ASSUME NEW i \in 1..Len(b), NEW x \in Noise PROVE ReplaceAt(b, i, x) \in Seq(Byte)
  <2>1. x \in Byte
    BY <1>1
  <2> QED BY <2>1, ExceptSeq DEF ReplaceAt
<1>4. ASSUME NEW i \in 1..Len(b), NEW x \in Noise PROVE InsertAt(b, i, x) \in Seq(Byte)
  <2>1. SubSeq(b, 1, i - 1) \in Seq(Byte) /\ SubSeq(b, i, Len(b)) \in Seq(Byte)
    BY <1>1, PartOf
  <2>2. x \in Byte
    BY <1>1
  <2>3. <<x>> \in Seq(Byte)
    BY <2>2, Single
  <2>4. SubSeq(b, 1, i - 1) \o <<x>> \in Seq(Byte)
    BY <2>1, <2>3, ConcatProperties
  <2>5. (SubSeq(b, 1, i - 1) \o <<x>>) \o SubSeq(b, i, Len(b)) \in Seq(Byte)
    BY <2>1, <2>4, ConcatProperties
  <2> QED BY <2>5 DEF InsertAt
<1> QED BY <1>2, <1>3, <1>4 DEF Damaged

\* The service starts with an empty buffer.
LEMMA InitFrames == FrameInit => FrameTypeOK /\ NeverWedged
<1> SUFFICES ASSUME FrameInit PROVE FrameTypeOK /\ NeverWedged
  OBVIOUS
<1>1. link \in Links /\ buf = <<>> /\ heard = <<>> /\ early = FALSE /\ halted = FALSE
  BY DEF FrameInit
<1>2. PICK f \in Frames(link), g \in Frames(link) : \E hit \in Damaged(f.bytes) :
         wire = hit \o g.bytes \o [i \in 1..(BufSize + PROTOCOL_HEAD) |-> Filler]
  BY DEF FrameInit
<1>3. PICK hit \in Damaged(f.bytes) :
         wire = hit \o g.bytes \o [i \in 1..(BufSize + PROTOCOL_HEAD) |-> Filler]
  BY <1>2
<1>4. f.bytes \in Seq(Byte) /\ g.bytes \in Seq(Byte) /\ Filler \in Byte
  BY <1>1, <1>2, FrameAssumption
<1>5. hit \in Seq(Byte)
  BY <1>4, NoiseIsBytes
<1>6. BufSize + PROTOCOL_HEAD \in Nat /\ BufSize > 0
  BY <1>1, HeadSizes, FrameAssumption
<1>7. \A m \in Nat, x \in Byte : [i \in 1..m |-> x] \in Seq(Byte)
  OBVIOUS
<1>8. hit \o g.bytes \in Seq(Byte)
  BY <1>4, <1>5, ConcatProperties
<1>9. wire \in Seq(Byte)
  BY <1>3, <1>4, <1>6, <1>7, <1>8, ConcatProperties
<1>10. <<>> \in Seq(Byte) /\ <<>> \in Seq(Saying) /\ Len(<<>>) = 0
  BY EmptySeq
<1> QED BY <1>1, <1>6, <1>9, <1>10 DEF FrameTypeOK, NeverWedged

\* What a pass reads and leaves.
LEMMA PassIs ==
  ASSUME FrameTypeOK, NEW k \in Arrived, NEW stale, Pass(k, stale)
  PROVE  \E b \in Seq(Byte), rest \in Seq(Byte) :
           /\ buf \o wire = b \o rest
           /\ LET r == Scan(b, stale) IN
              /\ r \in Scanned(Len(b), 0)
              /\ wire' = rest /\ buf' = SubSeq(b, r.used + 1, Len(b))
              /\ heard' = heard \o r.said /\ early' = (early \/ r.missed)
              /\ halted' = r.crash /\ ~halted /\ link' = link
<1> DEFINE new == SubSeq(wire, 1, k)
           rest == SubSeq(wire, k + 1, Len(wire))
           b == buf \o new
           r == Scan(b, stale)
<1>1. /\ wire' = rest /\ buf' = SubSeq(b, r.used + 1, Len(b))
      /\ heard' = heard \o r.said /\ early' = (early \/ r.missed)
      /\ halted' = r.crash /\ ~halted /\ link' = link
  BY DEF Pass
<1>2. link \in Links /\ wire \in Seq(Byte) /\ buf \in Seq(Byte)
  BY DEF FrameTypeOK
<1>3. k \in 1..Len(wire) /\ Len(wire) \in Nat /\ Len(buf) \in Nat
  BY <1>2, BytesOf, FrameAssumption DEF Arrived, Smaller
<1>4. new \in Seq(Byte) /\ rest \in Seq(Byte)
  BY <1>2, <1>3, PartOf
<1>5. new \o rest = wire
  <2>1. SubSeq(wire, 1, k) \o SubSeq(wire, k + 1, Len(wire)) = SubSeq(wire, 1, Len(wire))
    BY <1>2, <1>3, ConcatAdjacentSubSeq
  <2> QED BY <1>2, <2>1, SubSeqFull
<1> HIDE DEF new, rest
<1>6. b \in Seq(Byte)
  BY <1>2, <1>4, ConcatProperties
<1>7. buf \o wire = b \o rest
  <2>1. (buf \o new) \o rest = buf \o (new \o rest)
    BY <1>2, <1>4, ConcatAssociative
  <2> QED BY <2>1, <1>5
<1> HIDE DEF b
<1>8. r \in Scanned(Len(b), 0)
  <2>1. 0 \in 0..Len(b)
    BY <1>6, BytesOf
  <2>2. ScanFrom(b, stale)[0] \in Scanned(Len(b), 0)
    BY <1>2, <1>6, <2>1, ScanType
  <2> QED BY <2>2, ScanIsFrom
<1> QED BY <1>1, <1>4, <1>6, <1>7, <1>8

\* A pass of either service leaves room in the buffer.
LEMMA PassFrames ==
  ASSUME FrameTypeOK, NEW k \in Arrived, NEW stale, Pass(k, stale)
  PROVE  FrameTypeOK' /\ NeverWedged'
<1>1. PICK b \in Seq(Byte), rest \in Seq(Byte) :
         LET r == Scan(b, stale) IN
              /\ r \in Scanned(Len(b), 0)
              /\ wire' = rest /\ buf' = SubSeq(b, r.used + 1, Len(b))
              /\ heard' = heard \o r.said /\ early' = (early \/ r.missed)
              /\ halted' = r.crash /\ ~halted /\ link' = link
  BY PassIs
<1> DEFINE r == Scan(b, stale)
<1>2. /\ r \in Scanned(Len(b), 0)
      /\ wire' = rest /\ buf' = SubSeq(b, r.used + 1, Len(b))
      /\ heard' = heard \o r.said /\ early' = (early \/ r.missed)
      /\ halted' = r.crash /\ link' = link
  BY <1>1
<1> HIDE DEF r
<1>3. /\ r.used \in 0..Len(b) /\ r.said \in Seq(Saying)
      /\ r.missed \in BOOLEAN /\ r.crash \in BOOLEAN
      /\ ~r.crash => Len(b) - r.used < BufSize
  BY <1>2 DEF Scanned
<1>4. /\ buf' \in Seq(Byte)
      /\ Len(buf') = Len(b) - r.used
  BY <1>2, <1>3, PartOf, BytesOf
<1>5. heard' \in Seq(Saying)
  BY <1>2, <1>3, ConcatProperties DEF FrameTypeOK
<1>6. early' \in BOOLEAN /\ halted' \in BOOLEAN
  BY <1>2, <1>3, Zenon
<1>7. FrameTypeOK'
  BY <1>2, <1>4, <1>5, <1>6 DEF FrameTypeOK
<1>8. NeverWedged'
  BY <1>2, <1>3, <1>4 DEF NeverWedged
<1> QED BY <1>7, <1>8

\* So does every step.
LEMMA NextFrames ==
  ASSUME FrameTypeOK, NeverWedged, [FrameNext]_parser PROVE FrameTypeOK' /\ NeverWedged'
<1>1. CASE wifi_uart_service
  BY <1>1, PassFrames DEF wifi_uart_service
<1>2. CASE tds_uart_service
  BY <1>2, PassFrames DEF tds_uart_service
<1>3. CASE UNCHANGED parser
  BY <1>3 DEF parser, FrameTypeOK, NeverWedged
<1> QED BY <1>1, <1>2, <1>3 DEF FrameNext

\* The inductive invariant of the parser.
LEMMA FramesSafe == FrameSpec => [](FrameTypeOK /\ NeverWedged)
BY InitFrames, NextFrames, PTL DEF FrameSpec

\* No pass leaves the process buffer full, whatever bytes arrive and however they fall
\* into passes: wifi_uart_service and tds_uart_service always have room for the next
\* byte, so a damaged length never makes a link deaf.  For every size of the buffer
\* that holds a head.
THEOREM ParserHasRoom == FrameSpec => []NeverWedged
BY FramesSafe, PTL

\* A pass does not change the link, so neither the format of the frames.
LEMMA TurnKept ==
  ASSUME link' = link, NEW f, NEW b, NEW o, NEW stale
  PROVE  ScanAt(f, b, o, stale)' = ScanAt(f, b, o, stale)
<1>1. /\ PROTOCOL_HEAD' = PROTOCOL_HEAD /\ SkipLarge' = SkipLarge /\ SkipBad' = SkipBad
      /\ IsHead(b, o)' = IsHead(b, o)
  BY DEF PROTOCOL_HEAD, SkipLarge, SkipBad, IsHead
<1>2. Total(b, o)' = Total(b, o)
  BY <1>1 DEF Total
<1>3. SumAt(b, o)' = SumAt(b, o) /\ TooLarge(b, o)' = TooLarge(b, o)
  BY <1>2 DEF SumAt, TooLarge
<1>4. SumMissing(b, o)' = SumMissing(b, o)
  BY <1>3 DEF SumMissing
<1>5. SumRight(b, o, stale)' = SumRight(b, o, stale)
  BY <1>2, <1>3, <1>4 DEF SumRight
<1>6. data_handle(b, o)' = data_handle(b, o)
  BY <1>2 DEF data_handle
<1>7. Handled(b, o)' = Handled(b, o)
  BY <1>6 DEF Handled
<1> QED BY <1>1, <1>2, <1>3, <1>4, <1>5, <1>7 DEF ScanAt

\* What a scan comes to depends on the link and the bytes alone.
LEMMA ScanKept ==
  ASSUME link' = link, NEW b, NEW stale
  PROVE  Scan(b, stale)' = Scan(b, stale)
<1>1. \A f : [o \in 0..Len(b) |-> ScanAt(f, b, o, stale)]'
            = [o \in 0..Len(b) |-> ScanAt(f, b, o, stale)]
  BY TurnKept
<1>2. ScanFrom(b, stale)' = ScanFrom(b, stale)
  BY <1>1, Zenon DEF ScanFrom
<1>3. Scan(b, stale) = ScanFrom(b, stale)[0] /\ Scan(b, stale)' = ScanFrom(b, stale)'[0]
  BY DEF Scan, ScanFrom
<1> QED BY <1>2, <1>3

\* From o on, b has the bytes that c has from p on, as far as b goes.
Agree(b, o, c, p) ==
  /\ Len(b) - o <= Len(c) - p
  /\ \A i \in 1..(Len(b) - o) : b[o + i] = c[p + i]

\* Parts of buffers that agree are the same.
LEMMA PartSame ==
  ASSUME NEW b \in Seq(Byte), NEW c \in Seq(Byte), NEW o \in 0..Len(b), NEW p \in 0..Len(c),
         Agree(b, o, c, p), NEW i \in Nat, i >= 1, NEW j \in Int, j <= Len(b) - o
  PROVE  SubSeq(b, o + i, o + j) = SubSeq(c, p + i, p + j)
<1> DEFINE s == SubSeq(b, o + i, o + j)
           t == SubSeq(c, p + i, p + j)
<1>1. /\ Len(b) \in Nat /\ Len(c) \in Nat /\ Len(b) - o <= Len(c) - p
      /\ \A k \in 1..(Len(b) - o) : b[o + k] = c[p + k]
  BY BytesOf DEF Agree
<1>2. /\ o + i \in Nat /\ o + i >= 1 /\ o + j \in Int /\ o + j <= Len(b)
      /\ p + i \in Nat /\ p + i >= 1 /\ p + j \in Int /\ p + j <= Len(c)
      /\ (o + j) - (o + i) + 1 = j - i + 1 /\ (p + j) - (p + i) + 1 = j - i + 1
      /\ o + i <= o + j <=> i <= j
      /\ p + i <= p + j <=> i <= j
  BY <1>1
<1>3. /\ s \in Seq(Byte) /\ Len(s) = IF i <= j THEN j - i + 1 ELSE 0
      /\ \A k \in 1..(j - i + 1) : s[k] = b[o + i + k - 1]
  BY <1>2, PartOf
<1>4. /\ t \in Seq(Byte) /\ Len(t) = IF i <= j THEN j - i + 1 ELSE 0
      /\ \A k \in 1..(j - i + 1) : t[k] = c[p + i + k - 1]
  BY <1>2, PartOf
<1> HIDE DEF s, t
<1>5. ASSUME NEW k \in 1..Len(s) PROVE s[k] = t[k]
  <2>1. k \in 1..(j - i + 1)
    BY <1>3
  <2>2. (i + k - 1) \in 1..(Len(b) - o)
    BY <1>1, <2>1
  <2>3. b[o + (i + k - 1)] = c[p + (i + k - 1)]
    BY <1>1, <2>2
  <2>4. o + (i + k - 1) = o + i + k - 1 /\ p + (i + k - 1) = p + i + k - 1
    BY <2>1
  <2> QED BY <1>3, <1>4, <2>1, <2>3, <2>4
<1>6. s = t
  BY <1>3, <1>4, <1>5, SeqEqual
<1> QED BY <1>6 DEF s, t

\* Bytes of buffers that agree are the same.
LEMMA ByteSame ==
  ASSUME NEW b \in Seq(Byte), NEW c \in Seq(Byte), NEW o \in 0..Len(b), NEW p \in 0..Len(c),
         Agree(b, o, c, p), NEW i \in Nat, i < Len(b) - o
  PROVE  At(b, o + i) = At(c, p + i)
<1>1. i + 1 \in 1..(Len(b) - o) /\ (o + i) + 1 = o + (i + 1) /\ (p + i) + 1 = p + (i + 1)
  BY BytesOf
<1>2. b[o + (i + 1)] = c[p + (i + 1)]
  BY <1>1 DEF Agree
<1> QED BY <1>1, <1>2 DEF At

\* Buffers that agree have the same head there, and the same length.
LEMMA HeadSame ==
  ASSUME link \in Links, NEW b \in Seq(Byte), NEW c \in Seq(Byte),
         NEW o \in 0..Len(b), NEW p \in 0..Len(c),
         Agree(b, o, c, p), ~(Len(b) - o < PROTOCOL_HEAD)
  PROVE  /\ ~(Len(c) - p < PROTOCOL_HEAD)
         /\ IsHead(b, o) = IsHead(c, p)
         /\ Total(b, o) = Total(c, p)
         /\ TooLarge(b, o) = TooLarge(c, p)
<1>1. /\ Len(b) \in Nat /\ Len(c) \in Nat /\ PROTOCOL_HEAD \in 7..11
      /\ Len(b) - o <= Len(c) - p
  BY BytesOf, HeadSizes DEF Agree
<1>2. \A i \in 0..6 : i \in Nat /\ i < Len(b) - o
  BY <1>1
<1>3. \A i \in 0..6 : At(b, o + i) = At(c, p + i)
  BY <1>2, ByteSame
<1>4. /\ At(b, o) = At(c, p) /\ At(b, o + 1) = At(c, p + 1)
      /\ At(b, o + 4) = At(c, p + 4) /\ At(b, o + 5) = At(c, p + 5)
  <2>1. o + 0 = o /\ p + 0 = p
    BY <1>1
  <2>2. 0 \in 0..6 /\ 1 \in 0..6 /\ 4 \in 0..6 /\ 5 \in 0..6
    OBVIOUS
  <2> QED BY <1>3, <2>1, <2>2
<1>5. IsHead(b, o) = IsHead(c, p)
  BY <1>4 DEF IsHead
<1>6. Total(b, o) = Total(c, p)
  BY <1>4 DEF Total
<1>7. TooLarge(b, o) = TooLarge(c, p)
  BY <1>6 DEF TooLarge
<1>8. ~(Len(c) - p < PROTOCOL_HEAD)
  BY <1>1
<1> QED BY <1>5, <1>6, <1>7, <1>8

\* A frame that is whole is the same frame with more bytes behind it.
LEMMA WholeSame ==
  ASSUME link \in Links, NEW b \in Seq(Byte), NEW c \in Seq(Byte),
         NEW o \in 0..Len(b), NEW p \in 0..Len(c), Agree(b, o, c, p), Whole(b, o)
  PROVE  Whole(c, p) /\ Handled(b, o) = Handled(c, p)
<1>1. /\ ~(Len(c) - p < PROTOCOL_HEAD) /\ Total(b, o) = Total(c, p)
      /\ ~(Len(b) - o < Total(b, o)) /\ Total(b, o) # 0
  BY HeadSame DEF Whole
<1>2. /\ Len(b) \in Nat /\ Len(c) \in Nat /\ Len(b) - o <= Len(c) - p /\ Total(b, o) \in Nat
      /\ Len(b) - o >= 7
  BY BytesOf, TotalNat, HeadSizes DEF Whole, Agree
<1>3. Whole(c, p)
  BY <1>1, <1>2 DEF Whole
<1>4. \A i \in 0..6 : i \in Nat /\ i < Len(b) - o
  BY <1>2
<1>5. \A i \in 0..6 : At(b, o + i) = At(c, p + i)
  BY <1>4, ByteSame
<1>6. /\ At(b, o + 2) = At(c, p + 2) /\ At(b, o + 3) = At(c, p + 3)
      /\ At(b, o + 4) = At(c, p + 4) /\ At(b, o + 5) = At(c, p + 5)
  <2>1. 2 \in 0..6 /\ 3 \in 0..6 /\ 4 \in 0..6 /\ 5 \in 0..6
    OBVIOUS
  <2> QED BY <1>5, <2>1
<1>7. SubSeq(b, o + 7, o + Total(b, o) - 1) = SubSeq(c, p + 7, p + Total(c, p) - 1)
  <2> DEFINE j == Total(b, o) - 1
  <2>1. j \in Int /\ j <= Len(b) - o
    BY <1>1, <1>2
  <2> HIDE DEF j
  <2>2. SubSeq(b, o + 7, o + j) = SubSeq(c, p + 7, p + j)
    <3>1. \A i \in Nat : i >= 1 => SubSeq(b, o + i, o + j) = SubSeq(c, p + i, p + j)
      BY <2>1, PartSame
    <3>2. 7 \in Nat /\ 7 >= 1
      OBVIOUS
    <3> QED BY <3>1, <3>2, Zenon
  <2>3. o + Total(b, o) - 1 = o + j /\ p + Total(c, p) - 1 = p + j
    BY <1>1, <1>2 DEF j
  <2> QED BY <2>2, <2>3
<1>8. data_handle(b, o) = data_handle(c, p)
  BY <1>6, <1>7 DEF data_handle
<1>9. tds_handle(b, o) = tds_handle(c, p)
  BY <1>6 DEF tds_handle
<1> QED BY <1>3, <1>8, <1>9 DEF Handled

\* A checksum that has arrived is the same with more bytes behind it.
LEMMA SumSame ==
  ASSUME link \in Links, NEW b \in Seq(Byte), NEW c \in Seq(Byte),
         NEW o \in 0..Len(b), NEW p \in 0..Len(c), Agree(b, o, c, p), Whole(b, o),
         NEW s, NEW t, ~SumMissing(b, o)
  PROVE  ~SumMissing(c, p) /\ SumRight(b, o, s) = SumRight(c, p, t)
<1>1. /\ Total(b, o) = Total(c, p)
      /\ ~(Len(b) - o < Total(b, o)) /\ Total(b, o) # 0
  BY HeadSame DEF Whole
<1>2. /\ Len(b) \in Nat /\ Len(c) \in Nat /\ Len(b) - o <= Len(c) - p /\ Total(b, o) \in Nat
  BY BytesOf, TotalNat, HeadSizes DEF Whole, Agree
<1> DEFINE k == SumAt(b, o)
           j == Total(b, o) - 1
<1>3. k \in Nat /\ SumAt(c, p) = k
  BY <1>1, <1>2 DEF SumAt
<1>4. k < Len(b) - o /\ ~(p + k >= Len(c))
  BY <1>2, <1>3 DEF SumMissing
<1>5. j \in Int /\ j <= Len(b) - o
  BY <1>1, <1>2
<1>6. o + Total(b, o) - 1 = o + j /\ p + Total(c, p) - 1 = p + j
  BY <1>1, <1>2
<1> HIDE DEF j, k
<1>7. At(b, o + k) = At(c, p + k)
  BY <1>3, <1>4, ByteSame
<1>8. SubSeq(b, o + 1, o + j) = SubSeq(c, p + 1, p + j)
  <2>1. \A i \in Nat : i >= 1 => SubSeq(b, o + i, o + j) = SubSeq(c, p + i, p + j)
    BY <1>5, PartSame
  <2>2. 1 \in Nat /\ 1 >= 1
    OBVIOUS
  <2> QED BY <2>1, <2>2, Zenon
<1>9. SubSeq(b, o + 1, o + Total(b, o) - 1) = SubSeq(c, p + 1, p + Total(c, p) - 1)
  BY <1>6, <1>8
<1>10. ~SumMissing(c, p)
  BY <1>3, <1>4 DEF SumMissing
<1>11. At(b, o + SumAt(b, o)) = At(c, p + SumAt(c, p))
  BY <1>3, <1>7 DEF k
<1> QED BY <1>9, <1>10, <1>11 DEF SumRight

\* Where the turn at a whole frame goes on, and what it has acted on.
Onward(b, o, stale) == o + (IF SumRight(b, o, stale) THEN Total(b, o) ELSE SkipBad)
Says(b, o, stale) == IF SumRight(b, o, stale) THEN Handled(b, o) ELSE <<>>

\* The turn at a whole frame acts on it and leaves the rest to the turns after it.
LEMMA FrameTurn ==
  ASSUME link \in Links, NEW b \in Seq(Byte), NEW o \in 0..Len(b), NEW stale,
         IsHead(b, o), ~TooLarge(b, o), Whole(b, o)
  PROVE  LET F == ScanFrom(b, stale)
             q == Onward(b, o, stale)
         IN  /\ q \in (o + 1)..Len(b) /\ Says(b, o, stale) \in Seq(Saying)
             /\ F[o].used = F[q].used /\ F[o].crash = F[q].crash
             /\ F[o].said = Says(b, o, stale) \o F[q].said
             /\ ~F[o].missed => ~F[q].missed
             /\ ~F[o].missed => ~SumMissing(b, o)
<1> DEFINE F == ScanFrom(b, stale)
           q == Onward(b, o, stale)
           h == Says(b, o, stale)
           missed == SumMissing(b, o) \/ Contains(h, Behind) \/ F[q].missed
<1>1. F[o] = ScanAt(F, b, o, stale)
  BY ScanEquation
<1>2. q \in (o + 1)..Len(b)
  BY TurnsAhead DEF Whole, Onward
<1>3. h \in Seq(Saying)
  BY HandledSays, EmptySeq DEF Says
<1> HIDE DEF F
<1>4. F[o] = Result(F[q].used, h \o F[q].said, missed, F[q].crash)
  BY <1>1, TurnCases DEF Whole, Onward, Says
<1> HIDE DEF h, q
<1>5. /\ F[o].used = F[q].used /\ F[o].said = h \o F[q].said
      /\ F[o].crash = F[q].crash /\ F[o].missed = missed
  <2> HIDE DEF missed
  <2> QED BY <1>4 DEF Result
<1>6. ~F[o].missed => ~F[q].missed /\ ~SumMissing(b, o)
  BY <1>5, Zenon
<1> HIDE DEF missed
<1> QED BY <1>2, <1>3, <1>5, <1>6 DEF h, F, q

\* The fields of a result.
LEMMA ScanFields ==
  ASSUME link \in Links, NEW b \in Seq(Byte), NEW stale, NEW o \in 0..Len(b)
  PROVE  /\ ScanFrom(b, stale)[o].used \in 0..Len(b)
         /\ ScanFrom(b, stale)[o].said \in Seq(Saying)
<1> DEFINE r == ScanFrom(b, stale)[o]
<1>1. r \in Scanned(Len(b), o)
  BY ScanType
<1> HIDE DEF r
<1>2. r.used \in o..Len(b) /\ r.said \in Seq(Saying)
  BY <1>1 DEF Scanned
<1>3. r.used \in 0..Len(b)
  BY <1>2, BytesOf
<1> QED BY <1>2, <1>3 DEF r

\* What a pass leaves in the buffer b, and what is said after its result.
Left(b, r) == SubSeq(b, r.used + 1, Len(b))
After(r, said) == IF r.crash THEN <<>> ELSE said
Then(r, said) == r.said \o After(r, said)
GoesOn(b, s, c, t, o) ==
  ~ScanFrom(b, s)[o].missed =>
    ScanFrom(c, t)[o].said =
      ScanFrom(b, s)[o].said
        \o After(ScanFrom(b, s)[o], ScanFrom(c, t)[ScanFrom(b, s)[o].used].said)

\* A scan of more bytes comes to the same as a scan of the first ones and then one
\* that goes on where that has got to.
LEMMA ScanOfPrefix ==
  ASSUME link \in Links, NEW b \in Seq(Byte), NEW c \in Seq(Byte), Agree(b, 0, c, 0),
         NEW s, NEW t
  PROVE  \A o \in 0..Len(b) : GoesOn(b, s, c, t, o)
<1> DEFINE n == Len(b)
           F == ScanFrom(b, s)
           G == ScanFrom(c, t)
           X(r) == After(r, G[r.used].said)
           S == {o \in 0..n : GoesOn(b, s, c, t, o)}
<1>0. Len(b) <= Len(c) /\ \A i \in 1..Len(b) : b[i] = c[i]
  BY BytesOf DEF Agree
<1>1. n \in Nat /\ Len(c) \in Nat /\ n <= Len(c)
  BY <1>0, BytesOf
<1>2. ASSUME NEW o \in 0..n, \A p \in (o + 1)..n : p \in S, ~F[o].missed
      PROVE  G[o].said = F[o].said \o X(F[o])
  <2>1. o \in 0..Len(c) /\ Agree(b, o, c, o)
    BY <1>0, <1>1 DEF Agree
  <2>2. F[o] = ScanAt(F, b, o, s) /\ G[o] = ScanAt(G, c, o, t)
    BY <2>1, ScanEquation
  <2>3. F[o].said \in Seq(Saying) /\ G[o].said \in Seq(Saying) /\ X(F[o]) \in Seq(Saying)
    <3>1. F[o].used \in 0..Len(c)
      BY <1>1, ScanFields
    <3> QED BY <2>1, <3>1, ScanFields, EmptySeq DEF After
  <2>4. ASSUME NEW p \in (o + 1)..n, ~F[p].missed PROVE G[p].said = F[p].said \o X(F[p])
    BY <1>2, <2>4 DEF GoesOn
  <2>0. ~F[o].missed
    BY <1>2
  <2> HIDE DEF F, G
  <2>5. CASE F[o] = Result(o, <<>>, FALSE, FALSE)
    <3>1. F[o].used = o /\ F[o].said = <<>> /\ ~F[o].crash
      BY <2>5 DEF Result
    <3> QED BY <2>3, <3>1, ConcatEmptySeq DEF After
  <2>6. CASE n - o < PROTOCOL_HEAD
    BY <2>2, <2>5, <2>6, TurnCases
  <2>7. CASE ~(n - o < PROTOCOL_HEAD)
    <3>1. /\ ~(Len(c) - o < PROTOCOL_HEAD)
          /\ IsHead(b, o) = IsHead(c, o) /\ Total(b, o) = Total(c, o)
          /\ TooLarge(b, o) = TooLarge(c, o)
      BY <2>1, <2>7, HeadSame
    <3>2. CASE ~IsHead(b, o)
      <4>1. F[o] = F[o + 1] /\ G[o] = G[o + 1]
        BY <2>2, <2>7, <3>1, <3>2, TurnCases
      <4>2. o + 1 \in (o + 1)..n
        BY <2>7, TurnsAhead
      <4> QED BY <2>0, <2>4, <4>1, <4>2
    <3>3. CASE IsHead(b, o) /\ TooLarge(b, o)
      <4>1. F[o] = F[o + SkipLarge] /\ G[o] = G[o + SkipLarge]
        BY <2>2, <2>7, <3>1, <3>3, TurnCases
      <4>2. o + SkipLarge \in (o + 1)..n
        BY <2>7, TurnsAhead
      <4> QED BY <2>0, <2>4, <4>1, <4>2
    <3>4. CASE IsHead(b, o) /\ ~TooLarge(b, o) /\ n - o < Total(b, o)
      BY <2>2, <2>5, <2>7, <3>4, TurnCases
    <3>5. CASE IsHead(b, o) /\ ~TooLarge(b, o) /\ ~(n - o < Total(b, o)) /\ Total(b, o) = 0
      <4>1. ~(Len(c) - o < Total(c, o)) /\ Total(c, o) = 0
        BY <1>1, <2>1, <3>1, <3>5
      <4>2. F[o] = Result(o, <<>>, FALSE, TRUE) /\ G[o] = Result(o, <<>>, FALSE, TRUE)
        BY <2>2, <2>7, <3>1, <3>5, <4>1, TurnCases
      <4>3. F[o].said = <<>> /\ F[o].crash /\ G[o].said = <<>>
        BY <4>2 DEF Result
      <4> QED BY <2>3, <4>3, ConcatEmptySeq DEF After
    <3>6. CASE IsHead(b, o) /\ ~TooLarge(b, o) /\ Whole(b, o)
      <4> DEFINE q == Onward(b, o, s)
                 h == Says(b, o, s)
      <4>1. /\ q \in (o + 1)..n /\ h \in Seq(Saying)
            /\ F[o].used = F[q].used /\ F[o].said = h \o F[q].said
            /\ F[o].crash = F[q].crash
            /\ ~F[q].missed /\ ~SumMissing(b, o)
        BY <2>0, <3>6, FrameTurn DEF F
      <4>2. Whole(c, o) /\ Handled(b, o) = Handled(c, o)
        BY <2>1, <3>6, WholeSame
      <4>3. SumRight(b, o, s) = SumRight(c, o, t)
        BY <2>1, <3>6, <4>1, SumSame
      <4>4. G[o].said = h \o G[q].said
        <5>1. Onward(c, o, t) = q /\ Says(c, o, t) = h
          BY <3>1, <4>2, <4>3 DEF Onward, Says
        <5>2. G[o].said = Says(c, o, t) \o G[Onward(c, o, t)].said
          BY <2>1, <3>1, <3>6, <4>2, FrameTurn DEF G
        <5> QED BY <5>1, <5>2
      <4> HIDE DEF q, h
      <4>5. G[q].said = F[q].said \o X(F[q])
        BY <2>4, <4>1
      <4>6. X(F[o]) = X(F[q])
        BY <4>1 DEF After
      <4>7. F[q].said \in Seq(Saying)
        <5>1. q \in 0..n
          BY <1>1, <4>1
        <5>2. ScanFrom(b, s)[q].said \in Seq(Saying)
          BY <5>1, ScanFields
        <5> QED BY <5>2 DEF F
      <4>8. (h \o F[q].said) \o X(F[o]) = h \o (F[q].said \o X(F[o]))
        <5>1. \A x, y, z \in Seq(Saying) : (x \o y) \o z = x \o (y \o z)
          BY ConcatAssociative
        <5> QED BY <2>3, <4>1, <4>7, <5>1
      <4> QED BY <4>1, <4>4, <4>5, <4>6, <4>8
    <3> QED BY <2>7, <3>2, <3>3, <3>4, <3>5, <3>6 DEF Whole
  <2> QED BY <2>6, <2>7
<1>3. ASSUME NEW o \in 0..n, \A p \in (o + 1)..n : p \in S PROVE o \in S
  BY <1>2, <1>3 DEF GoesOn
<1> HIDE DEF S
<1>4. \A o \in 0..n : o \in S
  BY <1>1, <1>3, Downward
<1> QED BY <1>4 DEF S

\* The bytes before the place where a scan starts make no difference to it.
LEMMA ScanOfSuffix ==
  ASSUME link \in Links, NEW c \in Seq(Byte), NEW u \in 0..Len(c), NEW v \in Seq(Byte),
         Agree(v, 0, c, u), Len(v) = Len(c) - u, NEW s
  PROVE  \A o \in 0..Len(v) : ScanFrom(c, s)[u + o].said = ScanFrom(v, s)[o].said
<1> DEFINE n == Len(v)
           F == ScanFrom(v, s)
           G == ScanFrom(c, s)
           S == {o \in 0..n : G[u + o].said = F[o].said}
<1>0. \A i \in 1..Len(v) : v[i] = c[u + i]
  BY BytesOf DEF Agree
<1>1. n \in Nat /\ Len(c) \in Nat /\ n = Len(c) - u
  BY BytesOf
<1>2. ASSUME NEW o \in 0..n, \A p \in (o + 1)..n : p \in S
      PROVE  G[u + o].said = F[o].said
  <2>1. /\ u + o \in 0..Len(c) /\ Len(c) - (u + o) = n - o
        /\ \A i \in 1..(n - o) : v[o + i] = c[(u + o) + i]
    <3>1. u + o \in 0..Len(c) /\ Len(c) - (u + o) = n - o
      BY <1>1
    <3>2. ASSUME NEW i \in 1..(n - o) PROVE v[o + i] = c[(u + o) + i]
      <4>1. o + i \in 1..n /\ u + (o + i) = (u + o) + i
        BY <1>1
      <4> QED BY <1>0, <4>1
    <3> QED BY <3>1, <3>2
  <2> DEFINE p == u + o
  <2>2. p \in 0..Len(c) /\ Len(c) - p = n - o /\ Agree(v, o, c, p)
    BY <1>1, <2>1 DEF Agree
  <2>3. F[o] = ScanAt(F, v, o, s) /\ G[p] = ScanAt(G, c, p, s)
    BY <2>2, ScanEquation
  <2>4. ASSUME NEW k \in Nat, o + k \in (o + 1)..n PROVE G[p + k].said = F[o + k].said
    <3>1. p + k = u + (o + k)
      BY <1>1
    <3> QED BY <1>2, <2>4, <3>1
  <2> HIDE DEF p
  <2>5. SkipLarge \in Nat /\ SkipBad \in Nat /\ 1 \in Nat
    BY HeadSizes
  <2>6. CASE n - o < PROTOCOL_HEAD
    <3>1. F[o] = Result(o, <<>>, FALSE, FALSE) /\ G[p] = Result(p, <<>>, FALSE, FALSE)
      <4> HIDE DEF F, G
      <4> QED BY <2>2, <2>3, <2>6, TurnCases
    <3>2. F[o].said = <<>> /\ G[p].said = <<>>
      <4> HIDE DEF F, G
      <4> QED BY <3>1 DEF Result
    <3> QED BY <3>2 DEF p
  <2>7. CASE ~(n - o < PROTOCOL_HEAD)
    <3>1. /\ ~(Len(c) - p < PROTOCOL_HEAD)
          /\ IsHead(v, o) = IsHead(c, p) /\ Total(v, o) = Total(c, p)
          /\ TooLarge(v, o) = TooLarge(c, p)
      BY <2>2, <2>7, HeadSame
    <3>2. /\ o + 1 \in (o + 1)..n /\ o + SkipLarge \in (o + 1)..n
          /\ Total(v, o) \in Nat
      BY <2>7, TurnsAhead, TotalNat
    <3> HIDE DEF F, G
    <3>3. CASE ~IsHead(v, o)
      <4>1. F[o] = F[o + 1] /\ G[p] = G[p + 1]
        <5>1. ~IsHead(c, p)
          BY <3>1, <3>3
        <5>2. F[o] = F[o + 1]
          BY <2>3, <2>7, <3>3, TurnCases
        <5>3. G[p] = G[p + 1]
          BY <2>3, <3>1, <5>1, TurnCases
        <5> QED BY <5>2, <5>3
      <4> QED BY <2>4, <2>5, <3>2, <4>1 DEF p
    <3>4. CASE IsHead(v, o) /\ TooLarge(v, o)
      <4>1. F[o] = F[o + SkipLarge] /\ G[p] = G[p + SkipLarge]
        BY <2>3, <2>7, <3>1, <3>4, TurnCases
      <4> QED BY <2>4, <2>5, <3>2, <4>1 DEF p
    <3>5. CASE IsHead(v, o) /\ ~TooLarge(v, o) /\ ~Whole(v, o)
      <4>1. \/ Len(c) - p < Total(c, p)
            \/ ~(Len(c) - p < Total(c, p)) /\ Total(c, p) = 0
        BY <2>2, <2>7, <3>1, <3>5 DEF Whole
      <4>2. /\ \/ F[o] = Result(o, <<>>, FALSE, FALSE) \/ F[o] = Result(o, <<>>, FALSE, TRUE)
            /\ \/ G[p] = Result(p, <<>>, FALSE, FALSE) \/ G[p] = Result(p, <<>>, FALSE, TRUE)
        BY <2>2, <2>3, <2>7, <3>1, <3>5, <4>1, TurnCases
      <4>3. F[o].said = <<>> /\ G[p].said = <<>>
        BY <4>2 DEF Result
      <4> QED BY <4>3 DEF p
    <3>6. CASE IsHead(v, o) /\ ~TooLarge(v, o) /\ Whole(v, o)
      <4>1. Whole(c, p) /\ Handled(v, o) = Handled(c, p)
        BY <2>2, <3>6, WholeSame
      <4>2. SumMissing(v, o) = SumMissing(c, p)
        <5>1. SumAt(v, o) = SumAt(c, p) /\ SumAt(v, o) \in Int
          BY <3>1, <3>2 DEF SumAt
        <5> QED BY <1>1, <2>2, <5>1 DEF SumMissing
      <4>3. SumRight(v, o, s) = SumRight(c, p, s)
        <5>1. CASE SumMissing(v, o)
          BY <4>2, <5>1 DEF SumRight
        <5>2. CASE ~SumMissing(v, o)
          BY <2>2, <3>6, <5>2, SumSame
        <5> QED BY <5>1, <5>2
      <4> DEFINE k == IF SumRight(v, o, s) THEN Total(v, o) ELSE SkipBad
                 h == Says(v, o, s)
      <4>4. Onward(v, o, s) = o + k /\ Onward(c, p, s) = p + k /\ Says(c, p, s) = h
        BY <3>1, <4>1, <4>3 DEF Onward, Says
      <4>5. k \in Nat
        BY <2>5, <3>2
      <4> HIDE DEF k, h
      <4>6. o + k \in (o + 1)..n /\ F[o].said = h \o F[o + k].said
        <5>1. /\ Onward(v, o, s) \in (o + 1)..n
              /\ F[o].said = Says(v, o, s) \o F[Onward(v, o, s)].said
          BY <3>6, FrameTurn DEF F
        <5> QED BY <4>4, <5>1 DEF h
      <4>7. G[p].said = h \o G[p + k].said
        <5>1. G[p].said = Says(c, p, s) \o G[Onward(c, p, s)].said
          BY <2>2, <3>1, <3>6, <4>1, FrameTurn DEF G
        <5> QED BY <5>1, <4>4
      <4>8. G[p + k].said = F[o + k].said
        BY <2>4, <4>5, <4>6
      <4> QED BY <4>6, <4>7, <4>8 DEF p
    <3> QED BY <3>3, <3>4, <3>5, <3>6
  <2> QED BY <2>6, <2>7
<1>3. ASSUME NEW o \in 0..n, \A p \in (o + 1)..n : p \in S PROVE o \in S
  BY <1>2, <1>3
<1> HIDE DEF S
<1>4. \A o \in 0..n : o \in S
  BY <1>1, <1>3, Downward
<1> QED BY <1>4 DEF S

\* What a pass leaves of its bytes, and those behind them.
Leaves(b, u, rest, d) ==
  /\ d \in Seq(Byte) /\ Len(d) = Len(b) - u
  /\ d \o rest \in Seq(Byte) /\ Len(d \o rest) = Len(b \o rest) - u
  /\ Agree(d \o rest, 0, b \o rest, u)

LEMMA RestOf ==
  ASSUME NEW b \in Seq(Byte), NEW rest \in Seq(Byte), NEW u \in 0..Len(b)
  PROVE  Leaves(b, u, rest, SubSeq(b, u + 1, Len(b)))
<1> DEFINE c == b \o rest
           d == SubSeq(b, u + 1, Len(b))
           v == d \o rest
<1>1. /\ c \in Seq(Byte) /\ Len(c) = Len(b) + Len(rest)
      /\ \A i \in 1..Len(b) + Len(rest) :
           c[i] = IF i <= Len(b) THEN b[i] ELSE rest[i - Len(b)]
  BY ConcatProperties
<1>2. Len(b) \in Nat /\ Len(rest) \in Nat
  BY BytesOf
<1> HIDE DEF c
<1>3. /\ d \in Seq(Byte) /\ Len(d) = Len(b) - u
      /\ \A i \in 1..(Len(b) - u) : d[i] = b[u + i]
  <2>1. u + 1 \in Nat /\ u + 1 >= 1 /\ Len(b) \in Int /\ Len(b) <= Len(b)
    BY <1>2
  <2>2. /\ d \in Seq(Byte)
        /\ Len(d) = IF u + 1 <= Len(b) THEN Len(b) - (u + 1) + 1 ELSE 0
        /\ \A i \in 1..(Len(b) - (u + 1) + 1) : d[i] = b[(u + 1) + i - 1]
    BY <2>1, PartOf
  <2> HIDE DEF d
  <2>3. Len(d) = Len(b) - u
    BY <1>2, <2>2
  <2>4. ASSUME NEW i \in 1..(Len(b) - u) PROVE d[i] = b[u + i]
    <3>1. i \in 1..(Len(b) - (u + 1) + 1) /\ (u + 1) + i - 1 = u + i
      BY <1>2
    <3>2. d[i] = b[(u + 1) + i - 1]
      BY <2>2, <3>1
    <3> QED BY <3>1, <3>2
  <2> QED BY <2>2, <2>3, <2>4
<1> HIDE DEF d
<1>4. /\ v \in Seq(Byte) /\ Len(v) = Len(d) + Len(rest)
      /\ \A i \in 1..Len(d) + Len(rest) :
           v[i] = IF i <= Len(d) THEN d[i] ELSE rest[i - Len(d)]
  BY <1>3, ConcatProperties
<1> HIDE DEF v
<1>5. Len(v) = Len(c) - u
  BY <1>1, <1>2, <1>3, <1>4
<1>6. ASSUME NEW i \in 1..Len(v) PROVE v[i] = c[u + i]
  <2>1. /\ i \in 1..(Len(d) + Len(rest)) /\ u + i \in 1..(Len(b) + Len(rest))
        /\ i <= Len(d) <=> u + i <= Len(b)
        /\ i - Len(d) = (u + i) - Len(b)
    BY <1>2, <1>3, <1>4
  <2>2. v[i] = IF i <= Len(d) THEN d[i] ELSE rest[i - Len(d)]
    BY <1>4, <2>1
  <2>3. c[u + i] = IF u + i <= Len(b) THEN b[u + i] ELSE rest[(u + i) - Len(b)]
    BY <1>1, <2>1
  <2>4. i <= Len(d) => d[i] = b[u + i]
    BY <1>3, <2>1
  <2> QED BY <2>1, <2>2, <2>3, <2>4
<1>7. Agree(v, 0, c, u)
  BY <1>1, <1>2, <1>4, <1>5, <1>6, BytesOf DEF Agree
<1> QED BY <1>3, <1>4, <1>5, <1>7 DEF Leaves, v, c, d

\* The whole scan in two: the first bytes, and what they leave with the others.
LEMMA ScanInTwo ==
  ASSUME link \in Links, NEW b \in Seq(Byte), NEW rest \in Seq(Byte), NEW s, NEW t,
         ~Scan(b, s).missed
  PROVE  Scan(b \o rest, t).said =
           Then(Scan(b, s), Scan(Left(b, Scan(b, s)) \o rest, t).said)
<1> DEFINE r == Scan(b, s)
           c == b \o rest
           v == Left(b, r) \o rest
<1>1. /\ c \in Seq(Byte) /\ Len(c) = Len(b) + Len(rest)
      /\ \A i \in 1..Len(b) + Len(rest) :
           c[i] = IF i <= Len(b) THEN b[i] ELSE rest[i - Len(b)]
  BY ConcatProperties
<1>2. Len(b) \in Nat /\ Len(rest) \in Nat
  BY BytesOf
<1>0. ~r.missed
  OBVIOUS
<1>3. r = ScanFrom(b, s)[0] /\ Scan(c, t) = ScanFrom(c, t)[0] /\ Scan(v, t) = ScanFrom(v, t)[0]
  BY ScanIsFrom
<1> HIDE DEF c, r
<1>4. r.used \in 0..Len(b)
  <2>1. 0 \in 0..Len(b)
    BY <1>2
  <2> QED BY <1>3, <2>1, ScanFields
<1>5. Len(b) <= Len(c) /\ Agree(b, 0, c, 0)
  BY <1>1, <1>2 DEF Agree
<1>6. Scan(c, t).said = r.said \o After(r, ScanFrom(c, t)[r.used].said)
  <2>1. 0 \in 0..Len(b) /\ c \in Seq(Byte)
    BY <1>1, <1>2
  <2>2. GoesOn(b, s, c, t, 0)
    BY <1>5, <2>1, ScanOfPrefix
  <2> QED BY <1>0, <1>3, <2>2 DEF GoesOn
<1>7. v \in Seq(Byte) /\ Len(v) = Len(c) - r.used /\ Agree(v, 0, c, r.used)
  <2>1. Leaves(b, r.used, rest, Left(b, r))
    BY <1>4, RestOf DEF Left
  <2> QED BY <2>1 DEF Leaves, c
<1> HIDE DEF v
<1>9. ScanFrom(c, t)[r.used].said = Scan(v, t).said
  <2>1. r.used \in 0..Len(c) /\ r.used + 0 = r.used /\ 0 \in 0..Len(v)
    BY <1>1, <1>2, <1>4, <1>7
  <2>2. \A o \in 0..Len(v) : ScanFrom(c, t)[r.used + o].said = ScanFrom(v, t)[o].said
    <3>1. c \in Seq(Byte) /\ v \in Seq(Byte) /\ Len(v) = Len(c) - r.used
      BY <1>1, <1>7
    <3>2. \A z \in 0..Len(c), w \in Seq(Byte) :
            Agree(w, 0, c, z) /\ Len(w) = Len(c) - z =>
              \A o \in 0..Len(w) : ScanFrom(c, t)[z + o].said = ScanFrom(w, t)[o].said
      BY <3>1, ScanOfSuffix
    <3>3. Agree(v, 0, c, r.used) /\ Len(v) = Len(c) - r.used =>
              \A o \in 0..Len(v) : ScanFrom(c, t)[r.used + o].said = ScanFrom(v, t)[o].said
      BY <2>1, <3>1, <3>2, Zenon
    <3> QED BY <1>7, <3>1, <3>3
  <2>3. ScanFrom(c, t)[r.used + 0].said = ScanFrom(v, t)[0].said
    BY <2>1, <2>2
  <2> QED BY <1>3, <2>1, <2>3
<1> QED BY <1>6, <1>9 DEF c, v, r, Then

\* A pass changes neither what was acted on nor what will be.
LEMMA PassKeepsOutlook ==
  ASSUME FrameTypeOK, NEW k \in Arrived, NEW stale, Pass(k, stale), ~early'
  PROVE  Outlook' = Outlook
<1>1. PICK b \in Seq(Byte), rest \in Seq(Byte) :
        /\ buf \o wire = b \o rest
        /\ LET r == Scan(b, stale) IN
              /\ r \in Scanned(Len(b), 0)
              /\ wire' = rest /\ buf' = SubSeq(b, r.used + 1, Len(b))
              /\ heard' = heard \o r.said /\ early' = (early \/ r.missed)
              /\ halted' = r.crash /\ ~halted /\ link' = link
  BY PassIs
<1> DEFINE r == Scan(b, stale)
<1>2. /\ buf \o wire = b \o rest /\ r \in Scanned(Len(b), 0)
      /\ wire' = rest /\ buf' = SubSeq(b, r.used + 1, Len(b))
      /\ heard' = heard \o r.said /\ halted' = r.crash /\ ~halted /\ link' = link
      /\ early' = (early \/ r.missed)
  BY <1>1
<1>3. r = Scan(b, stale) /\ link \in Links /\ heard \in Seq(Saying)
  BY DEF FrameTypeOK
<1> HIDE DEF r
<1>4. ~r.missed
  BY <1>2, Zenon
<1>5. r.said \in Seq(Saying) /\ r.used \in 0..Len(b)
  BY <1>2 DEF Scanned
<1> DEFINE v == Left(b, r) \o rest
           x == After(r, Scan(v, FALSE).said)
<1>6. Scan(b \o rest, FALSE).said = r.said \o x
  <2>1. ~Scan(b, stale).missed /\ link \in Links
    BY <1>3, <1>4
  <2>2. \A t : Scan(b \o rest, t).said =
                 Then(Scan(b, stale), Scan(Left(b, Scan(b, stale)) \o rest, t).said)
    BY <2>1, ScanInTwo
  <2>3. Scan(b \o rest, FALSE).said =
          Then(Scan(b, stale), Scan(Left(b, Scan(b, stale)) \o rest, FALSE).said)
    BY <2>2, Zenon
  <2> QED BY <1>3, <2>3 DEF Then
<1>7. v \in Seq(Byte)
  <2>1. r.used + 1 \in Nat /\ r.used + 1 >= 1 /\ Len(b) \in Int /\ Len(b) <= Len(b)
    BY <1>5, BytesOf
  <2>2. SubSeq(b, r.used + 1, Len(b)) \in Seq(Byte)
    BY <2>1, PartOf
  <2> QED BY <2>2, ConcatProperties DEF Left
<1> HIDE DEF v
<1>8. x \in Seq(Saying)
  <2>1. 0 \in 0..Len(v)
    BY <1>7, BytesOf
  <2>2. ScanFrom(v, FALSE)[0].said \in Seq(Saying)
    BY <1>3, <1>7, <2>1, ScanFields
  <2> QED BY <2>2, ScanIsFrom, EmptySeq DEF After
<1>9. Outlook = heard \o (r.said \o x)
  BY <1>2, <1>6 DEF Outlook
<1>10. Scan(buf \o wire, FALSE)' = Scan(v, FALSE)
  <2>1. buf' \o wire' = v
    BY <1>2 DEF v, Left
  <2>2. \A w : Scan(w, FALSE)' = Scan(w, FALSE)
    BY <1>2, ScanKept
  <2> QED BY <2>1, <2>2
<1>11. Outlook' = (heard \o r.said) \o x
  BY <1>2, <1>10 DEF Outlook, After
<1> HIDE DEF x
<1>12. \A p, q, z \in Seq(Saying) : (p \o q) \o z = p \o (q \o z)
  BY ConcatAssociative
<1> QED BY <1>3, <1>5, <1>8, <1>9, <1>11, <1>12

\* Nor does any step.
LEMMA NextKeepsOutlook ==
  ASSUME FrameTypeOK, [FrameNext]_parser PROVE [early' \/ Outlook' = Outlook]_parser
<1>1. CASE wifi_uart_service
  BY <1>1, PassKeepsOutlook DEF wifi_uart_service
<1>2. CASE tds_uart_service
  BY <1>2, PassKeepsOutlook DEF tds_uart_service
<1> QED BY <1>1, <1>2 DEF FrameNext

\* How the bytes of the line fall into the passes of wifi_uart_service and
\* tds_uart_service makes no difference to what data_handle and tds_handle are given:
\* the parser may be cut off between any two bytes.  For every sequence of bytes and
\* every size of the buffer.
THEOREM CutsNeverMatter == FrameSpec => CutsMakeNoDifference
<1>1. FrameTypeOK /\ [FrameNext]_parser => [early' \/ Outlook' = Outlook]_parser
  BY NextKeepsOutlook
<1> QED BY <1>1, FramesSafe, PTL DEF FrameSpec, CutsMakeNoDifference

-----------------------------------------------------------------------------
(* A line without noise.                                                    *)

\* What a frame of the Wi-Fi module means; a stray byte means nothing.
Meaning(f) ==
  LET data == SubSeq(f, 7, Len(f) - 1)
  IN  IF Len(f) < 7 THEN <<>>
      ELSE IF Len(f) - 7 < Reads(f[4], Len(f) - 7) THEN <<Behind>>
      ELSE IF f[4] = DATA_ISSUED_CMD THEN Points(data)
      ELSE IF f[4] \in Commands THEN << <<f[4]>> \o data >> ELSE <<>>

\* A frame as the Wi-Fi module sends it: it fits the buffer, and has a head, its length,
\* a checksum and the data that its command reads.
GoodFrame(f) ==
  /\ f \in Seq(Byte) /\ Len(f) \in 7..BufSize /\ Len(f) < 65536
  /\ f[1] = FRAME_FIRST /\ f[2] = FRAME_SECOND
  /\ 256 * f[5] + f[6] + 7 = Len(f)
  /\ get_check_sum(SubSeq(f, 1, Len(f) - 1)) = f[Len(f)]
  /\ ~Contains(Meaning(f), Behind)

\* A byte between two frames that is no head.
Stray(f) == f \in Seq(Byte) /\ Len(f) = 1 /\ f[1] # FRAME_FIRST

\* A good frame is made of bytes, and none of its points reaches behind it.
LEMMA GoodParts ==
  ASSUME NEW f, GoodFrame(f)
  PROVE  f \in Seq(Byte) /\ ~Contains(Meaning(f), Behind)
<1>1. f \in Seq(Byte)
  BY SMT DEF GoodFrame
<1>2. ~Contains(Meaning(f), Behind)
  BY SMT DEF GoodFrame
<1> QED BY <1>1, <1>2, Zenon

\* The parser finds in a good frame what it says.
LEMMA GoodIsWhole ==
  ASSUME link = "wifi", NEW f, GoodFrame(f), NEW s
  PROVE  /\ PROTOCOL_HEAD = 7 /\ link \in Links /\ 0 \in 0..Len(f)
         /\ IsHead(f, 0) /\ Total(f, 0) = Len(f) /\ ~TooLarge(f, 0) /\ Whole(f, 0)
         /\ ~SumMissing(f, 0) /\ SumRight(f, 0, s)
         /\ Handled(f, 0) = Meaning(f)
<1>1. PROTOCOL_HEAD = 7 /\ link \in Links
  BY DEF PROTOCOL_HEAD, Links
<1>2. f \in Seq(Byte) /\ Len(f) \in Nat /\ Len(f) >= 7 /\ Len(f) < 65536
  BY BytesOf, FrameAssumption DEF GoodFrame
<1>3. IsHead(f, 0)
  BY DEF IsHead, At, GoodFrame
<1>4. Total(f, 0) = Len(f)
  <2>1. f[5] \in Nat /\ f[6] \in Nat
    BY <1>2, BytesOf
  <2>2. \A z \in Nat : z < 65536 => z % 65536 = z
    OBVIOUS
  <2>3. 256 * f[5] + f[6] + 7 = Len(f) /\ Len(f) % 65536 = Len(f)
    <3>1. 256 * f[5] + f[6] + 7 = Len(f)
      BY DEF GoodFrame
    <3> QED BY <1>2, <2>2, <3>1
  <2> QED BY <1>1, <2>3 DEF Total, At
<1>5. ~TooLarge(f, 0)
  BY <1>2, <1>4, FrameAssumption DEF TooLarge, GoodFrame
<1>6. Whole(f, 0)
  BY <1>1, <1>2, <1>4 DEF Whole
<1>7. SumAt(f, 0) = Len(f) - 1
  BY <1>4 DEF SumAt
<1>8. ~SumMissing(f, 0)
  BY <1>2, <1>7 DEF SumMissing
<1>9. SumRight(f, 0, s)
  <2>1. 0 + Total(f, 0) - 1 = Len(f) - 1 /\ 0 + SumAt(f, 0) = Len(f) - 1 /\ 0 + 1 = 1
        /\ (Len(f) - 1) + 1 = Len(f)
    BY <1>2, <1>4, <1>7
  <2>2. At(f, 0 + SumAt(f, 0)) = f[Len(f)]
    BY <2>1 DEF At
  <2> QED BY <1>8, <2>1, <2>2 DEF SumRight, GoodFrame
<1>10. Handled(f, 0) = Meaning(f)
  <2> DEFINE data == SubSeq(f, 7, Len(f) - 1)
  <2>1. 0 + 7 = 7 /\ 0 + Total(f, 0) - 1 = Len(f) - 1 /\ At(f, 0 + 3) = f[4]
        /\ 256 * At(f, 0 + 4) + At(f, 0 + 5) = Len(f) - 7
    <3>1. f[5] \in Nat /\ f[6] \in Nat
      BY <1>2, BytesOf
    <3> QED BY <1>2, <1>4, <3>1 DEF At, GoodFrame
  <2>2. Len(data) = Len(f) - 7
    <3>1. 7 \in Nat /\ 7 >= 1 /\ Len(f) - 1 \in Int /\ Len(f) - 1 <= Len(f)
      BY <1>2
    <3>2. Len(data) = IF 7 <= Len(f) - 1 THEN (Len(f) - 1) - 7 + 1 ELSE 0
      BY <1>2, <3>1, PartOf
    <3> HIDE DEF data
    <3>3. PICK n \in Nat : n = Len(f)
      BY <1>2
    <3>4. n >= 7 /\ Len(data) = IF 7 <= n - 1 THEN (n - 1) - 7 + 1 ELSE 0
      BY <1>2, <3>2, <3>3
    <3>5. Len(data) = n - 7
      BY <3>4
    <3> QED BY <3>3, <3>5
  <2>3. ~(Len(f) < 7)
    BY <1>2
  <2>4. data_handle(f, 0) =
          IF Len(data) < Reads(f[4], Len(f) - 7) THEN <<Behind>>
          ELSE IF f[4] = DATA_ISSUED_CMD THEN Points(data)
          ELSE IF f[4] \in Commands THEN << <<f[4]>> \o data >> ELSE <<>>
    BY <2>1 DEF data_handle
  <2> HIDE DEF data
  <2>5. data_handle(f, 0) =
          IF Len(f) - 7 < Reads(f[4], Len(f) - 7) THEN <<Behind>>
          ELSE IF f[4] = DATA_ISSUED_CMD THEN Points(data)
          ELSE IF f[4] \in Commands THEN << <<f[4]>> \o data >> ELSE <<>>
    BY <2>2, <2>4
  <2>6. data_handle(f, 0) = Meaning(f)
    BY <2>3, <2>5 DEF Meaning, data
  <2> QED BY <2>6 DEF Handled
<1>11. 0 \in 0..Len(f)
  BY <1>2
<1> QED BY <1>1, <1>3, <1>4, <1>5, <1>6, <1>8, <1>9, <1>10, <1>11, Zenon

\* A good frame of which b has only the first bytes is waited for.
LEMMA PartWaits ==
  ASSUME link = "wifi", NEW f, GoodFrame(f), NEW b \in Seq(Byte), NEW o \in 0..Len(b),
         NEW s, Agree(b, o, f, 0), Len(b) - o < Len(f)
  PROVE  ScanFrom(b, s)[o] = Result(o, <<>>, FALSE, FALSE)
<1> DEFINE F == ScanFrom(b, s)
<1>1. /\ PROTOCOL_HEAD = 7 /\ link \in Links /\ 0 \in 0..Len(f) /\ f \in Seq(Byte)
      /\ IsHead(f, 0) /\ Total(f, 0) = Len(f) /\ ~TooLarge(f, 0)
  <2>1. f \in Seq(Byte)
    BY GoodParts, Zenon
  <2>2. /\ PROTOCOL_HEAD = 7 /\ link \in Links /\ 0 \in 0..Len(f)
        /\ IsHead(f, 0) /\ Total(f, 0) = Len(f) /\ ~TooLarge(f, 0)
    BY GoodIsWhole, Zenon
  <2> QED BY <2>1, <2>2
<1>2. F[o] = ScanAt(F, b, o, s)
  BY <1>1, ScanEquation
<1> HIDE DEF F
<1>3. CASE Len(b) - o < PROTOCOL_HEAD
  BY <1>2, <1>3, TurnCases DEF F
<1>4. CASE ~(Len(b) - o < PROTOCOL_HEAD)
  <2>1. IsHead(b, o) /\ Total(b, o) = Len(f) /\ ~TooLarge(b, o)
    BY <1>1, <1>4, HeadSame
  <2> QED BY <1>2, <1>4, <2>1, TurnCases DEF F
<1> QED BY <1>3, <1>4

\* The result r of the turn at a frame, and the result t of the turn behind it.
Handles(r, f, t) ==
  /\ Meaning(f) \in Seq(Saying)
  /\ r.used = t.used /\ r.said = Meaning(f) \o t.said
  /\ r.crash = t.crash /\ (~t.missed => ~r.missed)

\* A good frame that is whole is acted on, and the scan goes on behind it.
LEMMA GoodIsHandled ==
  ASSUME link = "wifi", NEW f, GoodFrame(f), NEW b \in Seq(Byte), NEW o \in 0..Len(b),
         NEW s, Agree(f, 0, b, o)
  PROVE  Handles(ScanFrom(b, s)[o], f, ScanFrom(b, s)[o + Len(f)])
<1> DEFINE F == ScanFrom(b, s)
           r == F[o]
           t == F[o + Len(f)]
<1>1. /\ PROTOCOL_HEAD = 7 /\ link \in Links /\ 0 \in 0..Len(f) /\ f \in Seq(Byte)
      /\ IsHead(f, 0) /\ Total(f, 0) = Len(f) /\ ~TooLarge(f, 0) /\ Whole(f, 0)
      /\ ~SumMissing(f, 0) /\ SumRight(f, 0, s)
      /\ Handled(f, 0) = Meaning(f) /\ ~Contains(Meaning(f), Behind)
  <2>1. f \in Seq(Byte) /\ ~Contains(Meaning(f), Behind)
    BY GoodParts, Zenon
  <2>2. /\ PROTOCOL_HEAD = 7 /\ link \in Links /\ 0 \in 0..Len(f)
        /\ IsHead(f, 0) /\ Total(f, 0) = Len(f) /\ ~TooLarge(f, 0) /\ Whole(f, 0)
        /\ ~SumMissing(f, 0) /\ SumRight(f, 0, s)
        /\ Handled(f, 0) = Meaning(f)
    BY GoodIsWhole, Zenon
  <2> QED BY <2>1, <2>2, Zenon
<1>2. F[o] = ScanAt(F, b, o, s)
  BY <1>1, ScanEquation
<1>3. Meaning(f) \in Seq(Saying)
  BY <1>1, HandledSays
<1>4. Whole(b, o) /\ Handled(b, o) = Meaning(f)
  BY <1>1, WholeSame
<1>5. ~(Len(f) - 0 < PROTOCOL_HEAD)
  BY <1>1 DEF Whole
<1>6. ~(Len(b) - o < PROTOCOL_HEAD) /\ IsHead(b, o) /\ Total(b, o) = Len(f) /\ ~TooLarge(b, o)
  BY <1>1, <1>5, HeadSame
<1>7. ~SumMissing(b, o) /\ SumRight(b, o, s)
  <2>1. ~SumMissing(b, o) /\ SumRight(f, 0, s) = SumRight(b, o, s)
    BY <1>1, SumSame
  <2> QED BY <1>1, <2>1
<1> DEFINE missed == SumMissing(b, o) \/ Contains(Meaning(f), Behind) \/ t.missed
<1>8. r = Result(t.used, Meaning(f) \o t.said, missed, t.crash)
  <2> HIDE DEF F
  <2>1. F[o] = Result(F[o + Total(b, o)].used, Handled(b, o) \o F[o + Total(b, o)].said,
                      SumMissing(b, o) \/ Contains(Handled(b, o), Behind)
                        \/ F[o + Total(b, o)].missed, F[o + Total(b, o)].crash)
    BY <1>2, <1>4, <1>6, <1>7, TurnCases
  <2>2. F[o + Total(b, o)] = t /\ F[o] = r
    BY <1>6
  <2> QED BY <1>4, <2>1, <2>2
<1>9. /\ r.used = t.used /\ r.said = Meaning(f) \o t.said
       /\ r.crash = t.crash /\ r.missed = missed
  <2> HIDE DEF missed, r, t
  <2> QED BY <1>8 DEF Result
<1>10. ~t.missed => ~r.missed
  BY <1>1, <1>7, <1>9, Zenon
<1> HIDE DEF missed, r, t
<1>11. Handles(r, f, t)
  BY <1>3, <1>9, <1>10 DEF Handles
<1> QED BY <1>11 DEF r, t

\* A stray byte is passed, or waited at while there is no room for a head behind it.
LEMMA StrayIsPassed ==
  ASSUME link = "wifi", NEW f, Stray(f), NEW b \in Seq(Byte), NEW o \in 0..Len(b),
         NEW s, Agree(f, 0, b, o)
  PROVE  /\ Len(b) - o < 7 => ScanFrom(b, s)[o] = Result(o, <<>>, FALSE, FALSE)
         /\ ~(Len(b) - o < 7) => ScanFrom(b, s)[o] = ScanFrom(b, s)[o + 1]
<1> DEFINE F == ScanFrom(b, s)
<1>1. PROTOCOL_HEAD = 7 /\ link \in Links
  BY DEF PROTOCOL_HEAD, Links
<1>2. F[o] = ScanAt(F, b, o, s)
  BY <1>1, ScanEquation
<1>3. b[o + 1] = f[1]
  <2>1. Len(f) - 0 = 1 /\ 0 + 1 = 1
    BY DEF Stray
  <2>2. 1 \in 1..(Len(f) - 0)
    BY <2>1
  <2>3. f[0 + 1] = b[o + 1]
    BY <2>2 DEF Agree
  <2> QED BY <2>1, <2>3
<1>4. ~IsHead(b, o)
  BY <1>3 DEF IsHead, At, Stray
<1> HIDE DEF F
<1>5. Len(b) - o < 7 => F[o] = Result(o, <<>>, FALSE, FALSE)
  BY <1>1, <1>2, TurnCases
<1>6. ~(Len(b) - o < 7) => F[o] = F[o + 1]
  BY <1>1, <1>2, <1>4, TurnCases
<1> QED BY <1>5, <1>6 DEF F

\* The bytes of f are in c from p on.
IsAt(f, c, p) == \A k \in 1..Len(f) : c[p + k] = f[k]

\* The line c consists of n pieces: piece i reaches from P[i - 1] to P[i], and is a good
\* frame or a stray byte.
Pieces(c, n, fs, P) ==
  /\ c \in Seq(Byte) /\ P \in [0..n -> 0..Len(c)] /\ P[0] = 0 /\ P[n] = Len(c)
  /\ \A i \in 1..n : /\ GoodFrame(fs[i]) \/ Stray(fs[i])
                     /\ P[i] = P[i - 1] + Len(fs[i])
                     /\ IsAt(fs[i], c, P[i - 1])

\* S[i] is what the first i pieces mean.
Sayings(n, fs, S) ==
  /\ S \in [0..n -> Seq(Saying)] /\ S[0] = <<>>
  /\ \A i \in 1..n : S[i] = S[i - 1] \o Meaning(fs[i])

\* One piece of the line.
LEMMA PieceOf ==
  ASSUME NEW n \in Nat, NEW c, NEW fs, NEW P, Pieces(c, n, fs, P), NEW j \in 0..n, j # n
  PROVE  /\ j + 1 \in 1..n /\ fs[j + 1] \in Seq(Byte) /\ Len(fs[j + 1]) \in Nat \ {0}
         /\ GoodFrame(fs[j + 1]) \/ Stray(fs[j + 1])
         /\ P[j] \in Nat /\ P[j + 1] \in Nat /\ P[j + 1] = P[j] + Len(fs[j + 1])
         /\ P[j + 1] <= Len(c) /\ Len(c) \in Nat
         /\ IsAt(fs[j + 1], c, P[j])
<1>1. j + 1 \in 1..n /\ (j + 1) - 1 = j /\ j + 1 \in 0..n
  OBVIOUS
<1> DEFINE f == fs[j + 1]
<1>2. /\ GoodFrame(f) \/ Stray(f)
      /\ P[j + 1] = P[j] + Len(f)
      /\ IsAt(f, c, P[j])
  BY <1>1 DEF Pieces
<1>3. c \in Seq(Byte) /\ P \in [0..n -> 0..Len(c)]
  BY DEF Pieces
<1>4. Len(c) \in Nat
  BY <1>3, BytesOf
<1>5. P[j] \in 0..Len(c) /\ P[j + 1] \in 0..Len(c)
  BY <1>1, <1>3
<1> HIDE DEF f
<1>6. f \in Seq(Byte) /\ Len(f) \in Nat \ {0}
  <2>1. CASE GoodFrame(f)
    BY <2>1, FrameAssumption, BytesOf DEF GoodFrame
  <2>2. CASE Stray(f)
    BY <2>2 DEF Stray
  <2> QED BY <1>2, <2>1, <2>2
<1> QED BY <1>1, <1>2, <1>4, <1>5, <1>6 DEF f

\* Piece j + 1 starts at offset o of a buffer that starts at p.
Begins(P, j, p, o) == P[j] = p + o

\* A piece that starts in b is there, or as much of it as b has.
LEMMA PieceIn ==
  ASSUME NEW n \in Nat, NEW c, NEW fs, NEW P, Pieces(c, n, fs, P), NEW j \in 0..n, j # n,
         NEW p \in Nat, NEW b \in Seq(Byte), Agree(b, 0, c, p),
         NEW o \in 0..Len(b), Begins(P, j, p, o)
  PROVE  /\ Len(b) - o < Len(fs[j + 1]) => Agree(b, o, fs[j + 1], 0)
         /\ ~(Len(b) - o < Len(fs[j + 1])) =>
              /\ Agree(fs[j + 1], 0, b, o)
              /\ P[j + 1] - p = o + Len(fs[j + 1])
              /\ o + Len(fs[j + 1]) \in 0..Len(b)
<1> DEFINE f == fs[j + 1]
           q == P[j]
           l == Len(b)
           z == Len(f)
<1>1. /\ f \in Seq(Byte) /\ Len(f) \in Nat \ {0}
      /\ q \in Nat /\ P[j + 1] = q + Len(f) /\ IsAt(f, c, q)
  <2>1. fs[j + 1] \in Seq(Byte) /\ Len(fs[j + 1]) \in Nat \ {0}
    BY PieceOf
  <2>2. P[j] \in Nat
    BY PieceOf
  <2>3. P[j + 1] = P[j] + Len(fs[j + 1])
    BY PieceOf
  <2>4. IsAt(fs[j + 1], c, P[j])
    BY PieceOf
  <2> QED BY <2>1, <2>2, <2>3, <2>4, Zenon
<1>2. l \in Nat /\ z \in Nat /\ p \in Nat /\ o \in 0..l /\ q = p + o /\ P[j + 1] = q + z
  <2>1. Len(b) \in Nat
    BY BytesOf
  <2> QED BY <1>1, <2>1 DEF Begins
<1>3. /\ \A k \in 1..z : c[q + k] = f[k]
      /\ \A k \in 1..l : b[k] = c[p + k]
  <2>1. l - 0 = l /\ \A k \in 1..l : 0 + k = k
    BY <1>2
  <2> QED BY <1>1, <2>1 DEF Agree, IsAt
<1> HIDE DEF f, q, l, z
<1>4. ASSUME NEW k \in 1..(l - o) PROVE b[o + k] = c[q + k]
  <2>1. o + k \in 1..l /\ p + (o + k) = q + k
    BY <1>2
  <2> QED BY <1>3, <2>1
<1>5. CASE l - o < z
  <2>1. ASSUME NEW k \in 1..(l - o) PROVE b[o + k] = f[0 + k]
    <3>1. k \in 1..z /\ 0 + k = k
      BY <1>2, <1>5
    <3> QED BY <1>3, <1>4, <3>1
  <2>2. l - o <= z - 0
    BY <1>2, <1>5
  <2>3. Agree(b, o, f, 0)
    BY <2>1, <2>2 DEF Agree, l, z
  <2> QED BY <1>5, <2>3 DEF f, l, z
<1>6. CASE ~(l - o < z)
  <2>1. ASSUME NEW k \in 1..(z - 0) PROVE f[0 + k] = b[o + k]
    <3>1. k \in 1..z /\ k \in 1..(l - o) /\ 0 + k = k
      BY <1>2, <1>6
    <3> QED BY <1>3, <1>4, <3>1
  <2>2. z - 0 <= l - o
    BY <1>2, <1>6
  <2>3. P[j + 1] - p = o + z /\ o + z \in 0..l
    BY <1>2, <1>6
  <2>4. Agree(f, 0, b, o)
    BY <2>1, <2>2 DEF Agree, l, z
  <2> QED BY <1>6, <2>3, <2>4 DEF f, l, z
<1> QED BY <1>5, <1>6 DEF f, l, z

\* A scan whose result is r has got from the start of piece j + 1 to that of piece m + 1,
\* which has not arrived: all the pieces between were acted on as they mean.
Unfinished(f, l) == l < Len(f) \/ l < 7
Reaches(r, b, p, n, fs, P, S, j, m) ==
  /\ r.used = P[m] - p /\ S[j] \o r.said = S[m] /\ ~r.missed /\ ~r.crash
  /\ m = n \/ Unfinished(fs[m + 1], Len(b) - r.used)

\* A scan that stops at once.
LEMMA StopsAt ==
  ASSUME NEW n \in Nat, NEW fs, NEW P, NEW S, Sayings(n, fs, S), NEW j \in 0..n,
         NEW b, NEW p, NEW o, o = P[j] - p, NEW r, r = Result(o, <<>>, FALSE, FALSE),
         j = n \/ Unfinished(fs[j + 1], Len(b) - o)
  PROVE  Reaches(r, b, p, n, fs, P, S, j, j)
<1>1. r.used = o /\ r.said = <<>> /\ ~r.missed /\ ~r.crash
  BY DEF Result
<1>2. S[j] \in Seq(Saying)
  BY DEF Sayings
<1>3. S[j] \o <<>> = S[j]
  BY <1>2, ConcatEmptySeq
<1> QED BY <1>1, <1>3 DEF Reaches

\* A scan of the first bytes of what is left of such a line, from the start of a piece.
LEMMA CleanScan ==
  ASSUME link = "wifi", NEW n \in Nat, NEW c, NEW fs, NEW P, NEW S,
         Pieces(c, n, fs, P), Sayings(n, fs, S),
         NEW p \in 0..Len(c), NEW b \in Seq(Byte), Agree(b, 0, c, p), NEW s
  PROVE  \A j \in 0..n : P[j] - p \in 0..Len(b) =>
           \E m \in 0..n : Reaches(ScanFrom(b, s)[P[j] - p], b, p, n, fs, P, S, j, m)
<1> DEFINE F == ScanFrom(b, s)
           T == {j \in 0..n : P[j] - p \in 0..Len(b) =>
                   \E m \in 0..n : Reaches(F[P[j] - p], b, p, n, fs, P, S, j, m)}
<1>1. ASSUME NEW j \in 0..n, \A k \in (j + 1)..n : k \in T, P[j] - p \in 0..Len(b)
      PROVE  \E m \in 0..n : Reaches(F[P[j] - p], b, p, n, fs, P, S, j, m)
  <2> DEFINE o == P[j] - p
  <2>1. o \in 0..Len(b)
    BY <1>1
  <2>2. link \in Links /\ PROTOCOL_HEAD = 7
    BY DEF Links, PROTOCOL_HEAD
  <2>3. F[o] = ScanAt(F, b, o, s)
    BY <2>1, <2>2, ScanEquation
  <2>4. o = P[j] - p
    OBVIOUS
  <2> HIDE DEF o
  <2>5. CASE F[o] = Result(o, <<>>, FALSE, FALSE)
             /\ (j = n \/ Unfinished(fs[j + 1], Len(b) - o))
    <3> HIDE DEF F
    <3>1. Reaches(F[o], b, p, n, fs, P, S, j, j)
      BY <2>4, <2>5, StopsAt
    <3> QED BY <2>4, <3>1
  <2>6. CASE j = n
    <3>1. P[j] = Len(c) /\ Len(b) - 0 <= Len(c) - p
      BY <2>6 DEF Pieces, Agree
    <3>2. Len(b) \in Nat /\ Len(c) \in Nat
      BY BytesOf DEF Pieces
    <3>3. Len(b) - o < PROTOCOL_HEAD
      BY <2>1, <2>2, <2>4, <3>1, <3>2
    <3> HIDE DEF F
    <3>4. F[o] = Result(o, <<>>, FALSE, FALSE)
      BY <2>3, <3>3, TurnCases
    <3> QED BY <2>5, <2>6, <3>4
  <2>7. CASE j # n
    <3> DEFINE f == fs[j + 1]
    <3>1. /\ j + 1 \in 1..n /\ f \in Seq(Byte) /\ Len(f) \in Nat \ {0}
          /\ GoodFrame(f) \/ Stray(f)
      BY <2>7, PieceOf
    <3>2. /\ Len(b) - o < Len(f) => Agree(b, o, f, 0)
          /\ ~(Len(b) - o < Len(f)) =>
               Agree(f, 0, b, o) /\ P[j + 1] - p = o + Len(f) /\ o + Len(f) \in 0..Len(b)
      <4>1. P[j] = p + o /\ p \in Nat
        <5>1. P[j] \in Nat /\ Len(c) \in Nat
          BY <2>7, PieceOf
        <5>2. p \in Nat
          BY <5>1
        <5> QED BY <2>4, <5>1, <5>2
      <4>2. Begins(P, j, p, o)
        BY <4>1 DEF Begins
      <4> QED BY <2>1, <2>7, <4>1, <4>2, PieceIn
    <3>3. S[j + 1] = S[j] \o Meaning(f) /\ S[j] \in Seq(Saying)
      <4>1. (j + 1) - 1 = j
        OBVIOUS
      <4> QED BY <3>1, <4>1 DEF Sayings
    <3>4. CASE Len(b) - o < Len(f)
      <4>1. F[o] = Result(o, <<>>, FALSE, FALSE)
        <5>1. CASE GoodFrame(f)
          BY <2>1, <3>2, <3>4, <5>1, PartWaits
        <5>2. CASE Stray(f)
          <6>1. Len(f) = 1 /\ Len(b) \in Nat
            BY <5>2, BytesOf DEF Stray
          <6>2. Len(b) - o < PROTOCOL_HEAD
            BY <2>1, <2>2, <3>4, <6>1
          <6> HIDE DEF F
          <6> QED BY <2>3, <6>2, TurnCases
        <5> QED BY <3>1, <5>1, <5>2
      <4>2. Unfinished(f, Len(b) - o)
        BY <3>4 DEF Unfinished
      <4> QED BY <2>5, <4>1, <4>2
    <3>5. CASE ~(Len(b) - o < Len(f))
      <4> DEFINE q == o + Len(f)
      <4>1. /\ Agree(f, 0, b, o) /\ q = P[j + 1] - p /\ q \in 0..Len(b)
        BY <3>2, <3>5
      <4>2. PICK m \in 0..n : Reaches(F[q], b, p, n, fs, P, S, j + 1, m)
        <5>1. j + 1 \in (j + 1)..n /\ j + 1 \in 0..n
          BY <3>1
        <5>2. j + 1 \in T
          BY <1>1, <5>1
        <5> QED BY <4>1, <5>2
      <4>3. CASE GoodFrame(f)
        <5>1. /\ Meaning(f) \in Seq(Saying)
              /\ F[o].used = F[q].used /\ F[o].said = Meaning(f) \o F[q].said
              /\ F[o].crash = F[q].crash /\ (~F[q].missed => ~F[o].missed)
          <6>1. Handles(F[o], f, F[q])
            BY <2>1, <4>1, <4>3, GoodIsHandled
          <6> HIDE DEF F, q, f
          <6> QED BY <6>1 DEF Handles
        <5>2. F[q].said \in Seq(Saying)
          BY <2>2, <4>1, ScanFields
        <5> HIDE DEF F, q, f
        <5>3. S[j] \o F[o].said = S[j + 1] \o F[q].said
          <6>1. \A x, y, z \in Seq(Saying) : (x \o y) \o z = x \o (y \o z)
            BY ConcatAssociative
          <6>2. (S[j] \o Meaning(f)) \o F[q].said = S[j] \o (Meaning(f) \o F[q].said)
            BY <3>3, <5>1, <5>2, <6>1
          <6> QED BY <3>3, <5>1, <6>2
        <5>4. Reaches(F[o], b, p, n, fs, P, S, j, m)
          BY <4>2, <5>1, <5>3 DEF Reaches
        <5> QED BY <2>4, <5>4
      <4>4. CASE Stray(f)
        <5>1. Len(f) = 1 /\ q = o + 1
          BY <4>4 DEF Stray
        <5>2. /\ Len(b) - o < 7 => F[o] = Result(o, <<>>, FALSE, FALSE)
              /\ ~(Len(b) - o < 7) => F[o] = F[q]
          BY <2>1, <4>1, <4>4, <5>1, StrayIsPassed
        <5>3. CASE Len(b) - o < 7
          <6>1. Unfinished(f, Len(b) - o)
            BY <5>3 DEF Unfinished
          <6> QED BY <2>5, <5>2, <5>3, <6>1
        <5>4. CASE ~(Len(b) - o < 7)
          <6>1. Meaning(f) = <<>>
            BY <5>1 DEF Meaning
          <6>2. S[j + 1] = S[j]
            BY <3>3, <6>1, ConcatEmptySeq
          <6> HIDE DEF F, q, f
          <6>3. Reaches(F[o], b, p, n, fs, P, S, j, m)
            BY <4>2, <5>2, <5>4, <6>2 DEF Reaches
          <6> QED BY <2>4, <6>3
        <5> QED BY <5>3, <5>4
      <4> QED BY <3>1, <4>3, <4>4
    <3> QED BY <3>4, <3>5
  <2> QED BY <2>6, <2>7
<1>2. ASSUME NEW j \in 0..n, \A k \in (j + 1)..n : k \in T PROVE j \in T
  BY <1>1, <1>2
<1> HIDE DEF T
<1>3. \A j \in 0..n : j \in T
  BY <1>2, Downward
<1> QED BY <1>3 DEF T

\* The first bytes of b \o rest, and what is left of it.
LEMMA FirstOf ==
  ASSUME NEW b \in Seq(Byte), NEW rest \in Seq(Byte), NEW c, c = b \o rest
  PROVE  c \in Seq(Byte) /\ Len(c) = Len(b) + Len(rest) /\ Agree(b, 0, c, 0)
<1>1. /\ c \in Seq(Byte) /\ Len(c) = Len(b) + Len(rest)
      /\ \A i \in 1..Len(b) + Len(rest) :
           c[i] = IF i <= Len(b) THEN b[i] ELSE rest[i - Len(b)]
  BY ConcatProperties
<1>2. Len(b) \in Nat /\ Len(rest) \in Nat
  BY BytesOf
<1>3. Agree(b, 0, c, 0)
  BY <1>1, <1>2 DEF Agree
<1> QED BY <1>1, <1>3

\* Agreement is transitive.
LEMMA AgreeOn ==
  ASSUME NEW b \in Seq(Byte), NEW d \in Seq(Byte), NEW c \in Seq(Byte),
         NEW u \in 0..Len(d), NEW p \in 0..Len(c), NEW q \in 0..Len(c), q = p + u,
         Agree(b, 0, d, u), Agree(d, 0, c, p)
  PROVE  Agree(b, 0, c, q)
<1>1. /\ Len(b) \in Nat /\ Len(d) \in Nat /\ Len(c) \in Nat
      /\ Len(b) <= Len(d) - u /\ Len(d) <= Len(c) - p
      /\ \A k \in 1..Len(b) : b[k] = d[u + k]
      /\ \A k \in 1..Len(d) : d[k] = c[p + k]
  <2>1. /\ Len(b) \in Nat /\ Len(d) \in Nat /\ Len(c) \in Nat
    BY BytesOf
  <2>2. Len(b) - 0 = Len(b) /\ Len(d) - 0 = Len(d) /\ \A k \in Nat : 0 + k = k
    BY <2>1
  <2>3. /\ \A k \in 1..Len(b) : b[k] = d[u + k]
    BY <2>1, <2>2 DEF Agree
  <2>4. /\ \A k \in 1..Len(d) : d[k] = c[p + k]
    BY <2>1, <2>2 DEF Agree
  <2> QED BY <2>1, <2>2, <2>3, <2>4 DEF Agree
<1>2. ASSUME NEW k \in 1..(Len(b) - 0) PROVE b[0 + k] = c[q + k]
  <2>1. /\ k \in 1..Len(b) /\ 0 + k = k /\ u + k \in 1..Len(d) /\ p + (u + k) = q + k
    BY <1>1
  <2> QED BY <1>1, <2>1
<1>3. Len(b) - 0 <= Len(c) - q
  BY <1>1
<1> QED BY <1>2, <1>3 DEF Agree

\* Behind the last frame of the line are stray bytes only, which mean nothing.
LEMMA LineEnds ==
  ASSUME NEW n \in Nat, NEW c, NEW fs, NEW P, NEW S, Pieces(c, n, fs, P), Sayings(n, fs, S)
  PROVE  \A j \in 0..n : Len(c) - P[j] < 7 => S[j] = S[n]
<1> DEFINE T == {j \in 0..n : Len(c) - P[j] < 7 => S[j] = S[n]}
<1>1. ASSUME NEW j \in 0..n, \A k \in (j + 1)..n : k \in T, Len(c) - P[j] < 7
      PROVE  S[j] = S[n]
  <2>1. CASE j = n
    BY <2>1
  <2>2. CASE j # n
    <3> DEFINE f == fs[j + 1]
    <3>1. GoodFrame(f) \/ Stray(f)
      BY <2>2, PieceOf
    <3>2. PICK l \in Nat, p \in Nat, q \in Nat, z \in Nat :
            l = Len(f) /\ p = P[j] /\ q = P[j + 1] /\ z = Len(c) /\ q = p + l /\ q <= z
      <4>1. Len(f) \in Nat /\ P[j] \in Nat /\ P[j + 1] \in Nat /\ Len(c) \in Nat
        BY <2>2, PieceOf
      <4>2. P[j + 1] = P[j] + Len(f)
        BY <2>2, PieceOf
      <4>3. P[j + 1] <= Len(c)
        BY <2>2, PieceOf
      <4> QED BY <4>1, <4>2, <4>3, Zenon
    <3>3. z - p < 7
      BY <1>1, <3>2
    <3>4. l < 7 /\ z - q < 7
      BY <3>2, <3>3
    <3>5. Meaning(f) = <<>>
      <4>1. Len(f) < 7
        BY <3>2, <3>4
      <4> QED BY <4>1 DEF Meaning
    <3>6. j + 1 \in 1..n /\ (j + 1) - 1 = j /\ j + 1 \in (j + 1)..n
      BY <2>2
    <3>7. S[j + 1] = S[j] \o Meaning(f) /\ S[j] \in Seq(Saying)
      BY <3>6 DEF Sayings
    <3>8. S[j + 1] = S[j]
      BY <3>5, <3>7, ConcatEmptySeq
    <3>9. Len(c) - P[j + 1] < 7
      BY <3>2, <3>4
    <3>10. j + 1 \in T
      BY <1>1, <3>6
    <3> QED BY <3>8, <3>9, <3>10
  <2> QED BY <2>1, <2>2
<1>2. ASSUME NEW j \in 0..n, \A k \in (j + 1)..n : k \in T PROVE j \in T
  BY <1>1, <1>2
<1> HIDE DEF T
<1>3. \A j \in 0..n : j \in T
  BY <1>2, Downward
<1> QED BY <1>3 DEF T

\* The first i pieces were acted on, and the others are in the buffer and on the line.
Upto(c, n, fs, P, S, i) ==
  /\ heard = S[i] /\ Len(buf \o wire) = Len(c) - P[i] /\ Agree(buf \o wire, 0, c, P[i])
  /\ i = n \/ Unfinished(fs[i + 1], Len(buf))

CleanInv(c, n, fs, P, S) ==
  /\ link = "wifi" /\ FrameTypeOK /\ ~early /\ ~halted
  /\ \E i \in 0..n : Upto(c, n, fs, P, S, i)

\* A pass over such a line.
LEMMA CleanPass ==
  ASSUME NEW n \in Nat, NEW c, NEW fs, NEW P, NEW S, Pieces(c, n, fs, P), Sayings(n, fs, S),
         CleanInv(c, n, fs, P, S), NEW k \in Arrived, NEW s, Pass(k, s), FrameTypeOK'
  PROVE  CleanInv(c, n, fs, P, S)'
<1>0. link = "wifi" /\ FrameTypeOK /\ ~early /\ ~halted /\ link \in Links /\ heard \in Seq(Saying)
  BY DEF CleanInv, Links, FrameTypeOK
<1>1. PICK b \in Seq(Byte), rest \in Seq(Byte) :
        /\ buf \o wire = b \o rest
        /\ LET r == Scan(b, s) IN
              /\ r \in Scanned(Len(b), 0)
              /\ wire' = rest /\ buf' = SubSeq(b, r.used + 1, Len(b))
              /\ heard' = heard \o r.said /\ early' = (early \/ r.missed)
              /\ halted' = r.crash /\ ~halted /\ link' = link
  BY <1>0, PassIs
<1> DEFINE r == Scan(b, s)
<1>2. /\ buf \o wire = b \o rest /\ r \in Scanned(Len(b), 0)
      /\ wire' = rest /\ buf' = SubSeq(b, r.used + 1, Len(b))
      /\ heard' = heard \o r.said /\ halted' = r.crash /\ link' = link
      /\ early' = (early \/ r.missed)
  BY <1>1
<1>3. r = ScanFrom(b, s)[0]
  BY ScanIsFrom
<1> HIDE DEF r
<1>4. r.used \in 0..Len(b)
  BY <1>2 DEF Scanned
<1>5. PICK i \in 0..n : Upto(c, n, fs, P, S, i)
  BY DEF CleanInv
<1> DEFINE p == P[i]
           d == b \o rest
           v == buf' \o wire'
<1>6. /\ heard = S[i] /\ Len(d) = Len(c) - p /\ Agree(d, 0, c, p)
  BY <1>2, <1>5 DEF Upto
<1>7. c \in Seq(Byte) /\ p \in 0..Len(c) /\ Len(c) \in Nat
  <2>1. c \in Seq(Byte) /\ P \in [0..n -> 0..Len(c)]
    BY DEF Pieces
  <2> QED BY <2>1, BytesOf
<1>8. d \in Seq(Byte) /\ Len(d) = Len(b) + Len(rest) /\ Agree(b, 0, d, 0)
  BY FirstOf
<1>9. Len(b) \in Nat /\ Len(rest) \in Nat
  BY BytesOf
<1>10. Agree(b, 0, c, p)
  <2> HIDE DEF d, p
  <2>1. 0 \in 0..Len(d) /\ p = p + 0
    BY <1>7, <1>8, <1>9
  <2> QED BY <1>6, <1>7, <1>8, <2>1, AgreeOn
<1>11. PICK m \in 0..n : Reaches(r, b, p, n, fs, P, S, i, m)
  <2>1. P[i] - p = 0 /\ 0 \in 0..Len(b)
    BY <1>7, <1>9
  <2>2. P[i] - p \in 0..Len(b) =>
           \E m \in 0..n : Reaches(ScanFrom(b, s)[P[i] - p], b, p, n, fs, P, S, i, m)
    <3> HIDE DEF p
    <3>1. \A j \in 0..n : P[j] - p \in 0..Len(b) =>
           \E m \in 0..n : Reaches(ScanFrom(b, s)[P[j] - p], b, p, n, fs, P, S, j, m)
      BY <1>0, <1>7, <1>10, CleanScan
    <3> QED BY <3>1
  <2> HIDE DEF p
  <2> QED BY <1>3, <2>1, <2>2
<1>12. /\ r.used = P[m] - p /\ S[i] \o r.said = S[m] /\ ~r.missed /\ ~r.crash
       /\ m = n \/ Unfinished(fs[m + 1], Len(b) - r.used)
  BY <1>11 DEF Reaches
<1>13. P[m] \in 0..Len(c)
  BY DEF Pieces
<1>14. P[m] = p + r.used
  <2> HIDE DEF p
  <2> QED BY <1>4, <1>7, <1>9, <1>12, <1>13
<1>15. Len(buf') = Len(b) - r.used /\ v \in Seq(Byte) /\ Len(v) = Len(d) - r.used
       /\ Agree(v, 0, d, r.used)
  <2>1. Leaves(b, r.used, rest, SubSeq(b, r.used + 1, Len(b)))
    BY <1>4, RestOf
  <2>2. Leaves(b, r.used, rest, buf')
    BY <1>2, <2>1
  <2>3. v = buf' \o rest
    BY <1>2
  <2> HIDE DEF v
  <2> QED BY <2>2, <2>3 DEF Leaves
<1>16. Len(v) = Len(c) - P[m] /\ Agree(v, 0, c, P[m])
  <2> HIDE DEF v, d, p
  <2>1. Len(v) = Len(c) - P[m]
    BY <1>4, <1>6, <1>7, <1>9, <1>13, <1>14, <1>15
  <2>2. r.used \in 0..Len(d)
    BY <1>4, <1>8, <1>9
  <2>3. Agree(v, 0, c, P[m])
    <3>1. PICK u \in 0..Len(d), q \in 0..Len(c) : u = r.used /\ q = P[m]
      BY <1>13, <2>2
    <3>2. q = p + u /\ Agree(v, 0, d, u)
      BY <1>14, <1>15, <3>1
    <3>3. /\ v \in Seq(Byte) /\ d \in Seq(Byte) /\ c \in Seq(Byte) /\ p \in 0..Len(c)
          /\ Agree(d, 0, c, p)
      BY <1>6, <1>7, <1>8, <1>15
    <3>4. Agree(v, 0, c, q)
      BY <3>2, <3>3, AgreeOn
    <3> QED BY <3>1, <3>4
  <2> QED BY <2>1, <2>3
<1>17. heard' = S[m]
  BY <1>2, <1>6, <1>12
<1>18. Upto(c, n, fs, P, S, m)'
  <2>1. m = n \/ Unfinished(fs[m + 1], Len(buf'))
    BY <1>12, <1>15
  <2> QED BY <1>16, <1>17, <2>1 DEF Upto
<1>19. ~early' /\ ~halted' /\ link' = "wifi"
  <2>1. ~early'
    BY <1>0, <1>2, <1>12, Zenon
  <2>2. ~halted'
    BY <1>2, <1>12, Zenon
  <2> QED BY <1>0, <1>2, <2>1, <2>2, Zenon
<1> QED BY <1>18, <1>19 DEF CleanInv

\* The line c, of which nothing has arrived.
CleanStart(c) ==
  /\ link = "wifi" /\ wire = c /\ buf = <<>> /\ heard = <<>> /\ early = FALSE /\ halted = FALSE

\* What the first pieces of the line mean has been acted on, in the end what all mean.
HeardClean(n, S) ==
  /\ ~early /\ ~halted
  /\ \E i \in 0..n : heard = S[i]
  /\ wire = <<>> => heard = S[n]

\* The invariant holds before the first pass.
LEMMA CleanInit ==
  ASSUME NEW n \in Nat, NEW c, NEW fs, NEW P, NEW S, Pieces(c, n, fs, P), Sayings(n, fs, S),
         CleanStart(c)
  PROVE  CleanInv(c, n, fs, P, S)
<1>1. c \in Seq(Byte) /\ P[0] = 0 /\ S[0] = <<>>
  BY DEF Pieces, Sayings
<1>2. link = "wifi" /\ wire = c /\ buf = <<>> /\ heard = <<>> /\ early = FALSE /\ halted = FALSE
  BY DEF CleanStart
<1>3. FrameTypeOK
  <2>1. <<>> \in Seq(Byte) /\ <<>> \in Seq(Saying)
    BY EmptySeq
  <2> QED BY <1>1, <1>2, <2>1 DEF FrameTypeOK, Links
<1>4. buf \o wire = c
  BY <1>1, <1>2, ConcatEmptySeq
<1>5. Len(c) \in Nat /\ Len(c) - 0 = Len(c)
  BY <1>1, BytesOf
<1>6. Agree(c, 0, c, 0)
  BY <1>5 DEF Agree
<1>7. 0 = n \/ Unfinished(fs[0 + 1], Len(buf))
  <2>1. Len(buf) = 0
    BY <1>2
  <2>2. Unfinished(fs[0 + 1], 0)
    BY DEF Unfinished
  <2> QED BY <2>1, <2>2
<1>8. Upto(c, n, fs, P, S, 0)
  BY <1>1, <1>2, <1>4, <1>5, <1>6, <1>7 DEF Upto
<1>9. 0 \in 0..n
  OBVIOUS
<1>10. ~early /\ ~halted /\ link = "wifi"
  BY <1>2, Zenon
<1> QED BY <1>3, <1>8, <1>9, <1>10 DEF CleanInv

\* The invariant is kept.
LEMMA CleanNext ==
  ASSUME NEW n \in Nat, NEW c, NEW fs, NEW P, NEW S, Pieces(c, n, fs, P), Sayings(n, fs, S),
         CleanInv(c, n, fs, P, S), [FrameNext]_parser, FrameTypeOK'
  PROVE  CleanInv(c, n, fs, P, S)'
<1>1. CASE wifi_uart_service
  BY <1>1, CleanPass DEF wifi_uart_service
<1>2. CASE tds_uart_service
  BY <1>2 DEF tds_uart_service, CleanInv
<1>3. CASE UNCHANGED parser
  BY <1>3 DEF parser, CleanInv, Upto
<1> QED BY <1>1, <1>2, <1>3 DEF FrameNext

\* It says what was heard when the line is empty.
LEMMA CleanEnd ==
  ASSUME NEW n \in Nat, NEW c, NEW fs, NEW P, NEW S, Pieces(c, n, fs, P), Sayings(n, fs, S),
         CleanInv(c, n, fs, P, S)
  PROVE  HeardClean(n, S)
<1>1. ~early /\ ~halted /\ buf \in Seq(Byte)
  BY DEF CleanInv, FrameTypeOK
<1>2. PICK i \in 0..n : Upto(c, n, fs, P, S, i)
  BY DEF CleanInv
<1>3. heard = S[i]
  BY <1>2 DEF Upto
<1>4. ASSUME wire = <<>> PROVE heard = S[n]
  <2>1. CASE i = n
    BY <1>3, <2>1
  <2>2. CASE i # n
    <3> DEFINE f == fs[i + 1]
    <3>1. buf \o wire = buf
      BY <1>1, <1>4, ConcatEmptySeq
    <3>2. Len(buf) = Len(c) - P[i] /\ Unfinished(f, Len(buf))
      BY <1>2, <2>2, <3>1 DEF Upto
    <3>3. Len(f) \in Nat /\ P[i] \in Nat /\ P[i + 1] \in Nat /\ Len(c) \in Nat
      BY <2>2, PieceOf
    <3>4. P[i + 1] = P[i] + Len(f)
      BY <2>2, PieceOf
    <3>5. P[i + 1] <= Len(c)
      BY <2>2, PieceOf
    <3>6. PICK l \in Nat, p \in Nat, q \in Nat, z \in Nat :
            l = Len(f) /\ p = P[i] /\ q = P[i + 1] /\ z = Len(c) /\ q = p + l /\ q <= z
      BY <3>3, <3>4, <3>5, Zenon
    <3>7. z - p < l \/ z - p < 7
      <4> HIDE DEF f
      <4> QED BY <3>2, <3>6 DEF Unfinished
    <3>8. z - p < 7
      BY <3>6, <3>7
    <3>9. Len(c) - P[i] < 7
      BY <3>6, <3>8
    <3> QED BY <1>3, <3>9, LineEnds
  <2> QED BY <2>1, <2>2
<1> QED BY <1>1, <1>3, <1>4 DEF HeardClean

\* The type is kept from any start.
LEMMA FrameTypeKept ==
  ASSUME FrameTypeOK, [FrameNext]_parser PROVE FrameTypeOK'
<1>1. CASE wifi_uart_service
  BY <1>1, PassFrames DEF wifi_uart_service
<1>2. CASE tds_uart_service
  BY <1>2, PassFrames DEF tds_uart_service
<1>3. CASE UNCHANGED parser
  BY <1>3 DEF parser, FrameTypeOK
<1> QED BY <1>1, <1>2, <1>3 DEF FrameNext

\* On a line without noise wifi_uart_service gives data_handle every frame, once, in order
\* and as it was sent, and nothing else, wherever the passes cut the bytes: for every
\* number of frames that fit the buffer, with any bytes between them that are no head.
\* Nothing is looked at before it has arrived, the service does not stop, and when the
\* last byte has been read no frame is left waiting in the buffer.
THEOREM CleanLineHeard ==
  ASSUME NEW n \in Nat, NEW c, NEW fs, NEW P, NEW S, Pieces(c, n, fs, P), Sayings(n, fs, S)
  PROVE  CleanStart(c) /\ [][FrameNext]_parser => []HeardClean(n, S)
<1>1. CleanStart(c) => CleanInv(c, n, fs, P, S)
  BY CleanInit
<1>2. CleanInv(c, n, fs, P, S) /\ [FrameNext]_parser => CleanInv(c, n, fs, P, S)'
  <2>1. CleanInv(c, n, fs, P, S) => FrameTypeOK
    BY DEF CleanInv
  <2> QED BY <2>1, FrameTypeKept, CleanNext
<1>3. CleanInv(c, n, fs, P, S) => HeardClean(n, S)
  BY CleanEnd
<1> QED BY <1>1, <1>2, <1>3, PTL
=============================================================================
