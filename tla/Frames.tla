------------------------------- MODULE Frames -------------------------------
(***************************************************************************)
(* How the two serial services find frames in the bytes they are given:    *)
(* wifi_uart_service and data_handle of uart/uart_core.c, tds_uart_service *)
(* and tds_handle of tds_service.c.  A service copies what has arrived     *)
(* into its process buffer, scans it, handles the frames that are whole    *)
(* and moves the rest down for the next pass, which may come after any     *)
(* number of further bytes.                                                *)
(*                                                                         *)
(* The line carries a few frames of which one byte may be lost, changed or *)
(* doubled by noise.  The two services differ in their constants, in where *)
(* they look for the checksum and in how far they skip.                    *)
(***************************************************************************)
EXTENDS Naturals, Sequences, SequencesExt

CONSTANTS
  BufSize,          \* sizeof(wifi_data_process_buf), sizeof(tds_data_process_buf)
  Frames(_),        \* the frames sent on a link: records of bytes and meaning
  Noise,            \* the bytes noise can produce
  Filler            \* the line after the frames: BufSize of these bytes

Links == {"wifi", "tds"}
Byte == 0..255

\* The code has 1207 and 75; a buffer that does not hold a head would never be read.
ASSUME FrameAssumption ==
  /\ BufSize \in Nat /\ BufSize >= 11
  /\ \A l \in Links : \A f \in Frames(l) : f.bytes \in Seq(Byte)
  /\ Noise \subseteq Byte /\ Filler \in Byte

VARIABLES
  link,     \* the link of this behaviour
  wire,     \* bytes still to come
  buf,      \* the first rx_in bytes of the process buffer
  heard,    \* what data_handle or tds_handle has acted on
  due,      \* what may have been heard in the end, given what noise did
  early,    \* something was looked at that had not arrived, or is not of its frame
  halted    \* get_check_sum ran off the end of the memory

parser == <<link, wire, buf, heard, due, early, halted>>

Smaller(a, b) == IF a < b THEN a ELSE b

-----------------------------------------------------------------------------
(* One frame.  Offsets count from 0, as in the code.                        *)

FRAME_FIRST == 85
FRAME_SECOND == 170
PROTOCOL_HEAD == IF link = "wifi" THEN 7 ELSE 11

At(b, o) == b[o + 1]

IsHead(b, o) ==
  /\ At(b, o) = FRAME_FIRST
  /\ link = "wifi" => At(b, o + 1) = FRAME_SECOND

\* rx_value_len, an unsigned short.
Total(b, o) ==
  IF link = "wifi" THEN (256 * At(b, o + 4) + At(b, o + 5) + PROTOCOL_HEAD) % 65536
                   ELSE At(b, o + 1)

get_check_sum(pack) ==
  LET Sum[i \in 0..Len(pack)] == IF i = 0 THEN 0 ELSE (Sum[i - 1] + pack[i]) % 256
  IN  Sum[Len(pack)]

\* The TDS service looks one byte behind the length it has waited for.
SumAt(b, o) == IF link = "wifi" THEN Total(b, o) - 1 ELSE Total(b, o)
SumMissing(b, o) == o + SumAt(b, o) >= Len(b)

\* Faulty variant: the checksum is not looked at.
SumRight_Any(b, o, stale) == TRUE

\* In the place of a byte that has not arrived is what an earlier frame left
\* there or, past the end of the buffer, anything: stale says whether it fits.
SumRight(b, o, stale) ==
  \/ SumMissing(b, o) /\ stale
  \/ /\ ~SumMissing(b, o)
     /\ get_check_sum(SubSeq(b, o + 1, o + Total(b, o) - 1)) = At(b, o + SumAt(b, o))

-----------------------------------------------------------------------------
(* What a frame says.                                                       *)

Commands == {1, 3, 21, 23, 25, 27, 28, 29, 30, 31}   \* data_handle's other cases
DATA_ISSUED_CMD == 12
DP_TYPE_VALUE == 2
KnownPoints == (1..54) \ {37}                        \* download_cmd

\* The bytes of a command's data that its case of data_handle looks at.
Reads(cmd_type, total_len) ==
  IF cmd_type = DATA_ISSUED_CMD THEN total_len
  ELSE IF cmd_type \in {29, 30} THEN 4
  ELSE IF cmd_type = 28 THEN 2
  ELSE IF cmd_type \in {3, 27, 31} THEN 1 ELSE 0

\* In the place of what a frame says: data_handle has read on behind its data, where
\* a checksum, the next frame or an earlier one is.
Behind == <<>>

\* A point of an unknown number is compared with the type found behind the
\* table; dp_download_handle has no case for it either way.
data_point_handle(p) ==
  IF At(p, 0) \in KnownPoints /\ At(p, 1) = DP_TYPE_VALUE
  THEN << <<At(p, 0)>> \o SubSeq(p, 5, Len(p)) >>
  ELSE <<>>

Step(data, i) == 256 * At(data, i + 2) + At(data, i + 3) + 4

\* What is found from offset i on, where rest[j] is what is found from j on.  The
\* code's loop does not look whether the last point is cut short.
PointsAt(rest, data, i) ==
  IF i = Len(data) THEN <<>>
  ELSE IF i + 4 > Len(data) THEN <<Behind>>
  ELSE IF i + Step(data, i) > Len(data) THEN <<Behind>>
  ELSE data_point_handle(SubSeq(data, i + 1, i + Step(data, i))) \o rest[i + Step(data, i)]

Points(data) ==
  LET From[i \in 0..Len(data)] == PointsAt(From, data, i)
  IN  From[0]

data_handle(b, o) ==
  LET data == SubSeq(b, o + 7, o + Total(b, o) - 1)
      cmd_type == At(b, o + 3)
  IN  IF Len(data) < Reads(cmd_type, 256 * At(b, o + 4) + At(b, o + 5)) THEN <<Behind>>
      ELSE IF cmd_type = DATA_ISSUED_CMD THEN Points(data)
      ELSE IF cmd_type \in Commands THEN << <<cmd_type>> \o data >> ELSE <<>>

tds_handle(b, o) ==
  IF At(b, o + 2) = 133 THEN << <<At(b, o + 4), At(b, o + 5)>> >> ELSE <<>>

Handled(b, o) == IF link = "wifi" THEN data_handle(b, o) ELSE tds_handle(b, o)

-----------------------------------------------------------------------------
(* The scan of one pass.                                                    *)

\* Faulty variant: a length that fills the buffer and more is waited for.
TooLarge_Off(b, o) == Total(b, o) > BufSize + 1

TooLarge(b, o) == Total(b, o) > BufSize

\* How far a frame is skipped whose checksum is wrong, or whose length.
SkipBad == IF link = "wifi" THEN 3 ELSE 9
SkipLarge == IF link = "wifi" THEN 3 ELSE 1

Result(used, said, missed, crash) ==
  [used |-> used, said |-> said, missed |-> missed, crash |-> crash]

\* One turn of the loop at offset o, where next[p] is what the turns from p on
\* come to.  With a length of 0 the checksum is taken over 65535 bytes, more
\* memory than there is behind the buffer.
ScanAt(next, b, o, stale) ==
  IF Len(b) - o < PROTOCOL_HEAD THEN Result(o, <<>>, FALSE, FALSE)
  ELSE IF ~IsHead(b, o) THEN next[o + 1]
  ELSE IF TooLarge(b, o) THEN next[o + SkipLarge]
  ELSE IF Len(b) - o < Total(b, o) THEN Result(o, <<>>, FALSE, FALSE)
  ELSE IF Total(b, o) = 0 THEN Result(o, <<>>, FALSE, TRUE)
  ELSE LET right == SumRight(b, o, stale)
           rest == next[o + (IF right THEN Total(b, o) ELSE SkipBad)]
           said == IF right THEN Handled(b, o) ELSE <<>>
       IN  Result(rest.used, said \o rest.said,
                  SumMissing(b, o) \/ Contains(said, Behind) \/ rest.missed, rest.crash)

Scan(b, stale) ==
  LET From[o \in 0..Len(b)] == ScanAt(From, b, o, stale)
  IN  From[0]

\* A pass that finds k more bytes in the receive queue.
Pass(k, stale) ==
  LET b == buf \o SubSeq(wire, 1, k)
      r == Scan(b, stale)
  IN  /\ ~halted
      /\ wire' = SubSeq(wire, k + 1, Len(wire))
      /\ buf' = SubSeq(b, r.used + 1, Len(b))
      /\ heard' = heard \o r.said
      /\ early' = (early \/ r.missed)
      /\ halted' = r.crash
      /\ UNCHANGED <<link, due>>

Arrived == 1..Smaller(BufSize - Len(buf), Len(wire))

wifi_uart_service == link = "wifi" /\ \E k \in Arrived : Pass(k, FALSE)

tds_uart_service ==
  link = "tds" /\ \E k \in Arrived : \E stale \in BOOLEAN : Pass(k, stale)

-----------------------------------------------------------------------------
(* The line.                                                                *)

\* A frame as the far end sends it, with the checksum where the service that
\* accepts it looks.
WifiFrame(type, data) ==
  LET b == <<FRAME_FIRST, FRAME_SECOND, 0, type, Len(data) \div 256, Len(data) % 256>> \o data
  IN  Append(b, get_check_sum(b))

TdsFrame(hi, lo) ==
  LET b == <<FRAME_FIRST, 11, 133, 1, hi, lo, 1, 1, 1, 1>>
  IN  b \o <<1, get_check_sum(b)>>

\* Two frames, one byte of the first of which noise drops, changes or adds.
Damaged(b) ==
  {b}
  \cup {RemoveAt(b, i) : i \in 1..Len(b)}
  \cup {ReplaceAt(b, i, x) : i \in 1..Len(b), x \in Noise}
  \cup {InsertAt(b, i, x) : i \in 1..Len(b), x \in Noise}

\* A stray head shortly before the end of a frame, in what the frame says or made
\* by noise: the bytes skipped when it turns out wrong reach into the next frame.
StrayHead(b) ==
  \E o \in 0..(Len(b) - 1) :
    /\ o + SkipBad > Len(b)
    /\ At(b, o) = FRAME_FIRST
    /\ link = "wifi" => o + 1 < Len(b) /\ At(b, o + 1) = FRAME_SECOND

FrameInit ==
  /\ link \in Links
  /\ \E f \in Frames(link), g \in Frames(link) : \E hit \in Damaged(f.bytes) :
       /\ wire = hit \o g.bytes \o [i \in 1..(BufSize + PROTOCOL_HEAD) |-> Filler]
       /\ due = {f.means \o g.means}
                \cup (IF hit = f.bytes THEN {} ELSE {g.means})
                \cup (IF StrayHead(hit) THEN {<<>>} ELSE {})
  /\ buf = <<>> /\ heard = <<>>
  /\ early = FALSE /\ halted = FALSE

FrameNext == wifi_uart_service \/ tds_uart_service

FrameSpec == FrameInit /\ [][FrameNext]_parser

-----------------------------------------------------------------------------
(* Properties.                                                              *)

\* Noise costs at most the frame it hits: whatever byte of the first frame is
\* lost, changed or added, and however the bytes fall into passes, every other
\* frame is acted on once, in order and as it was sent, and a damaged frame is
\* not acted on as something else.  Three exceptions are in the code: a stray
\* head near the end of a damaged frame takes the next one with it (StrayHead), the
\* TDS service compares a checksum that has not arrived and data_handle reads on
\* behind a frame (early), and a length of 0 stops a service (halted).
NoiseCostsOneFrame ==
  ~early /\ ~halted =>
    \E want \in due :
      /\ IsPrefix(heard, want)
      /\ wire = <<>> => heard = want

\* A pass leaves room in the process buffer: a length that can never be filled
\* does not keep the service waiting for good, deaf to every later frame.
NeverWedged == ~halted => Len(buf) < BufSize

\* What will have been acted on when the bytes that are still to come have come:
\* all of them at once, or none when the service has stopped.
Outlook ==
  heard \o (IF halted THEN <<>> ELSE Scan(buf \o wire, FALSE).said)

\* Where the passes cut the bytes makes no difference: no pass changes what will
\* have been acted on in the end, which the bytes alone decide.  The exception is
\* what is looked at before it has arrived (early).
CutsMakeNoDifference == [][early' \/ Outlook' = Outlook]_parser

=============================================================================
