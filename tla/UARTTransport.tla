--------------------------- MODULE UARTTransport ---------------------------
(***************************************************************************)
(* The UART transport of the STM32 build (stm32_platform.cpp): the frames   *)
(* of send_raw on the way in, the receive interrupt, and receive_raw, which *)
(* polls a flag and hands one byte per poll to the frame automaton.         *)
(* A peer runs the same code; what it transmits arrives on `line'.          *)
(***************************************************************************)
EXTENDS Integers, Sequences, SequencesExt, FiniteSetsExt

CONSTANTS
    MaxPacket,    \* NETWORK_MAX_PACKET_SIZE
    MacLen,       \* bytes of an address (6)
    Strays        \* the bytes that may lie before uart_rx_buffer in memory

START_BYTE  == 170
ESCAPE_BYTE == 85
END_BYTE    == 85

Byte == 0 .. 255

ASSUME UartAssumption == /\ MacLen \in Nat \ {0}
                         /\ MaxPacket \in Nat /\ MaxPacket > MacLen
                         /\ Strays \subseteq Byte

VARIABLES
    line,                  \* transmitted bytes that have not arrived yet
    uart_rx_buffer, uart_rx_pos, uart_data_available,
    frame_buffer,          \* its first frame_pos bytes
    escaping, in_frame,
    polling,               \* inside receive_raw: "out", "wait" or "cleared"
    delivered,             \* what receive_raw has returned: <<mac, data>>
    frames,                \* history: what peers gave to send_raw, how much got out
    missed                 \* history: a byte was overwritten, reread or stray

uartVars == <<line, uart_rx_buffer, uart_rx_pos, uart_data_available, frame_buffer,
              escaping, in_frame, polling, delivered, frames, missed>>

receiver == <<uart_rx_buffer, uart_rx_pos, uart_data_available>>
automaton == <<frame_buffer, escaping, in_frame>>

UartInit ==
    /\ line = <<>>
    /\ uart_rx_buffer = [i \in 0 .. MaxPacket - 1 |-> 0]
    /\ uart_rx_pos = 0
    /\ uart_data_available = FALSE
    /\ frame_buffer = <<>>
    /\ escaping = FALSE
    /\ in_frame = FALSE
    /\ polling = "out"
    /\ delivered = <<>>
    /\ frames = <<>>
    /\ missed = FALSE

(***************************************************************************)
(* Sending                                                                 *)
(***************************************************************************)
\* byte ^ 0x20
Toggle(byte) == IF (byte \div 32) % 2 = 1 THEN byte - 32 ELSE byte + 32

IsSpecial(byte) == byte \in {START_BYTE, ESCAPE_BYTE, END_BYTE}

Escaped(byte) == IF IsSpecial(byte) THEN <<ESCAPE_BYTE, Toggle(byte)>> ELSE <<byte>>

\* The bytes send_frame transmits when every send_byte succeeds.
Encoded(packet) ==
    <<START_BYTE>> \o FlattenSeq([i \in DOMAIN packet |-> Escaped(packet[i])]) \o <<END_BYTE>>

\* send_raw refuses an empty payload, send_frame a packet longer than the buffer. Not
\* modelled: by then send_raw has copied it to an array of MaxPacket bytes on its stack
\* (line 151), so what a call with more than MaxPacket - MacLen bytes does is undefined;
\* the only call in the repository sends a short constant (main_unified.cpp:151).
Sendable(mac, data) ==
    Len(mac) = MacLen /\ Len(data) > 0 /\ Len(mac) + Len(data) <= MaxPacket

\* A peer sends a packet; a transmission that times out ends the frame after n bytes.
PeerSends(mac, data, n) ==
    /\ Sendable(mac, data)
    /\ n \in 0 .. Len(Encoded(mac \o data))
    /\ line' = line \o SubSeq(Encoded(mac \o data), 1, n)
    /\ frames' = Append(frames, [packet |-> mac \o data, out |-> n])
    /\ UNCHANGED <<receiver, automaton, polling, delivered, missed>>

(***************************************************************************)
(* Receiving                                                               *)
(***************************************************************************)
\* Mutant of RxCplt: the position runs on at the end of the buffer.
RxCpltRunsOn ==
    /\ line # <<>>
    /\ uart_rx_buffer' = [uart_rx_buffer EXCEPT ![uart_rx_pos] = Head(line)]
    /\ line' = Tail(line)
    /\ uart_data_available' = TRUE
    /\ uart_rx_pos' = uart_rx_pos + 1
    /\ missed' = (missed \/ uart_data_available \/ polling = "cleared")
    /\ UNCHANGED <<automaton, polling, delivered, frames>>

\* HAL_UART_RxCpltCallback: the byte is in the buffer; flag and position follow. A user
\* callback would call receive_raw with a time-out of 0, which polls nothing.
RxCplt ==
    /\ line # <<>>
    /\ uart_rx_buffer' = [uart_rx_buffer EXCEPT ![uart_rx_pos] = Head(line)]
    /\ line' = Tail(line)
    /\ uart_data_available' = TRUE
    /\ uart_rx_pos' = (uart_rx_pos + 1) % MaxPacket
    /\ missed' = (missed \/ uart_data_available \/ polling = "cleared")
    /\ UNCHANGED <<automaton, polling, delivered, frames>>

\* receive_raw finds the flag set and clears it; the interrupt may come before the read.
PollClear ==
    /\ polling = "wait"
    /\ uart_data_available
    /\ uart_data_available' = FALSE
    /\ polling' = "cleared"
    /\ UNCHANGED <<line, uart_rx_buffer, uart_rx_pos, automaton, delivered, frames, missed>>

\* uart_rx_buffer[uart_rx_pos - 1]: with position 0 a byte from outside the buffer.
ReadBytes ==
    IF uart_rx_pos = 0 THEN Strays ELSE {uart_rx_buffer[uart_rx_pos - 1]}

\* Mutant of FrameStep: a start byte does not empty the buffer.
FrameStepKeeps(byte) ==
    LET plain == IF escaping THEN Toggle(byte) ELSE byte
        stay  == [buffer |-> frame_buffer, esc |-> escaping, inside |-> in_frame, full |-> FALSE]
    IN  CASE byte = START_BYTE  -> [stay EXCEPT !.esc = FALSE, !.inside = TRUE]
          [] byte # START_BYTE /\ ~in_frame -> stay
          [] byte = END_BYTE /\ in_frame ->
               [stay EXCEPT !.inside = FALSE, !.full = frame_buffer # <<>>]
          [] byte = ESCAPE_BYTE /\ byte # END_BYTE /\ in_frame -> [stay EXCEPT !.esc = TRUE]
          [] OTHER ->
               [stay EXCEPT !.esc = FALSE,
                            !.buffer = IF Len(@) < MaxPacket THEN Append(@, plain) ELSE @]

\* receive_frame on one byte: the automaton it leaves, and whether a frame is complete.
FrameStep(byte) ==
    LET plain == IF escaping THEN Toggle(byte) ELSE byte
        stay  == [buffer |-> frame_buffer, esc |-> escaping, inside |-> in_frame, full |-> FALSE]
    IN  CASE byte = START_BYTE  -> [stay EXCEPT !.buffer = <<>>, !.esc = FALSE, !.inside = TRUE]
          [] byte # START_BYTE /\ ~in_frame -> stay
          [] byte = END_BYTE /\ in_frame ->
               [stay EXCEPT !.inside = FALSE, !.full = frame_buffer # <<>>]
          [] byte = ESCAPE_BYTE /\ byte # END_BYTE /\ in_frame -> [stay EXCEPT !.esc = TRUE]
          [] OTHER ->
               [stay EXCEPT !.esc = FALSE,
                            !.buffer = IF Len(@) < MaxPacket THEN Append(@, plain) ELSE @]

\* The rest of the poll: a complete frame of at least six bytes ends receive_raw.
PollRead ==
    /\ polling = "cleared"
    /\ \E byte \in ReadBytes :
         LET next == FrameStep(byte)
             done == next.full /\ Len(next.buffer) >= MacLen
         IN  /\ frame_buffer' = next.buffer
             /\ escaping' = next.esc
             /\ in_frame' = next.inside
             /\ delivered' = IF done
                             THEN Append(delivered, << SubSeq(next.buffer, 1, MacLen),
                                                       SubSeq(next.buffer, MacLen + 1, Len(next.buffer)) >>)
                             ELSE delivered
             /\ polling' = IF done THEN "out" ELSE "wait"
    /\ missed' = (missed \/ uart_rx_pos = 0)
    /\ UNCHANGED <<line, receiver, frames>>

ReceiveCall ==
    /\ polling = "out"
    /\ polling' = "wait"
    /\ UNCHANGED <<line, receiver, automaton, delivered, frames, missed>>

\* timeout_ms have passed.
ReceiveTimeout ==
    /\ polling = "wait"
    /\ polling' = "out"
    /\ UNCHANGED <<line, receiver, automaton, delivered, frames, missed>>

(***************************************************************************)
(* Properties                                                              *)
(***************************************************************************)
UartTypeOK ==
    /\ line \in Seq(Byte)
    /\ uart_rx_buffer \in [0 .. MaxPacket - 1 -> Byte]
    /\ uart_rx_pos \in 0 .. MaxPacket - 1
    /\ frame_buffer \in Seq(Byte) /\ Len(frame_buffer) <= MaxPacket
    /\ {uart_data_available, escaping, in_frame, missed} \subseteq BOOLEAN
    /\ polling \in {"out", "wait", "cleared"}

\* The packets whose transmission was complete, as send_raw was given them.
Whole(frame) ==
    IF frame.out = Len(Encoded(frame.packet))
    THEN << <<SubSeq(frame.packet, 1, MacLen),
              SubSeq(frame.packet, MacLen + 1, Len(frame.packet))>> >>
    ELSE <<>>
SentWhole == FlattenSeq([i \in DOMAIN frames |-> Whole(frames[i])])

\* Nothing but the packets of due was returned, in their order, and all of them when
\* nothing is on its way. A byte that is not polled before the next one comes is lost, and
\* with it any promise.
Received(due) ==
    ~missed => /\ IsPrefix(delivered, due)
               /\ (line = <<>> /\ polling = "wait" /\ ~uart_data_available) => delivered = due

\* "Send data with escaping" (stm32_platform.cpp:81), "Toggle bit 5 back" (line 132): what
\* arrives is what was sent, whatever bytes it holds. ESCAPE_BYTE is END_BYTE
\* (network_abstract.h:193), and the first escape ends the frame.
SentIsReceived == Received(SentWhole)

\* What of it holds: packets without a byte that has to be escaped arrive whole and in
\* order, and what is left of a transmission that broke off spoils none of them
\* (receive_frame, stm32_platform.cpp:97-141).
PlainFramesArrive ==
    (\A i \in DOMAIN frames : \A j \in DOMAIN frames[i].packet : ~IsSpecial(frames[i].packet[j]))
        => Received(SentWhole)
=============================================================================
