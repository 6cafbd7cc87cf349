--------------------------- MODULE IspAdapter ---------------------------
(***************************************************************************)
(* The firmware of the USB <-> SPI adapter (src/avr/pigro_avr): a main     *)
(* loop that reads packets, and interrupts that move bytes between the     *)
(* UART, the SPI and four ring buffers.  The main loop sleeps when a ring  *)
(* is empty; the test of the ring and the sleep instruction are two steps, *)
(* and an interrupt may come between them.                                 *)
(***************************************************************************)
EXTENDS IspChip

CONSTANT RingSize  \* inp_buf and out_buf, 16 bytes each

VARIABLES wire,   \* bytes on the way from the PC
          rx,     \* the UART's input ring
          tx,     \* the UART's output ring
          udrie,  \* "data register empty" interrupts are enabled
          inbox,  \* bytes that have reached the PC
          pkt,    \* pkt.cmd, pkt.len and pkt.data, in a row
          task,   \* what the main loop is at
          n,      \* its index in the packet or in the four bytes
          awake,  \* awake, about (getc has failed, not asleep yet), asleep
          sout,   \* the SPI's output ring
          sin,    \* the SPI's input ring
          spdr,   \* <<>> (out_ready), or the byte being shifted
          adc,    \* off, on (ADEN), running
          owed    \* history: bytes of the packets not acted on yet

adapter == <<wire, rx, tx, udrie, inbox, pkt, task, n, awake, sout, sin, spdr, adc, owed>>

PacketMax == 8  \* cmd, len and PACKET_MAXLEN bytes of data

AdapterInit(interrupts) ==
  /\ wire = <<>> /\ rx = <<>> /\ tx = <<>> /\ udrie = interrupts /\ inbox = <<>>
  /\ pkt = [i \in 1..PacketMax |-> 0] /\ task = "read" /\ n = 0 /\ awake = "awake"
  /\ sout = <<>> /\ sin = <<>> /\ spdr = <<>> /\ adc = "off" /\ owed = <<>>

\* Any interrupt ends the sleep; one that comes before it does not.
Woken == IF awake = "asleep" THEN "awake" ELSE awake

\* The ring that the main loop waits on: usart_getc_sync() or spi_getc_sync().
Source == CASE task = "read" -> rx [] task = "collect" -> sin [] OTHER -> <<>>
Waits  == task \in {"read", "collect"}

(***************************************************************************)
(* Interrupts.                                                             *)
(***************************************************************************)
\* USART_RXC: with a full ring the byte stays in the data register.
ReceiveComplete ==
  /\ wire # <<>> /\ Len(rx) < RingSize
  /\ rx' = Append(rx, Head(wire)) /\ wire' = Tail(wire) /\ awake' = Woken
  /\ UNCHANGED <<chip, tx, udrie, inbox, pkt, task, n, sout, sin, spdr, adc, owed>>

\* Mutant: the interrupt is disabled with bytes still to send.
DataRegisterOnce ==
  /\ udrie
  /\ IF tx = <<>> THEN awake = "asleep" /\ UNCHANGED <<tx, inbox, udrie>>
     ELSE inbox' = Append(inbox, Head(tx)) /\ tx' = Tail(tx) /\ udrie' = FALSE
  /\ awake' = Woken
  /\ UNCHANGED <<chip, wire, rx, pkt, task, n, sout, sin, spdr, adc, owed>>

\* USART_UDRE, and USART_TXC when the byte has left.  While it is enabled with
\* nothing to send, as it is until the first reply, it keeps coming.
DataRegisterEmpty ==
  /\ udrie
  /\ IF tx = <<>>
     THEN /\ awake = "asleep" /\ UNCHANGED <<tx, inbox, udrie>>
     ELSE /\ inbox' = Append(inbox, Head(tx)) /\ tx' = Tail(tx)
          /\ udrie' = (Len(tx) > 1)
  /\ awake' = Woken
  /\ UNCHANGED <<chip, wire, rx, pkt, task, n, sout, sin, spdr, adc, owed>>

\* SPI_STC: the byte has been shifted, the chip's byte has come in.
TransferComplete ==
  /\ spdr # <<>>
  /\ chip' = Shifted(chip, Head(spdr))
  /\ spdr' = IF sout = <<>> THEN <<>> ELSE <<Head(sout)>>
  /\ sout' = IF sout = <<>> THEN <<>> ELSE Tail(sout)
  /\ sin' = IF Len(sin) < RingSize THEN Append(sin, chip'.out) ELSE sin
  /\ awake' = Woken
  /\ UNCHANGED <<wire, rx, tx, udrie, inbox, pkt, task, n, adc, owed>>

\* usart_putc() of each byte in turn; what does not fit is dropped.
Put(bytes) == LET room == RingSize - Len(tx)
              IN tx \o SubSeq(bytes, 1, IF Len(bytes) < room THEN Len(bytes) ELSE room)

\* ADC: the reply is built in pkt, which the main loop reads packets into.
\* The main loop is stopped, so the interrupts that usart_putc() lets in see
\* no more than they would after it.
ConversionComplete ==
  /\ adc = "running"
  /\ pkt' = [pkt EXCEPT ![1] = 4, ![2] = 2, ![3] = 17, ![4] = 3]
  /\ tx' = Put(SubSeq(pkt', 1, 4)) /\ udrie' = TRUE
  /\ adc' = "off" /\ awake' = Woken
  /\ UNCHANGED <<chip, wire, rx, inbox, task, n, sout, sin, spdr, owed>>

(***************************************************************************)
(* The main loop.                                                          *)
(***************************************************************************)
\* usart_getc() or spi_getc() finds an empty ring.
FindEmpty ==
  /\ awake = "awake" /\ Waits /\ Source = <<>>
  /\ awake' = "about"
  /\ UNCHANGED <<chip, wire, rx, tx, udrie, inbox, pkt, task, n, sout, sin, spdr, adc, owed>>

\* sleep_cpu(): in idle mode the converter, if it is enabled, starts.
Sleep ==
  /\ awake = "about"
  /\ awake' = "asleep" /\ adc' = IF adc = "on" THEN "running" ELSE adc
  /\ UNCHANGED <<chip, wire, rx, tx, udrie, inbox, pkt, task, n, sout, sin, spdr, owed>>

\* handle_packet(): the packet is whole.  One that is too long is skipped.
HandlePacket(p) ==
  LET long == p[2] + 2 > PacketMax
  IN /\ owed' = SubSeq(owed, p[2] + 3, Len(owed))
     /\ chip' = IF ~long /\ p[1] = 2 /\ p[2] = 1
                THEN WithReset(chip, IF p[3] = 0 THEN 0 ELSE 1) ELSE chip
     /\ task' = IF ~long /\ p[1] = 3 /\ p[2] = 4 THEN "shift" ELSE "read"
     /\ adc' = IF ~long /\ p[1] = 4 THEN "on" ELSE adc
     /\ n' = 0

\* read_packet(): one byte of it.
ReadByte ==
  /\ awake = "awake" /\ task = "read" /\ rx # <<>>
  /\ rx' = Tail(rx)
  /\ pkt' = IF n < PacketMax THEN [pkt EXCEPT ![n + 1] = Head(rx)] ELSE pkt
  /\ IF n >= 1 /\ n + 1 = pkt'[2] + 2
     THEN HandlePacket(pkt')
     ELSE n' = n + 1 /\ UNCHANGED <<chip, task, adc, owed>>
  /\ UNCHANGED <<wire, tx, udrie, inbox, awake, sout, sin, spdr>>

\* cmd_isp_io(): spi_putc(), to the register if it is free, else to the ring.
PutSpi ==
  /\ awake = "awake" /\ task = "shift"
  /\ IF Len(sout) >= RingSize THEN UNCHANGED <<spdr, sout>>
     ELSE IF spdr = <<>> THEN spdr' = <<pkt[n + 3]>> /\ UNCHANGED sout
     ELSE sout' = Append(sout, pkt[n + 3]) /\ UNCHANGED spdr
  /\ n' = (n + 1) % 4 /\ task' = IF n = 3 THEN "collect" ELSE task
  /\ UNCHANGED <<chip, wire, rx, tx, udrie, inbox, pkt, awake, sin, adc, owed>>

\* Mutant: three of the four answers are read.
CollectSpiEarly ==
  /\ awake = "awake" /\ task = "collect" /\ sin # <<>>
  /\ sin' = Tail(sin) /\ pkt' = [pkt EXCEPT ![n + 3] = Head(sin)]
  /\ n' = (n + 1) % 3 /\ task' = IF n = 2 THEN "reply" ELSE task
  /\ UNCHANGED <<chip, wire, rx, tx, udrie, inbox, awake, sout, spdr, adc, owed>>

\* cmd_isp_io(): spi_getc_sync().
CollectSpi ==
  /\ awake = "awake" /\ task = "collect" /\ sin # <<>>
  /\ sin' = Tail(sin) /\ pkt' = [pkt EXCEPT ![n + 3] = Head(sin)]
  /\ n' = (n + 1) % 4 /\ task' = IF n = 3 THEN "reply" ELSE task
  /\ UNCHANGED <<chip, wire, rx, tx, udrie, inbox, awake, sout, spdr, adc, owed>>

\* send_packet(): one usart_putc() of it.
SendReply ==
  /\ awake = "awake" /\ task = "reply"
  /\ tx' = Put(<<pkt[n + 1]>>) /\ udrie' = (udrie \/ tx' # tx)
  /\ IF n + 1 = pkt[2] + 2 THEN n' = 0 /\ task' = "read" ELSE n' = n + 1 /\ UNCHANGED task
  /\ UNCHANGED <<chip, wire, rx, inbox, pkt, awake, sout, sin, spdr, adc, owed>>

MainLoop == FindEmpty \/ Sleep \/ ReadByte \/ PutSpi \/ CollectSpi \/ SendReply

Interrupts == ReceiveComplete \/ DataRegisterEmpty \/ TransferComplete \/ ConversionComplete

(***************************************************************************)
(* Properties of the adapter with a program at the other end.              *)
(***************************************************************************)
\* The main loop sleeps over a byte that came between its test and its sleep.
Overslept == awake = "asleep" /\ Source # <<>>

\* No byte that the program has sent is lost, taken twice or overtaken on its
\* way through the line, the ring and the packet, and none comes to a full
\* ring: the program may send four packets before it waits for an answer.
BytesInOrder ==
  /\ owed = (IF task = "read" THEN SubSeq(pkt, 1, n) ELSE <<>>) \o rx \o wire
  /\ Len(rx) = RingSize => wire = <<>>
=============================================================================
