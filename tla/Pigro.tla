----------------------------- MODULE Pigro -----------------------------
(***************************************************************************)
(* pigro, the programmer of AVR microcontrollers (src/pigro/main2.c),      *)
(* which talks to the adapter over a serial port.  One run of the program: *)
(* it brings the chip into programming mode, does one action and lets the  *)
(* chip go.  The first version, which has no adapter (PigroSpi), may be    *)
(* the one that is run.                                                    *)
(*                                                                         *)
(* A hex file is a sequence of lines: a data record, the end record, a     *)
(* record of another type, or a line that is not a record.                 *)
(***************************************************************************)
EXTENDS IspAdapter

CONSTANTS Files,    \* the hex files that may be given
          Flashes,  \* what the chip may hold at the start
          Rounds,   \* how often the ADC is asked, 10 in the code
          MayUnplug \* whether the adapter may be unplugged

VARIABLES action, file,
          direct,   \* it is the first version that is run
          phase,    \* where main() is
          rec, idx, \* the line of the file, the byte of its record
          active, dirty,  \* active_page and dirty_page
          result,   \* the result of the action so far
          ask,      \* the exchange that is under way
          reply,    \* the answer of the last one, <<>> once it is used
          left,     \* rounds or commands of the action still to do
          lost,     \* the adapter is unplugged
          blind     \* history: a command whose echo nobody looks at failed

program == <<action, file, direct, phase, rec, idx, active, dirty, result, ask, reply, left, lost, blind>>
vars == <<chip, adapter, program>>

\* "nofuse" is a wfuse_... whose bits are missing or above 0xFF.
Actions == {"info", "check", "write", "erase", "rfuse", "wfuse", "nofuse", "adc"}

\* The commands of the actions that send a fixed list of them.
Script(act) ==
  CASE act = "info"  -> <<<<Signature, 0, 0, 0>>, <<Signature, 0, 1, 0>>, <<Signature, 0, 2, 0>>>>
    [] act = "rfuse" -> <<<<ReadFuse, 0, 0, 0>>, <<88, 8, 0, 0>>, <<ReadFuse, 8, 0, 0>>>>
    [] act \in {"erase", "write"} -> <<Erase \o <<0, 0>>>>
    [] act = "wfuse" -> <<WriteFuse \o <<0, 1>>>>
    [] OTHER -> <<>>

Spi == INSTANCE PigroSpi

None == [why |-> "none", bytes |-> <<>>]

Init ==
  /\ action \in Actions /\ direct \in BOOLEAN /\ (action = "adc" => ~direct)
  /\ file \in IF action \in {"check", "write"} THEN Files ELSE {<<>>}
  /\ dirty = FALSE /\ ask = None /\ reply = <<>> /\ lost = FALSE
  /\ IF direct THEN Spi!Init
     ELSE /\ phase = "start" /\ rec = 1 /\ idx = 0 /\ active = 0
          /\ result = TRUE /\ blind = FALSE
          /\ left = CASE action = "adc" -> Rounds [] OTHER -> Len(Script(action))
  /\ \E flash \in Flashes : ChipInit(flash)
  /\ \E interrupts \in BOOLEAN : AdapterInit(interrupts /\ ~direct)

(***************************************************************************)
(* The line to the chip.                                                   *)
(***************************************************************************)
IspIo(bytes)    == <<3, 4>> \o bytes
IspReset(level) == <<2, 1, level>>

\* send_packet(): write() on the port, which fails when it is gone.
Send(packets) ==
  IF lost THEN UNCHANGED <<wire, owed>>
  ELSE wire' = wire \o packets /\ owed' = owed \o packets

\* Start an exchange of four bytes.
Ask(why, bytes, before) ==
  /\ ask' = [why |-> why, bytes |-> bytes]
  /\ Send(before \o IspIo(bytes))
  /\ UNCHANGED <<rx, tx, udrie, inbox, pkt, task, n, awake, sout, sin, spdr, adc, reply>>

Asking == ask # None /\ reply = <<>>

\* recv_packet(): the whole packet has come.
RecvPacket ==
  /\ Asking /\ Len(inbox) >= 2 /\ Len(inbox) >= inbox[2] + 2
  /\ reply' = SubSeq(inbox, 3, inbox[2] + 2)
  /\ inbox' = SubSeq(inbox, inbox[2] + 3, Len(inbox))
  /\ UNCHANGED <<chip, wire, rx, tx, udrie, pkt, task, n, awake, sout, sin, spdr, adc, owed,
                 action, file, direct, phase, rec, idx, active, dirty, result, ask, left, lost, blind>>

\* recv_packet() fails, and its caller goes on with what the packet holds: the
\* bytes that have come, over those of the command itself.
RecvFails ==
  /\ Asking /\ lost
  /\ reply' = [i \in 1..Len(ask.bytes) |->
                 IF i + 2 <= Len(inbox) THEN inbox[i + 2] ELSE ask.bytes[i]]
  /\ inbox' = <<>>
  /\ UNCHANGED <<chip, wire, rx, tx, udrie, pkt, task, n, awake, sout, sin, spdr, adc, owed,
                 action, file, direct, phase, rec, idx, active, dirty, result, ask, left, lost, blind>>

\* The adapter is pulled out: it stops, and what it held is gone.
Unplug ==
  /\ MayUnplug /\ ~lost /\ ~direct /\ phase # "exit"
  /\ lost' = TRUE
  /\ wire' = <<>> /\ rx' = <<>> /\ tx' = <<>> /\ udrie' = FALSE
  /\ pkt' = [i \in 1..PacketMax |-> 0] /\ task' = "read" /\ n' = 0 /\ awake' = "asleep"
  /\ sout' = <<>> /\ sin' = <<>> /\ spdr' = <<>> /\ adc' = "off" /\ owed' = <<>>
  /\ UNCHANGED <<chip, inbox, action, file, direct, phase, rec, idx, active, dirty, result, ask, reply, left, blind>>

(***************************************************************************)
(* main(), at_program_enable(), and the actions with a fixed list.         *)
(***************************************************************************)
Echoed == reply[2] = ask.bytes[1]
Used   == reply' = <<>> /\ ask' = None

\* at_program_enable(): RESET down, up and down, and the command, with no
\* answer waited for in between.
ProgramEnable ==
  /\ phase = "start" /\ action # "adc" /\ ask = None
  /\ Ask("enable", Enable \o <<0, 15>>, IspReset(0) \o IspReset(1) \o IspReset(0))
  /\ phase' = "enable"
  /\ UNCHANGED <<chip, action, file, direct, rec, idx, active, dirty, result, left, lost, blind>>

\* Its status: the third byte of the answer repeats the second of the command.
ProgramEnabled ==
  /\ phase = "enable" /\ reply # <<>>
  /\ Used
  /\ result' = (reply[3] = Enable[2])
  /\ phase' = IF ~result' THEN "bye" ELSE IF action = "check" THEN "file" ELSE "script"
  /\ UNCHANGED <<chip, adapter, action, file, direct, rec, idx, active, dirty, left, lost, blind>>

\* at_chip_info(), at_chip_erase() and the fuses.
Command ==
  /\ phase = "script" /\ ask = None /\ left > 0
  /\ Ask("script", Script(action)[Len(Script(action)) - left + 1], <<>>)
  /\ UNCHANGED <<chip, action, file, direct, phase, rec, idx, active, dirty, result, left, lost, blind>>

\* "wrong fuse bits": nothing is sent.
FuseRefused ==
  /\ phase = "script" /\ ask = None /\ left = 0
  /\ result' = FALSE /\ phase' = "bye"
  /\ UNCHANGED <<chip, adapter, action, file, direct, rec, idx, active, dirty, ask, reply, left, lost, blind>>

\* at_act_write() goes on with the file when the chip has been erased.
CommandDone ==
  /\ phase = "script" /\ reply # <<>>
  /\ Used
  /\ left' = left - 1
  /\ result' = (action \in {"info", "rfuse"} \/ Echoed)
  /\ phase' = IF left > 1 THEN phase ELSE IF action = "write" /\ Echoed THEN "file" ELSE "bye"
  /\ UNCHANGED <<chip, adapter, action, file, direct, rec, idx, active, dirty, lost, blind>>

\* at_act_adc(): without programming mode.  cmd_adc() does not read when it
\* could not write.
Adc ==
  /\ action = "adc" /\ phase \in {"start", "adc"} /\ ask = None
  /\ IF left = 0 THEN phase' = "bye" /\ UNCHANGED <<wire, owed, ask, left>>
     ELSE /\ phase' = "adc"
          /\ Send(<<4, 1, 0>>)
          /\ IF lost THEN left' = left - 1 /\ UNCHANGED ask
             ELSE ask' = [why |-> "adc", bytes |-> <<0>>] /\ UNCHANGED left
  /\ UNCHANGED <<chip, rx, tx, udrie, inbox, pkt, task, n, awake, sout, sin, spdr, adc,
                 action, file, direct, rec, idx, active, dirty, result, reply, lost, blind>>

AdcDone ==
  /\ phase = "adc" /\ reply # <<>>
  /\ Used
  /\ left' = left - 1
  /\ UNCHANGED <<chip, adapter, action, file, direct, phase, rec, idx, active, dirty, result, lost, blind>>

\* The end of main(): RESET goes up again.
Bye ==
  /\ phase = "bye"
  /\ Send(IspReset(1))
  /\ phase' = "exit"
  /\ UNCHANGED <<chip, rx, tx, udrie, inbox, pkt, task, n, awake, sout, sin, spdr, adc,
                 action, file, direct, rec, idx, active, dirty, result, ask, reply, left, lost, blind>>

(***************************************************************************)
(* at_check_firmware() and at_write_firmware().                            *)
(***************************************************************************)
InFile  == phase = "file" /\ rec <= Len(file)
Line    == file[rec]
Address == Line.addr + idx
Offset(a) == (a \div 2) % 65536
PageOf(a) == 16 * (Offset(a) \div 16)
Has(kind) == InFile /\ Line.kind = kind
InData    == Has("data") /\ idx < Len(Line.data)
Byte      == Line.data[idx + 1]

\* A command with an address: the low or the high byte of a word.
At(low, high, a, b) == <<IF a % 2 = 1 THEN high ELSE low, Offset(a) \div 256, Offset(a) % 256, b>>

\* A line is done: the next one, or the end of the loop.
NextLine ==
  /\ ask = None
  /\ \/ /\ Has("other") \/ (Has("data") /\ ~InData)
        /\ rec' = rec + 1 /\ idx' = 0 /\ UNCHANGED phase
     \/ /\ phase = "file" /\ (Has("wrong") \/ ~InFile)
        /\ phase' = IF action = "write" THEN "final" ELSE "bye"
        /\ UNCHANGED <<rec, idx>>
     \/ /\ Has("end")
        /\ phase' = IF action = "write" THEN "last" ELSE "bye"
        /\ UNCHANGED <<rec, idx>>
  /\ UNCHANGED <<chip, adapter, action, file, direct, active, dirty, result, ask, reply, left, lost, blind>>

\* at_read_memory(): of the answer only the data is looked at.
ReadMemory ==
  /\ InData /\ action = "check" /\ ask = None
  /\ Ask("read", At(ReadLow, ReadHigh, Address, 0), <<>>)
  /\ UNCHANGED <<chip, action, file, direct, phase, rec, idx, active, dirty, result, left, lost, blind>>

Compare ==
  /\ ask.why = "read" /\ reply # <<>>
  /\ Used
  /\ result' = (result /\ reply[4] = Byte) /\ idx' = idx + 1
  /\ blind' = (blind \/ lost \/ ~Echoed)
  /\ UNCHANGED <<chip, adapter, action, file, direct, phase, rec, active, dirty, left, lost>>

\* Mutant: the buffer is not marked as dirty.
WriteMemoryClean ==
  /\ InData /\ action = "write" /\ ask = None /\ PageOf(Address) = active
  /\ Ask("load", At(LoadLow, LoadHigh, Address, Byte), <<>>)
  /\ UNCHANGED <<chip, action, file, direct, phase, rec, idx, active, dirty, result, left, lost, blind>>

\* at_write_memory() within the active page.
WriteMemory ==
  /\ InData /\ action = "write" /\ ask = None /\ PageOf(Address) = active
  /\ dirty' = TRUE
  /\ Ask("load", At(LoadLow, LoadHigh, Address, Byte), <<>>)
  /\ UNCHANGED <<chip, action, file, direct, phase, rec, idx, active, result, left, lost, blind>>

Written ==
  /\ ask.why = "load" /\ reply # <<>>
  /\ Used
  /\ result' = (result /\ Echoed) /\ idx' = idx + 1
  /\ UNCHANGED <<chip, adapter, action, file, direct, phase, rec, active, dirty, left, lost, blind>>

\* at_flush() is called when the page changes, at the end record and after
\* the loop; its status is not looked at.
Flushing == (InData /\ action = "write" /\ PageOf(Address) # active) \/ phase \in {"last", "final"}

AfterFlush ==
  /\ phase' = CASE phase = "last" -> "final" [] phase = "final" -> "bye" [] OTHER -> phase
  /\ active' = IF phase = "file" THEN PageOf(Address) ELSE active
  /\ dirty' = FALSE

Flush ==
  /\ Flushing /\ ask = None
  /\ dirty
  /\ Ask("flush", At(WritePage, WritePage, 2 * active, 0), <<>>)
  /\ UNCHANGED <<chip, action, file, direct, phase, rec, idx, active, dirty, result, left, lost, blind>>

NothingToFlush ==
  /\ Flushing /\ ask = None /\ ~dirty
  /\ AfterFlush
  /\ UNCHANGED <<chip, adapter, action, file, direct, rec, idx, result, ask, reply, left, lost, blind>>

Flushed ==
  /\ ask.why = "flush" /\ reply # <<>>
  /\ Used /\ AfterFlush
  /\ blind' = (blind \/ ~Echoed)
  /\ UNCHANGED <<chip, adapter, action, file, direct, rec, idx, result, left, lost>>

\* The program of main2.c.
Main2 ==
  \/ ProgramEnable \/ ProgramEnabled \/ Command \/ FuseRefused \/ CommandDone \/ Adc \/ AdcDone \/ Bye
  \/ NextLine \/ ReadMemory \/ Compare \/ WriteMemory \/ Written
  \/ Flush \/ NothingToFlush \/ Flushed \/ RecvPacket \/ RecvFails

\* The program of main.c, which leaves the adapter alone.
Main1 == Spi!Next /\ UNCHANGED <<adapter, direct, dirty, ask, reply, lost>>

Program == IF direct THEN Main1 ELSE Main2

Adapter == (MainLoop \/ Interrupts) /\ ~lost /\ UNCHANGED program

\* The chip misses a command of the program's.
ChipMisses == phase # "exit" /\ GoDeaf /\ UNCHANGED <<adapter, program>>

Next == Program \/ Adapter \/ ChipMisses \/ Unplug

\* The program runs, the processor of the adapter runs, and what has been
\* started (a byte on a line, a conversion) comes to its end.
Fairness ==
  /\ WF_vars(Program)
  /\ WF_vars(MainLoop /\ ~lost /\ UNCHANGED program)
  /\ WF_vars(ReceiveComplete /\ ~lost /\ UNCHANGED program)
  /\ WF_vars(DataRegisterEmpty /\ ~lost /\ UNCHANGED program)
  /\ WF_vars(TransferComplete /\ ~lost /\ UNCHANGED program)
  /\ WF_vars(ConversionComplete /\ ~lost /\ UNCHANGED program)

Spec == Init /\ [][Next]_vars /\ Fairness

(***************************************************************************)
(* Properties.                                                             *)
(***************************************************************************)
Phases == {"start", "enable", "script", "adc", "file", "last", "final", "bye", "exit",
           "erase", "again", "flush"}

TypeOK ==
  /\ phase \in Phases /\ result \in BOOLEAN /\ dirty \in BOOLEAN
  /\ task \in {"read", "shift", "collect", "reply"} /\ awake \in {"awake", "about", "asleep"}
  /\ n \in 0..PacketMax /\ Len(rx) <= RingSize /\ Len(tx) <= RingSize
  /\ adc \in {"off", "on", "running"} /\ chip.reset \in {0, 1}

\* The two ends keep step: bytes arrive in order, an answer is under way only
\* while the program waits for one, and the one that it reads says what the
\* chip said to the command that it asked.
InStep ==
  /\ TypeOK /\ BytesInOrder
  /\ ask = None => inbox = <<>> /\ tx = <<>> /\ task = "read" /\ sin = <<>> /\ spdr = <<>>
  /\ reply # <<>> /\ ~lost /\ ask.why # "adc" =>
       \/ reply = <<Blank, Blank, Blank, Blank>>
       \/ reply[2] = ask.bytes[1] /\ reply[3] = ask.bytes[2]

\* A file whose lines are all records, with no address twice, and which ends.
WellFormed ==
  /\ \A r \in DOMAIN file : file[r].kind \in {"data", "end"}
  /\ \A r \in DOMAIN file : file[r].kind = "end" => r = Len(file)
  /\ \A r, q \in DOMAIN file : \A i \in DOMAIN file[r].data, j \in DOMAIN file[q].data :
       file[r].addr + i = file[q].addr + j => r = q /\ i = j

\* The flash holds what the data records say.
FlashHolds ==
  \A r \in DOMAIN file : file[r].kind = "data" =>
    \A i \in DOMAIN file[r].data : chip.flash[file[r].addr + i - 1] = file[r].data[i]

\* When pigro is done it says "ok" or "same" only of a chip that holds the
\* file, unless the file is not whole or a command failed whose echo it does
\* not look at; and the chip runs again as soon as the last packet has arrived.
ExitSound ==
  phase = "exit" =>
    /\ action \in {"write", "check"} /\ result /\ ~blind /\ WellFormed => FlashHolds
    /\ ~lost /\ owed = <<>> => chip.reset = 1

\* Every exchange ends, unless the adapter sleeps for ever over a byte that
\* came between the test of its ring and the sleep instruction.
Answered == []<>(~Asking) \/ <>[]Overslept

\* While they talk the three keep step, and when they are done the program's
\* word about the chip is true.
RoundSound == InStep /\ ExitSound
=============================================================================
