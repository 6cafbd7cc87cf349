---------------------------- MODULE PigroSpi ----------------------------
(***************************************************************************)
(* The first version of pigro (src/pigro/main.c), which drives the SPI bus *)
(* and the RESET line of a Raspberry Pi itself.  There is no second        *)
(* process: an exchange with the chip is one step, and the chip may miss   *)
(* one between two steps.  Files and actions are those of Pigro.           *)
(***************************************************************************)
EXTENDS IspChip

VARIABLES action, file,
          phase,     \* where main() is
          rec, idx,  \* the line of the file, the byte of its record
          active,    \* active_page
          result,    \* what at_act_...() will print
          left,      \* commands of the action still to do
          blind      \* history: a command whose status nobody looks at failed

spi_vars == <<chip, action, file, phase, rec, idx, active, result, left, blind>>

LOW  == 0  \* the levels of the RESET line
HIGH == 1

(***************************************************************************)
(* The bus.                                                                *)
(***************************************************************************)
\* at_io(): the chip after four bytes, and its four answers.
AtIo(c, cmd) == [chip |-> Exchanged(c, cmd), byte |-> Answers(c, cmd)]

\* A command is taken for done when its first byte comes back.
Ok(io, cmd) == io.byte[2] = cmd[1]

\* at_reboot()
Rebooted(c) == WithReset(WithReset(c, HIGH), LOW)

\* at_program_enable(): the command after a pulse of RESET; its status is the
\* third byte of the answer.
ProgramEnabled(c) ==
  LET io == AtIo(Rebooted(WithReset(c, LOW)), Enable \o <<0, 0>>)
  IN [chip |-> io.chip, ok |-> io.byte[3] = Enable[2]]

\* at_chip_info(), at_act_read_fuse(), at_act_write_fuse_lo() and its like.
InfoCommands  == [i \in 1..3 |-> <<Signature, 0, i - 1, 0>>]
FuseReads     == <<<<ReadFuse, 0, 0, 0>>, <<88, 8, 0, 0>>, <<ReadFuse, 8, 0, 0>>>>
FuseWrites    == <<WriteFuse \o <<0, 1>>>>

Commands ==
  CASE action = "info"  -> InfoCommands
    [] action = "rfuse" -> FuseReads
    [] action = "wfuse" -> FuseWrites
    [] OTHER -> <<>>

(***************************************************************************)
(* main() and the actions.                                                 *)
(***************************************************************************)
\* at_init(), and the arguments.
Init ==
  /\ phase = "start" /\ rec = 1 /\ idx = 0 /\ active = 0
  /\ result = TRUE /\ blind = FALSE /\ left = Len(Commands)

\* run()
First == CASE action = "check" -> "file"
           [] action \in {"erase", "write"} -> "erase"
           [] OTHER -> "script"

\* It is called if the chip answers; else nothing follows but the end of main().
ProgramEnable ==
  /\ phase = "start"
  /\ LET enabled == ProgramEnabled(chip)
     IN /\ chip' = enabled.chip /\ result' = enabled.ok
        /\ phase' = IF enabled.ok THEN First ELSE "bye"
  /\ UNCHANGED <<action, file, rec, idx, active, left, blind>>

\* at_act_info(), at_act_read_fuse(), at_act_write_fuse_...()
Command ==
  /\ phase = "script" /\ left > 0
  /\ LET cmd == Commands[Len(Commands) - left + 1]  io == AtIo(chip, cmd)
     IN chip' = io.chip /\ result' = (action # "wfuse" \/ Ok(io, cmd))
  /\ left' = left - 1 /\ phase' = IF left = 1 THEN "bye" ELSE phase
  /\ UNCHANGED <<action, file, rec, idx, active, blind>>

\* The fuse bits are missing or above 0xFF: nothing is sent.
FuseRefused ==
  /\ phase = "script" /\ left = 0
  /\ result' = FALSE /\ phase' = "bye"
  /\ UNCHANGED <<chip, action, file, rec, idx, active, left, blind>>

\* at_chip_erase(): when it worked, the chip has to be enabled again.
ChipErase ==
  /\ phase = "erase"
  /\ LET cmd == Erase \o <<0, 0>>  io == AtIo(chip, cmd)
     IN /\ result' = Ok(io, cmd)
        /\ chip' = IF result' THEN Rebooted(io.chip) ELSE io.chip
        /\ phase' = IF result' THEN "again" ELSE "bye"
  /\ UNCHANGED <<action, file, rec, idx, active, left, blind>>

\* Its end: nobody looks at the status of this at_program_enable().
EnableAgain ==
  /\ phase = "again"
  /\ LET enabled == ProgramEnabled(chip)
     IN chip' = enabled.chip /\ blind' = (blind \/ ~enabled.ok)
  /\ phase' = IF action = "write" THEN "file" ELSE "bye"
  /\ UNCHANGED <<action, file, rec, idx, active, result, left>>

\* The end of main(): at_run() pulls RESET down and GPIO_INP(AT_RESET) lets
\* it go, so that the chip's own resistor pulls it up.
Bye ==
  /\ phase = "bye"
  /\ chip' = WithReset(chip, HIGH) /\ phase' = "exit"
  /\ UNCHANGED <<action, file, rec, idx, active, result, left, blind>>

(***************************************************************************)
(* at_check_firmware() and at_write_firmware().                            *)
(***************************************************************************)
Reading == phase = "file" /\ rec <= Len(file)
Line    == file[rec]
InData  == Reading /\ Line.kind = "data" /\ idx < Len(Line.data)
Address == Line.addr + idx
Fbyte   == Line.data[idx + 1]
Offset  == (Address \div 2) % 65536
Page    == 16 * (Offset \div 16)
AtWord(low, high, b) ==
  <<IF Address % 2 = 1 THEN high ELSE low, Offset \div 256, Offset % 256, b>>

\* The loop over the lines ends with the file, at the end record or at a
\* line that is no record; at_flush() follows it in at_write_firmware().
NextLine ==
  /\ phase = "file" /\ ~InData
  /\ IF Reading /\ Line.kind \in {"data", "other"}
     THEN rec' = rec + 1 /\ idx' = 0 /\ UNCHANGED phase
     ELSE phase' = (IF action = "write" THEN "flush" ELSE "bye") /\ UNCHANGED <<rec, idx>>
  /\ UNCHANGED <<chip, action, file, active, result, left, blind>>

\* at_read_memory() of one byte: only the data of the answer is looked at.
ReadMemory ==
  /\ InData /\ action = "check"
  /\ LET cmd == AtWord(ReadLow, ReadHigh, 0)  io == AtIo(chip, cmd)
     IN /\ chip' = io.chip
        /\ result' = (result /\ io.byte[4] = Fbyte)
        /\ blind' = (blind \/ ~Ok(io, cmd))
  /\ idx' = idx + 1
  /\ UNCHANGED <<action, file, phase, rec, active, left>>

\* at_flush(): always sent, its status is not looked at.
Flush(page) ==
  LET cmd == <<WritePage, page \div 256, page % 256, 0>>  io == AtIo(chip, cmd)
  IN chip' = io.chip /\ blind' = (blind \/ ~Ok(io, cmd))

\* at_write_memory(): the byte belongs to another page.
FlushPage ==
  /\ InData /\ action = "write" /\ Page # active
  /\ Flush(active) /\ active' = Page
  /\ UNCHANGED <<action, file, phase, rec, idx, result, left>>

\* at_write_memory() of one byte, to the page buffer of the chip.
WriteMemory ==
  /\ InData /\ action = "write" /\ Page = active
  /\ LET cmd == AtWord(LoadLow, LoadHigh, Fbyte)  io == AtIo(chip, cmd)
     IN chip' = io.chip /\ result' = (result /\ Ok(io, cmd))
  /\ idx' = idx + 1
  /\ UNCHANGED <<action, file, phase, rec, active, left, blind>>

\* The at_flush() after the loop.
LastFlush ==
  /\ phase = "flush"
  /\ Flush(active) /\ phase' = "bye"
  /\ UNCHANGED <<action, file, rec, idx, active, result, left>>

Next ==
  \/ ProgramEnable \/ Command \/ FuseRefused \/ ChipErase \/ EnableAgain \/ Bye
  \/ NextLine \/ ReadMemory \/ FlushPage \/ WriteMemory \/ LastFlush
=============================================================================
