---------------------------- MODULE IspChip ----------------------------
(***************************************************************************)
(* The microcontroller that pigro programs, as src/pigro uses it: every    *)
(* command is four bytes over SPI, each answered by the byte before it,    *)
(* the fourth by data.  Bytes of the program go to a page buffer first,    *)
(* and Write Page moves the buffer to the flash.  The chip is external:    *)
(* nothing here is code of the repository.                                 *)
(***************************************************************************)
EXTENDS Naturals, Sequences

CONSTANTS Addr,      \* the byte addresses of the flash that files write
          ChipPage,  \* words per page of this chip
          MaxDeaf    \* how many commands the chip may miss

\* The opcodes that at_io() is called with.
Enable    == <<172, 83>>     \* 0xAC 0x53, Programming Enable
Erase     == <<172, 128>>    \* 0xAC 0x80, Chip Erase
WriteFuse == <<172, 160>>    \* 0xAC 0xA0, and 0xA8, 0xA4
LoadLow   == 64              \* 0x40, and 0x48 for the high byte
LoadHigh  == 72
WritePage == 76              \* 0x4C
ReadLow   == 32              \* 0x20, and 0x28 for the high byte
ReadHigh  == 40
Signature == 48              \* 0x30
ReadFuse  == 80              \* 0x50

Blank == 255

VARIABLE chip

ChipInit(flash) ==
  chip = [flash |-> flash, page |-> [i \in {} |-> Blank], cmd |-> <<>>, last |-> 0,
          out |-> Blank, on |-> FALSE, reset |-> 1, deaf |-> FALSE, missed |-> 0]

Word(cmd) == cmd[2] * 256 + cmd[3]
HighByte(cmd) == IF cmd[1] \in {LoadHigh, ReadHigh} THEN 1 ELSE 0

\* Flash cells can only be cleared: programming one that is not blank leaves
\* the bits that both have.
Programmed(old, new) == IF old = Blank THEN new ELSE IF new \in {Blank, old} THEN old ELSE 0

\* What the chip does with a whole command.
Executed(c, cmd) ==
  CASE c.reset = 1 \/ c.deaf -> c
    [] SubSeq(cmd, 1, 2) = Enable -> [c EXCEPT !.on = TRUE]
    [] c.on /\ SubSeq(cmd, 1, 2) = Erase -> [c EXCEPT !.flash = [a \in Addr |-> Blank]]
    [] c.on /\ cmd[1] \in {LoadLow, LoadHigh} ->
         LET i == 2 * (Word(cmd) % ChipPage) + HighByte(cmd)
         IN [c EXCEPT !.page = [j \in DOMAIN c.page \cup {i} |-> IF j = i THEN cmd[4] ELSE c.page[j]]]
    [] c.on /\ cmd[1] = WritePage ->
         LET first == 2 * ChipPage * (Word(cmd) \div ChipPage)
         IN [c EXCEPT !.page = [i \in {} |-> Blank],
                      !.flash = [a \in Addr |-> IF a - first \in DOMAIN c.page
                                                THEN Programmed(c.flash[a], c.page[a - first])
                                                ELSE c.flash[a]]]
    [] OTHER -> c

\* The data that goes out with the fourth byte.
DataOut(c, cmd) ==
  LET a == 2 * Word(cmd) + HighByte(cmd)
  IN IF c.on /\ cmd[1] \in {ReadLow, ReadHigh} /\ a \in Addr THEN c.flash[a] ELSE cmd[3]

\* One byte each way: c.out is the answer.
Shifted(c, b) ==
  LET cmd  == Append(c.cmd, b)
      full == Len(cmd) = 4
      out  == CASE c.reset = 1 \/ c.deaf -> Blank
                [] full -> DataOut(c, cmd)
                [] OTHER -> c.last
      done == IF full THEN Executed(c, cmd) ELSE c
  IN [done EXCEPT !.out = out, !.last = b, !.cmd = IF full THEN <<>> ELSE cmd,
                  !.deaf = c.deaf /\ ~full]

\* The four bytes of a command in one: what four steps of Shifted come to.
Exchanged(c, cmd) ==
  [Executed(c, cmd) EXCEPT !.last = cmd[4], !.cmd = <<>>, !.deaf = FALSE,
                           !.out = IF c.reset = 1 \/ c.deaf THEN Blank ELSE DataOut(c, cmd)]

\* Its four answers.
Answers(c, cmd) ==
  IF c.reset = 1 \/ c.deaf THEN <<Blank, Blank, Blank, Blank>>
  ELSE <<c.last, cmd[1], cmd[2], DataOut(c, cmd)>>

\* The level of the RESET line: programming needs it low.
WithReset(c, level) ==
  IF level = c.reset THEN c
  ELSE [c EXCEPT !.reset = level, !.on = FALSE, !.cmd = <<>>]

\* The chip misses the next command (bad contact, not ready).
GoDeaf ==
  /\ chip.missed < MaxDeaf /\ chip.cmd = <<>> /\ ~chip.deaf
  /\ chip' = [chip EXCEPT !.deaf = TRUE, !.missed = @ + 1]
=============================================================================
