------------------------------ MODULE Masterd ------------------------------
(***************************************************************************)
(* masterd (libnano's progs/masterd.c): it starts a worker for every       *)
(* section of its INI file, keeps the worker's pid in the file's image,    *)
(* waits for a child to end and starts again the section whose pid it was. *)
(* A child whose execve() fails goes on as its parent would, with a copy   *)
(* of its memory: it becomes a master of its own.                          *)
(***************************************************************************)
EXTENDS FiniteSets, NanoIni

CONSTANTS
  Files,      \* the files there may be, as lines
  MaxChildren,    \* bound: pids the kernel has for them
  MaxExits,   \* bound: workers that end
  MaxFaults   \* bound: calls of fork() and execve() that fail

ASSUME MasterdAssumption == Files \subseteq Seq(Lines(STRING)) /\ MaxChildren \in Nat

VARIABLES
  file,       \* what ini_open() reads
  memory,     \* what each process that runs masterd's code has in memory
  process,    \* kernel: what became of each pid
  exits,
  faults      \* history: the calls that have failed

masterd_vars == <<file, memory, process, exits, faults>>

Children == 1..MaxChildren
First == 0                       \* the master that was started
Nothing == [mode |-> "none"]
Free == [state |-> "free", parent |-> First, section |-> <<>>]

(* What the master has read; a file without sections leaves nothing to do. *)
Read(lines) ==
  [mode |-> IF IniOpen(lines) = <<>> THEN "wait" ELSE "start",
   ini |-> IniOpen(lines), at |-> 1, pid |-> 0]

MasterdInit(lines) ==
  /\ file = lines
  /\ memory = [p \in Children \union {First} |-> IF p = First THEN Read(lines) ELSE Nothing]
  /\ process = [p \in Children |-> Free]
  /\ exits = 0
  /\ faults = <<>>

-----------------------------------------------------------------------------

(* ini_map() has come to the next section, or to the end. *)
Advance(m) ==
  IF m.at < Len(m.ini) THEN [m EXCEPT !.at = @ + 1] ELSE [m EXCEPT !.mode = "wait"]

Section(m) == m.ini[m.at].name

(* Mutant of RunWorker: the pid of a worker that is started is not kept. *)
RunWorkerForgets(p, m) ==
  \/ /\ Len(faults) < MaxFaults
     /\ memory' = [memory EXCEPT ![p] = Advance(m)]
     /\ faults' = Append(faults, IF m.mode = "start" THEN "first_fork" ELSE "fork")
     /\ UNCHANGED process
  \/ \E child \in {c \in Children : process[c].state = "free"} :
     \E ini \in {IF m.mode = "start" THEN IniSet(m.ini, Section(m), "pid", child) ELSE m.ini} :
       /\ process' = [process EXCEPT ![child] =
                        [state |-> "forked", parent |-> p, section |-> Section(m)]]
       /\ memory' = [memory EXCEPT ![child] = m, ![p] = Advance([m EXCEPT !.ini = ini])]
       /\ UNCHANGED faults

(* run_worker(): the parent keeps the child's pid, the child has a copy of *)
(* what its parent had.  If fork() fails nothing is tried again.           *)
RunWorker(p, m) ==
  \/ /\ Len(faults) < MaxFaults
     /\ memory' = [memory EXCEPT ![p] = Advance(m)]
     /\ faults' = Append(faults, IF m.mode = "start" THEN "first_fork" ELSE "fork")
     /\ UNCHANGED process
  \/ \E child \in {c \in Children : process[c].state = "free"} :
     \E ini \in {IniSet(m.ini, Section(m), "pid", child)} :
       /\ process' = [process EXCEPT ![child] =
                        [state |-> "forked", parent |-> p, section |-> Section(m)]]
       /\ memory' = [memory EXCEPT ![child] = m, ![p] = Advance([m EXCEPT !.ini = ini])]
       /\ UNCHANGED faults

(* start_worker(), for the section ini_map() is at. *)
StartWorker(p) ==
  /\ memory[p].mode = "start"
  /\ \E name \in {Section(memory[p])} :
     \E ini \in {IniSet(IniSet(memory[p].ini, name, "uid", 0), name, "gid", 0)} :
     \E m \in {[memory[p] EXCEPT !.ini = ini]} : RunWorker(p, m)
  /\ UNCHANGED <<file, exits>>

(* restart_worker(), which crashes at a section that has no pid. *)
RestartWorker(p) ==
  /\ memory[p].mode = "restart"
  /\ \E m \in {memory[p]} : \E pid \in {IniGet(m.ini, Section(m), "pid", 0)} :
       \/ /\ ReadsNothing(m.ini, Section(m), "pid")
          /\ memory' = [memory EXCEPT ![p] = Nothing]
          /\ UNCHANGED <<process, faults>>
       \/ /\ pid = m.pid
          /\ RunWorker(p, m)
       \/ /\ pid \notin {0, m.pid}
          /\ memory' = [memory EXCEPT ![p] = Advance(m)]
          /\ UNCHANGED <<process, faults>>
  /\ UNCHANGED <<file, exits>>

(* wait(): a child that has ended, of those the caller has forked. *)
Wait(p) ==
  \E child \in Children :
    /\ memory[p].mode = "wait"
    /\ process[child].state = "ended" /\ process[child].parent = p
    /\ process' = [process EXCEPT ![child] = Free]
    /\ memory' = [memory EXCEPT ![p] = [@ EXCEPT !.mode = "restart", !.at = 1, !.pid = child]]
    /\ UNCHANGED <<file, exits, faults>>

(* execve() in the child: the worker runs. *)
Exec(p) ==
  /\ p # First /\ process[p].state = "forked"
  /\ process' = [process EXCEPT ![p].state = "running"]
  /\ memory' = [memory EXCEPT ![p] = Nothing]
  /\ UNCHANGED <<file, exits, faults>>

(* It fails, and the child returns to ini_map(). *)
ExecFault(p) ==
  /\ p # First /\ process[p].state = "forked"
  /\ Len(faults) < MaxFaults
  /\ faults' = Append(faults, "exec")
  /\ process' = [process EXCEPT ![p].state = "master"]
  /\ memory' = [memory EXCEPT ![p] = Advance(@)]
  /\ UNCHANGED <<file, exits>>

(* A worker ends, for a reason of its own. *)
Exits(p) ==
  /\ exits < MaxExits
  /\ process[p].state = "running"
  /\ process' = [process EXCEPT ![p].state = "ended"]
  /\ exits' = exits + 1
  /\ UNCHANGED <<file, memory, faults>>

(* What the code does next, in whichever process runs it. *)
Step ==
  \E p \in Children \union {First} :
    /\ p # First => process[p].state = "master"
    /\ StartWorker(p) \/ RestartWorker(p) \/ Wait(p)

MasterdNext ==
  \/ Step
  \/ \E p \in Children : Exec(p) \/ ExecFault(p) \/ Exits(p)

(* masterd by itself. *)
MasterdSpec ==
  (\E lines \in Files : MasterdInit(lines)) /\ [][MasterdNext]_masterd_vars

-----------------------------------------------------------------------------

Workers(name) ==
  {p \in Children : process[p].section = name /\ process[p].state \in {"forked", "running"}}

(* The file's sections keep their names if none is shorter than the one    *)
(* before it: see Rename.                                                  *)
Headers == {i \in DOMAIN file : file[i].type = "header"}
Named == {file[i].name : i \in Headers}
Widening == \A i, j \in Headers : i < j => Len(file[i].name) <= Len(file[j].name)

(* What is in memory can be saved and is read as it was, sections, options *)
(* and their order: the image a master has made of its file, with the pids *)
(* and users it keeps in it, is a file's.  No name in an image is shorter  *)
(* than the one before it, for no header is read so (nanoini.c:41-72,      *)
(* 178-203, 252-284).                                                      *)
SavedIsRead ==
  \A p \in DOMAIN memory :
    memory[p] # Nothing => IniOpen(IniSave(memory[p].ini)) = memory[p].ini

(* However pids are used again, a section has one worker at most, and the  *)
(* master knows it by its pid -- until a child becomes a master too.  The  *)
(* master lives on, unless it has failed to fork a worker at the start.    *)
OneEach ==
  "exec" \notin {faults[i] : i \in DOMAIN faults} =>
    /\ \A name \in {process[p].section : p \in Children} :
         name # <<>> =>
           /\ Cardinality(Workers(name)) <= 1
           /\ memory[First] # Nothing =>
                \A p \in Workers(name) : IniGet(memory[First].ini, name, "pid", 0) = p
    /\ memory[First] = Nothing => "first_fork" \in {faults[i] : i \in DOMAIN faults}

(* Both: the image of the file is sound, and so is what is done by it. *)
SectionsSound == OneEach /\ SavedIsRead

(* While no call fails, the worker of every section named in the file is   *)
(* started again whenever it ends, if no name is shorter than the last.    *)
AlwaysRestarted ==
  \A name \in {<<"a">>, <<"b">>, <<"a", "b">>} :
    []<>(faults = <<>> /\ Widening /\ name \in Named =>
           \E p \in Workers(name) : process[p].state = "running")
=============================================================================
