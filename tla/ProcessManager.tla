--------------------------- MODULE ProcessManager ---------------------------
(***************************************************************************)
(* The child processes of libnano2 (nanosoft/processmanager.cpp): a table  *)
(* of callbacks indexed by pid, and a pass, run from processTimers(), that *)
(* reaps the children that ended and then looks for registered processes   *)
(* that are gone.  A process of this module is one life of a pid.  The     *)
(* kernel's steps come between any two system calls of the pass, and a     *)
(* callback may fork or bind processes itself.                             *)
(***************************************************************************)
EXTENDS Integers, FiniteSets

CONSTANTS
  Process,     \* the processes that exist at some time of a run
  NumPids,     \* bound: the pids the kernel can give, 1..NumPids
  None         \* no registration

ASSUME NoneAssumption == None \notin Process
ASSUME PidsAssumption == NumPids \in Nat

NoPid == 0
Pids == 1..NumPids

VARIABLES
  ps,          \* ProcessManager::ps: whose registration each pid has
  life,        \* kernel: unborn, child, stranger, zombie or dead
  pid,         \* kernel: the pid of each process that was born
  phase,       \* of onProcessTimer(): idle, reap, reaped, sweep, swept
  at,          \* the pid that the pass is looking at
  keys,        \* the pids that the sweep found gone
  called       \* history: how often each registration's callback was called

manager == <<ps, called>>
kernel == <<life, pid>>
pass == <<phase, at, keys>>
vars == <<ps, life, pid, phase, at, keys, called>>

-----------------------------------------------------------------------------

Init ==
  /\ ps = [n \in Pids |-> None]
  /\ life = [p \in Process |-> "unborn"]
  /\ pid = [p \in Process |-> NoPid]
  /\ phase = "idle"
  /\ at = NoPid
  /\ keys = {}
  /\ called = [p \in Process |-> 0]

(* kill(n, 0) fails with ESRCH for no process, and not for a zombie. *)
Exists(n) == \E p \in Process : pid[p] = n /\ life[p] \in {"child", "stranger", "zombie"}

(* A pid may be given again as soon as its process is reaped or gone. *)
FreePid(n) == ~Exists(n)

Born(p, kind) ==
  /\ life[p] = "unborn"
  /\ life' = [life EXCEPT ![p] = kind]
  /\ \E n \in Pids : FreePid(n) /\ pid' = [pid EXCEPT ![p] = n]

(* The program runs outside of the pass, and in callbacks. *)
ProgramRuns == phase \in {"idle", "reaped", "swept"}

(* fork(), also the parent's part of exec(). *)
Fork(p) ==
  /\ ProgramRuns
  /\ Born(p, "child")
  /\ ps' = [ps EXCEPT ![pid'[p]] = p]
  /\ UNCHANGED <<called, pass>>

(* bindProcess(), of a process that the program did not start. *)
BindProcess(p) ==
  /\ ProgramRuns
  /\ life[p] = "stranger"
  /\ ps' = [ps EXCEPT ![pid[p]] = p]
  /\ UNCHANGED <<called, kernel, pass>>

(* Someone else starts a process. *)
StrangerBorn(p) ==
  /\ Born(p, "stranger")
  /\ UNCHANGED <<manager, pass>>

(* A process ends; a child waits to be reaped. *)
End(p) ==
  /\ life[p] \in {"child", "stranger"}
  /\ life' = [life EXCEPT ![p] = IF @ = "child" THEN "zombie" ELSE "dead"]
  /\ UNCHANGED <<manager, pid, pass>>

-----------------------------------------------------------------------------
(* onProcessTimer() *)

BeginPass ==
  /\ phase = "idle"
  /\ phase' = "reap"
  /\ UNCHANGED <<manager, kernel, at, keys>>

(* waitpid() frees the pid, then the callback of its registration is       *)
(* called, whether the process exited or was killed.                       *)
Reap(p) ==
  /\ phase = "reap" /\ life[p] = "zombie"
  /\ life' = [life EXCEPT ![p] = "dead"]
  /\ IF ps[pid[p]] = None
       THEN UNCHANGED <<called, phase, at>>
       ELSE /\ called' = [called EXCEPT ![ps[pid[p]]] = @ + 1]
            /\ phase' = "reaped"
            /\ at' = pid[p]
  /\ UNCHANGED <<ps, pid, keys>>

(* Mutant of EraseReaped: the registration is not erased. *)
KeepReaped ==
  /\ phase = "reaped"
  /\ phase' = "reap"
  /\ UNCHANGED <<ps, called, kernel, at, keys>>

(* ps.erase(pid), after the callback has returned. *)
EraseReaped ==
  /\ phase = "reaped"
  /\ ps' = [ps EXCEPT ![at] = None]
  /\ phase' = "reap"
  /\ UNCHANGED <<called, kernel, at, keys>>

(* Mutant of BeginSweep: the pass ends when no zombie is left. *)
EndAfterReap ==
  /\ phase = "reap"
  /\ \A p \in Process : life[p] # "zombie"
  /\ phase' = "idle"
  /\ UNCHANGED <<manager, kernel, at, keys>>

BeginSweep ==
  /\ phase = "reap"
  /\ \A p \in Process : life[p] # "zombie"
  /\ phase' = "sweep"
  /\ at' = NoPid
  /\ UNCHANGED <<manager, kernel, keys>>

(* Where the iterator stands next: std::map is in the order of the pids,   *)
(* and takes in what a callback inserts ahead of it.                       *)
NextEntry(n) ==
  /\ n > at /\ ps[n] # None
  /\ \A m \in Pids : m > at /\ m < n => ps[m] = None

SweepEntry(n) ==
  /\ phase \in {"sweep", "swept"}
  /\ NextEntry(n)
  /\ at' = n
  /\ IF Exists(n)
       THEN /\ phase' = "sweep"
            /\ UNCHANGED <<keys, called>>
       ELSE /\ phase' = "swept"
            /\ keys' = keys \union {n}
            /\ called' = [called EXCEPT ![ps[n]] = @ + 1]
  /\ UNCHANGED <<ps, kernel>>

(* The registrations that were found gone are erased at the end. *)
EndSweep ==
  /\ phase \in {"sweep", "swept"}
  /\ \A n \in Pids : n > at => ps[n] = None
  /\ ps' = [n \in Pids |-> IF n \in keys THEN None ELSE ps[n]]
  /\ keys' = {}
  /\ phase' = "idle"
  /\ UNCHANGED <<called, kernel, at>>

OnProcessTimer ==
  \/ BeginPass
  \/ \E p \in Process : Reap(p)
  \/ EraseReaped
  \/ BeginSweep
  \/ \E n \in Pids : SweepEntry(n)
  \/ EndSweep

Next ==
  \/ OnProcessTimer
  \/ \E p \in Process : Fork(p) \/ BindProcess(p) \/ StrangerBorn(p) \/ End(p)

(* run() calls processTimers() again and again, and callbacks return. *)
Spec == Init /\ [][Next]_vars /\ WF_vars(OnProcessTimer)

-----------------------------------------------------------------------------

TypeOK ==
  /\ ps \in [Pids -> Process \union {None}]
  /\ life \in [Process -> {"unborn", "child", "stranger", "zombie", "dead"}]
  /\ pid \in [Process -> Pids \union {NoPid}]
  /\ phase \in {"idle", "reap", "reaped", "sweep", "swept"}
  /\ at \in Pids \union {NoPid}
  /\ keys \in SUBSET Pids
  /\ called \in [Process -> Nat]

(* A callback is called once at most, although two loops of a pass and the *)
(* next pass all look at the same registration.                            *)
CalledOnce == \A p \in Process : called[p] <= 1

(* A callback is never called for a process that still runs, whatever the  *)
(* kernel does between kill() and the callback.                            *)
CalledAfterEnd == \A p \in Process : called[p] > 0 => life[p] = "dead"

(* Both, for every registration: one call, and not before the end.         *)
CalledOnceAfterEnd == TypeOK /\ CalledOnce /\ CalledAfterEnd

Registered(p) == \E n \in Pids : ps[n] = p

PidWasShared(p) == \E q \in Process \ {p} : pid[q] = pid[p]

(* The end of every registered process whose pid no other process had is   *)
(* reported: reaped children by the first loop, others by the second.      *)
EndIsReported ==
  \A p \in Process :
    Registered(p) /\ life[p] \in {"zombie", "dead"}
      ~> called[p] > 0 \/ PidWasShared(p)
=============================================================================
