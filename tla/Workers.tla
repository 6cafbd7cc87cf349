------------------------------ MODULE Workers -------------------------------
(***************************************************************************)
(* The worker threads of libnano v1's NetDaemon (libnetd/netdaemon.cpp):   *)
(* workers and the main thread share one epoll, the table fds[] and the    *)
(* counters.  terminate(), called from a signal handler, puts all of them  *)
(* to sleep; the last one to lie down has them send terminate() to every   *)
(* object, and then all of them work again until no object is left.        *)
(*                                                                         *)
(* A section under the daemon's mutex is one step, except that             *)
(* setWorkersState() writes the status of one thread after the other while *)
(* the threads read theirs without the mutex; terminate() takes no mutex   *)
(* at all.  The main thread is the last one, as in setWorkersState().      *)
(***************************************************************************)
EXTENDS Integers, FiniteSets

CONSTANTS
  NumThreads,  \* workerCount + 1
  limit,       \* NetDaemon::limit, the size of fds[]
  AtStart,     \* the objects in the table when run() is called
  Nobody       \* no thread

Thread == 1..NumThreads
Main == NumThreads
Object == 0..(limit - 1)
Signal == 0    \* the signal handler that calls terminate()

ASSUME ThreadsAssumption == NumThreads \in Nat \ {0} /\ limit \in Nat
ASSUME StartAssumption == AtStart \subseteq Object /\ AtStart # {}
ASSUME NobodyAssumption == Nobody \notin Thread \union {Signal}

VARIABLES
  status,      \* worker_t::status
  checked,     \* worker_t::checked
  pc,          \* where each thread is
  cur,         \* the object (slot) each thread works on
  listed,      \* fds[].obj; NetDaemon::count is its size
  gone,        \* the objects that were removed
  armed,       \* epoll: the objects whose EPOLLONESHOT is not spent
  told,        \* AsyncObject::terminating
  activeCount, \* NetDaemon::activeCount
  iter,        \* NetDaemon::iter
  mutex,       \* who holds NetDaemon::mutex while it sets the states
  setting,     \* per setter: the state it sets, the thread it is at, what is written
  asked,       \* terminate() was called
  modified,    \* history: a handler had its object armed before it returned
  torn         \* history: a thread took a status and a checked that do not belong together

threads == <<status, checked, pc, cur>>
table == <<listed, gone, armed, told>>
counters == <<activeCount, iter>>
setters == <<mutex, setting, asked>>
history == <<modified, torn>>
vars == <<threads, table, counters, setters, history>>

Setter == Thread \union {Signal}
Idle == [state |-> "none", at |-> 1, half |-> FALSE]
Count == Cardinality(listed)

-----------------------------------------------------------------------------

(* startWorkers() and run() have created and counted all threads; checked  *)
(* is not initialised.  A signal that comes earlier finds no workers[].    *)
Init ==
  /\ status = [w \in Thread |-> "ACTIVE"]
  /\ checked \in [Thread -> BOOLEAN]
  /\ pc = [w \in Thread |-> "loop"]
  /\ cur = [w \in Thread |-> 0]
  /\ listed = AtStart
  /\ gone = {}
  /\ armed = AtStart
  /\ told = {}
  /\ activeCount = NumThreads
  /\ iter = 0
  /\ mutex = Nobody
  /\ setting = [s \in Setter |-> Idle]
  /\ asked = FALSE
  /\ modified = FALSE
  /\ torn = FALSE

(* The step of thread w from one point of the code to another. *)
Goto(w, from, to) == pc[w] = from /\ pc' = [pc EXCEPT ![w] = to]

(* Thread w is done with its object. *)
LetGo(w) == cur' = [cur EXCEPT ![w] = 0]

Unlocked == mutex = Nobody

-----------------------------------------------------------------------------
(* setWorkersState() *)

Begin(s, state) == setting' = [setting EXCEPT ![s] = [Idle EXCEPT !.state = state]]

Busy(s) == setting[s].state # "none"

(* workers[i].status = status *)
WriteStatus(s) ==
  /\ Busy(s) /\ ~setting[s].half
  /\ status' = [status EXCEPT ![setting[s].at] = setting[s].state]
  /\ setting' = [setting EXCEPT ![s].half = TRUE]
  /\ UNCHANGED <<checked, pc, cur, table, counters, mutex, asked, history>>

(* workers[i].checked = false and pthread_kill(), which ends a nanosleep() *)
(* that has begun.  The mutex is given back after the last thread.         *)
WriteChecked(s) ==
  LET w == setting[s].at
  IN  /\ Busy(s) /\ setting[s].half
      /\ checked' = [checked EXCEPT ![w] = FALSE]
      /\ pc' = IF pc[w] = "asleep" THEN [pc EXCEPT ![w] = "loop"] ELSE pc
      /\ setting' = [setting EXCEPT ![s] =
                       IF w = Main THEN Idle
                       ELSE [@ EXCEPT !.at = w + 1, !.half = FALSE]]
      /\ mutex' = IF w = Main /\ mutex = s THEN Nobody ELSE mutex
      /\ UNCHANGED <<status, cur, table, counters, asked, history>>

(* A signal: terminate() runs in its handler, without the mutex. *)
Terminate ==
  /\ ~asked
  /\ asked' = TRUE
  /\ Begin(Signal, "SLEEP")
  /\ UNCHANGED <<threads, table, counters, mutex, history>>

-----------------------------------------------------------------------------
(* workerEntry(): a thread that sets states goes on when they are set. *)

Runs(w) == ~Busy(w)

Dispatched(s) ==
  CASE s = "ACTIVE" -> "active"
    [] s = "SLEEP" -> "sleep"
    [] s = "TERMINATE" -> "terminate"
    [] s = "INACTIVE" -> "exited"

Dispatch(w) ==
  /\ Runs(w)
  /\ Goto(w, "loop", IF listed = {} THEN "exited" ELSE Dispatched(status[w]))
  /\ UNCHANGED <<status, checked, cur, table, counters, setters, history>>

(* Mutant of TakeEvent: without EPOLLONESHOT. *)
TakeEventAgain(w, o) ==
  /\ o \in armed
  /\ Goto(w, "active", "event")
  /\ cur' = [cur EXCEPT ![w] = o]
  /\ UNCHANGED <<status, checked, table, counters, setters, history>>

(* doActiveAction(): epoll_wait() gives the event to one thread.           *)
TakeEvent(w, o) ==
  /\ o \in armed
  /\ Goto(w, "active", "event")
  /\ armed' = armed \ {o}
  /\ cur' = [cur EXCEPT ![w] = o]
  /\ UNCHANGED <<status, checked, listed, gone, told, counters, setters, history>>

(* It returns with nothing after 200 ms, or when a signal comes. *)
NoEvent(w) ==
  /\ Goto(w, "active", "loop")
  /\ UNCHANGED <<status, checked, cur, table, counters, setters, history>>

(* obj = fds[fd].obj, under the mutex *)
Lookup(w) ==
  /\ Unlocked
  /\ Goto(w, "event", IF cur[w] \in listed THEN "handler" ELSE "loop")
  /\ UNCHANGED <<status, checked, cur, table, counters, setters, history>>

InCallback(w) == pc[w] \in {"handler", "ending"} /\ Runs(w)

(* putInBuffer() of the handler's own object: modifyObject() arms it. *)
Modify(w) ==
  /\ pc[w] = "handler" /\ Unlocked
  /\ cur[w] \in listed
  /\ armed' = armed \union {cur[w]}
  /\ modified' = TRUE
  /\ UNCHANGED <<threads, listed, gone, told, counters, setters, torn>>

(* onAccept() of a listening object: a new connection takes a slot that    *)
(* was not used before.                                                    *)
AddObject(w, o) ==
  /\ pc[w] = "handler" /\ Unlocked
  /\ cur[w] \in listed
  /\ o \notin listed \union gone
  /\ listed' = listed \union {o}
  /\ armed' = armed \union {o}
  /\ UNCHANGED <<threads, gone, told, counters, setters, history>>

(* A callback removes its object; who removes the last one stops the       *)
(* threads, with the mutex held.                                           *)
RemoveObject(w) ==
  /\ InCallback(w) /\ Unlocked
  /\ cur[w] \in listed
  /\ listed' = listed \ {cur[w]}
  /\ gone' = gone \union {cur[w]}
  /\ armed' = armed \ {cur[w]}
  /\ IF listed' = {}
       THEN Begin(w, "INACTIVE") /\ mutex' = w
       ELSE UNCHANGED <<setting, mutex>>
  /\ UNCHANGED <<threads, told, counters, asked, history>>

(* The handler returns; resetObject() arms an object that is still there.  *)
EndHandler(w) ==
  /\ Runs(w) /\ Unlocked
  /\ Goto(w, "handler", "loop")
  /\ LetGo(w)
  /\ armed' = IF cur[w] \in listed THEN armed \union {cur[w]} ELSE armed
  /\ UNCHANGED <<status, checked, listed, gone, told, counters, setters, history>>

-----------------------------------------------------------------------------

(* The status that w read and the checked it reads were not written by one *)
(* setter: its status was set again, or its checked is still to be reset.  *)
Torn(w, state) ==
  \/ status[w] # state
  \/ \E s \in Setter : Busy(s) /\ setting[s].half /\ setting[s].at = w

(* doSleepAction() and doTerminateAction() look at checked and set it. *)
Check(w, from, state, first, again) ==
  /\ Runs(w)
  /\ Goto(w, from, IF checked[w] THEN again ELSE first)
  /\ checked' = [checked EXCEPT ![w] = TRUE]
  /\ torn' = (torn \/ Torn(w, state))
  /\ UNCHANGED <<status, cur, table, counters, setters, modified>>

CheckSleep(w) == Check(w, "sleep", "SLEEP", "uncount", "drowsy")

(* Mutant of Uncount: the last but one has the objects terminated. *)
UncountEarly(w) ==
  /\ Unlocked
  /\ Goto(w, "uncount", "loop")
  /\ activeCount' = activeCount - 1
  /\ IF activeCount' <= 1
       THEN iter' = 0 /\ Begin(w, "TERMINATE") /\ mutex' = w
       ELSE UNCHANGED <<iter, setting, mutex>>
  /\ UNCHANGED <<status, checked, cur, table, asked, history>>

(* activeCount--, and the last one has the objects terminated. *)
Uncount(w) ==
  /\ Unlocked
  /\ Goto(w, "uncount", "loop")
  /\ activeCount' = activeCount - 1
  /\ IF activeCount' = 0
       THEN iter' = 0 /\ Begin(w, "TERMINATE") /\ mutex' = w
       ELSE UNCHANGED <<iter, setting, mutex>>
  /\ UNCHANGED <<status, checked, cur, table, asked, history>>

(* nanosleep(), for 31 years; only a signal that comes now ends it. *)
FallAsleep(w) ==
  /\ Goto(w, "drowsy", "asleep")
  /\ UNCHANGED <<status, checked, cur, table, counters, setters, history>>

CheckTerminate(w) == Check(w, "terminate", "TERMINATE", "recount", "fetch")

Recount(w) ==
  /\ Unlocked
  /\ Goto(w, "recount", "loop")
  /\ activeCount' = activeCount + 1
  /\ UNCHANGED <<status, checked, cur, table, iter, setters, history>>

(* Mutant of Fetch: the slot is advanced before it is read. *)
FetchNext(w) ==
  /\ pc[w] = "fetch" /\ Unlocked
  /\ IF iter < limit
       THEN /\ iter' = iter + 1
            /\ pc' = [pc EXCEPT ![w] = IF iter' \in listed THEN "tell" ELSE "loop"]
            /\ cur' = IF iter' \in listed THEN [cur EXCEPT ![w] = iter'] ELSE cur
            /\ UNCHANGED <<setting, mutex>>
       ELSE /\ pc' = [pc EXCEPT ![w] = "loop"]
            /\ Begin(w, "ACTIVE") /\ mutex' = w
            /\ UNCHANGED <<cur, iter>>
  /\ UNCHANGED <<status, checked, table, activeCount, asked, history>>

(* The next slot of the table, or the end of it: back to work. *)
Fetch(w) ==
  /\ pc[w] = "fetch" /\ Unlocked
  /\ IF iter < limit
       THEN /\ pc' = [pc EXCEPT ![w] = IF iter \in listed THEN "tell" ELSE "loop"]
            /\ cur' = IF iter \in listed THEN [cur EXCEPT ![w] = iter] ELSE cur
            /\ iter' = iter + 1
            /\ UNCHANGED <<setting, mutex>>
       ELSE /\ pc' = [pc EXCEPT ![w] = "loop"]
            /\ Begin(w, "ACTIVE") /\ mutex' = w
            /\ UNCHANGED <<cur, iter>>
  /\ UNCHANGED <<status, checked, table, activeCount, asked, history>>

(* AsyncObject::terminate() calls onTerminate() once. *)
Tell(w) ==
  /\ Goto(w, "tell", IF cur[w] \in told THEN "loop" ELSE "ending")
  /\ told' = told \union {cur[w]}
  /\ UNCHANGED <<status, checked, cur, listed, gone, armed, counters, setters, history>>

EndTerminate(w) ==
  /\ Runs(w)
  /\ Goto(w, "ending", "loop")
  /\ LetGo(w)
  /\ UNCHANGED <<status, checked, table, counters, setters, history>>

-----------------------------------------------------------------------------

Work(w) ==
  \/ Dispatch(w)
  \/ \E o \in Object : TakeEvent(w, o)
  \/ NoEvent(w) \/ Lookup(w) \/ EndHandler(w)
  \/ CheckSleep(w) \/ Uncount(w) \/ FallAsleep(w)
  \/ CheckTerminate(w) \/ Recount(w) \/ Fetch(w)
  \/ Tell(w) \/ EndTerminate(w)

Callback(w) == Modify(w) \/ RemoveObject(w) \/ \E o \in Object : AddObject(w, o)

SetState(s) == WriteStatus(s) \/ WriteChecked(s)

(* run() returns when all threads have left workerEntry(). *)
Done == (\A w \in Thread : pc[w] = "exited") /\ UNCHANGED vars

Next ==
  \/ Terminate
  \/ \E s \in Setter : SetState(s)
  \/ \E w \in Thread : Work(w) \/ Callback(w)
  \/ Done

(* The system runs every thread, and every thread gets the mutex that it   *)
(* asks for again and again.  Nobody need call terminate(), no callback    *)
(* need call anything, and connections end only when callbacks say so.     *)
Fairness ==
  /\ \A s \in Setter : WF_vars(SetState(s))
  /\ \A w \in Thread : SF_vars(Work(w))

Spec == Init /\ [][Next]_vars /\ Fairness
-----------------------------------------------------------------------------

TypeOK ==
  /\ status \in [Thread -> {"INACTIVE", "ACTIVE", "SLEEP", "TERMINATE"}]
  /\ checked \in [Thread -> BOOLEAN]
  /\ cur \in [Thread -> Object]
  /\ listed \subseteq Object /\ armed \subseteq Object /\ told \subseteq Object
  /\ modified \in BOOLEAN /\ torn \in BOOLEAN
  /\ activeCount \in Int
  /\ iter \in 0..limit
  /\ mutex \in Thread \union {Nobody}

(* EPOLLONESHOT keeps two threads out of one object's handler, as long as  *)
(* no handler puts data: modifyObject() then arms its object at once.      *)
OneHandler ==
  \A v, w \in Thread :
    v # w /\ pc[v] = "handler" /\ pc[w] = "handler" /\ cur[v] = cur[w] => modified

(* epoll watches no object that has been removed, also when a thread arms  *)
(* it again while another one removes it.                                  *)
ArmedIsListed == armed \subseteq listed

(* Threads share the table under the mutex and epoll without it: neither   *)
(* two handlers of an object nor an event of a removed one come of that.   *)
ObjectsSound == TypeOK /\ OneHandler /\ ArmedIsListed

Sending == \E w \in Thread : setting[w].state = "TERMINATE"

Quiet == \A w \in Thread : pc[w] \notin {"active", "event", "handler"}

(* "SLEEP: preparation for the stop - fall asleep and wait for the stop of *)
(* the other threads" (netdaemon.h:244-246): the objects are terminated    *)
(* when no thread serves an event any more.                                *)
SleepFirst == Sending /\ listed # {} => Quiet

(* So it is, unless a thread looks at its status between the two           *)
(* assignments of setWorkersState(), or has its checked reset under it:    *)
(* then it is uncounted twice, for another thread that still works.        *)
SleepFirstUnlessTorn == torn \/ SleepFirst

(* After terminate() every object of the table hears of it or leaves,      *)
(* although threads may miss the signals that should wake them.            *)
EveryoneTold ==
  \A o \in AtStart :
    Busy(Signal) /\ o \in listed ~> o \in told \/ o \notin listed \/ torn
=============================================================================
