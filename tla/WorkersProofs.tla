---------------------------- MODULE WorkersProofs ----------------------------
(***************************************************************************)
(* Objects shared by any number of threads, and a table of any size: no    *)
(* two threads are in one object's handler, unless a handler has put data. *)
(* EPOLLONESHOT is the argument: who works on an object has taken it out   *)
(* of "armed" (HeldByOne), and an object that takes a slot is not one that *)
(* a thread still holds the event of (HeldWasListed).                      *)
(*                                                                         *)
(* terminate() is told to the objects when no thread serves an event: till *)
(* then activeCount is the number of threads that have not said that they  *)
(* sleep (BeforeTerminate), while it is sent no thread gets to work again  *)
(* (Terminating), and afterwards nobody is put to sleep (AfterTerminate).  *)
(*                                                                         *)
(* And the pools of temporary objects that its threads use: a note in the  *)
(* stack of a pool parts the objects that outlive a call from those that   *)
(* are freed with it (Noted), calls alternate between the pools, and no    *)
(* byte that has been given is nobody's or two objects' (Covered).         *)
(*                                                                         *)
(* And the output buffers that they share.  Nobody gives a number away     *)
(* while a thread holds the object that had it (OneOwner), and the slot of *)
(* the number names the object that is listed (SlotsMatch): so the bytes   *)
(* in the slot of a stream follow those that its peer got (InOrder), and   *)
(* the thread that armed a stream without its bytes in sight, or is to arm *)
(* it, is one that holds an event of its number.                           *)
(*                                                                         *)
(* And masterd, whose file has sections of any number and length: a file   *)
(* is read to a sound image (IniGood), what is saved of one is read as it  *)
(* was (HasRead), and the workers of a section are one at most, whose pid  *)
(* the master has (OneInv).                                                *)
(***************************************************************************)
EXTENDS Workers, DoublePool, SharedBuffers, Masterd, ChainLemmas

Points ==
  {"loop", "active", "sleep", "terminate", "exited", "event", "handler", "ending",
   "uncount", "drowsy", "asleep", "recount", "fetch", "tell"}

States == {"INACTIVE", "ACTIVE", "SLEEP", "TERMINATE"}

SettersOK ==
  /\ pc \in [Thread -> Points]
  /\ setting \in [Setter -> [state : States \union {"none"}, at : Thread, half : BOOLEAN]]

(* Thread w has the event of an object. *)
HasEvent(w) == pc[w] \in {"event", "handler"}

HeldByOne ==
  modified \/ \A w \in Thread : HasEvent(w) =>
    cur[w] \notin armed /\ \A v \in Thread : v # w /\ HasEvent(v) => cur[v] # cur[w]

HeldWasListed == \A w \in Thread : HasEvent(w) => cur[w] \in listed \union gone

WorkersInv == TypeOK /\ SettersOK /\ ArmedIsListed /\ HeldByOne /\ HeldWasListed

(* Nobody is 0; the main thread is one of the threads. *)
LEMMA ZeroIsObject == 0 \in Object /\ 1 \in Thread /\ Main \in Thread
<1>1. PICK o \in Object : o \in AtStart
  BY StartAssumption
<1>2. limit - 1 >= 0
  BY <1>1, ThreadsAssumption DEF Object
<1> QED
  BY <1>2, ThreadsAssumption DEF Object, Thread, Main

(* Init: no worker handles an object. *)
LEMMA WorkersInvInit == Init => WorkersInv
<1> SUFFICES ASSUME Init PROVE WorkersInv
  OBVIOUS
<1>1. /\ status = [w \in Thread |-> "ACTIVE"] /\ checked \in [Thread -> BOOLEAN]
      /\ pc = [w \in Thread |-> "loop"] /\ cur = [w \in Thread |-> 0]
      /\ listed = AtStart /\ armed = AtStart /\ told = {} /\ mutex = Nobody
      /\ activeCount = NumThreads /\ iter = 0 /\ modified = FALSE /\ torn = FALSE
      /\ setting = [s \in Setter |-> Idle]
  BY DEF Init
<1>2. TypeOK
  <2>1. /\ status \in [Thread -> {"INACTIVE", "ACTIVE", "SLEEP", "TERMINATE"}]
        /\ cur \in [Thread -> Object]
    BY <1>1, ZeroIsObject
  <2>2. listed \subseteq Object /\ armed \subseteq Object /\ told \subseteq Object
    BY <1>1, StartAssumption
  <2>3. activeCount \in Int /\ iter \in 0..limit
    BY <1>1, ThreadsAssumption
  <2> QED
    BY <1>1, <2>1, <2>2, <2>3 DEF TypeOK
<1>3. SettersOK
  BY <1>1, ZeroIsObject DEF SettersOK, Points, Idle
<1>4. ArmedIsListed
  BY <1>1 DEF ArmedIsListed
<1>5. HeldByOne /\ HeldWasListed
  BY <1>1 DEF HeldByOne, HeldWasListed, HasEvent
<1> QED
  BY <1>2, <1>3, <1>4, <1>5 DEF WorkersInv

(* A step by which nobody gets an event, nothing is armed and no object    *)
(* appears or goes.                                                        *)
LEMMA NothingHeld ==
  ASSUME WorkersInv, TypeOK', SettersOK',
         UNCHANGED <<listed, gone, armed, modified>>,
         \A w \in Thread : HasEvent(w)' => HasEvent(w) /\ cur'[w] = cur[w]
  PROVE  WorkersInv'
<1>1. ArmedIsListed'
  BY DEF WorkersInv, ArmedIsListed
<1>2. HeldByOne'
  BY DEF WorkersInv, HeldByOne, HasEvent
<1>3. HeldWasListed'
  BY DEF WorkersInv, HeldWasListed, HasEvent
<1> QED
  BY <1>1, <1>2, <1>3 DEF WorkersInv

(* Who begins to set states. *)
LEMMA BeginOK ==
  ASSUME WorkersInv, NEW s \in Setter, NEW state \in States, Begin(s, state)
  PROVE  setting' \in [Setter -> [state : States \union {"none"}, at : Thread, half : BOOLEAN]]
<1>1. [Idle EXCEPT !.state = state]
        \in [state : States \union {"none"}, at : Thread, half : BOOLEAN]
  BY ZeroIsObject DEF Idle
<1> QED
  BY <1>1 DEF Begin, WorkersInv, SettersOK

(* setState(): a thread's status, and then what was checked of it. *)
LEMMA SetStateInv ==
  ASSUME WorkersInv, NEW s \in Setter, SetState(s)
  PROVE  WorkersInv'
<1> DEFINE R == [state : States \union {"none"}, at : Thread, half : BOOLEAN]
<1>0. setting \in [Setter -> R] /\ setting[s] \in R
  BY DEF WorkersInv, SettersOK
<1>1. CASE WriteStatus(s)
  <2>1. /\ status' = [status EXCEPT ![setting[s].at] = setting[s].state]
        /\ setting[s].state # "none"
        /\ setting' = [setting EXCEPT ![s].half = TRUE]
        /\ UNCHANGED <<checked, pc, cur, table, counters, mutex, asked, history>>
    BY <1>1 DEF WriteStatus, Busy
  <2>2. setting[s].state \in States
    BY <1>0, <2>1
  <2>3. TypeOK'
    BY <2>1, <2>2 DEF WorkersInv, TypeOK, States, table, counters, history
  <2>4. SettersOK'
    BY <1>0, <2>1 DEF WorkersInv, SettersOK
  <2> QED
    BY <2>1, <2>3, <2>4, NothingHeld DEF table, history, HasEvent
<1>2. CASE WriteChecked(s)
  <2> DEFINE w == setting[s].at
  <2>1. /\ checked' = [checked EXCEPT ![w] = FALSE]
        /\ pc' = IF pc[w] = "asleep" THEN [pc EXCEPT ![w] = "loop"] ELSE pc
        /\ setting' = [setting EXCEPT ![s] =
                         IF w = Main THEN Idle
                         ELSE [@ EXCEPT !.at = w + 1, !.half = FALSE]]
        /\ mutex' = IF w = Main /\ mutex = s THEN Nobody ELSE mutex
        /\ UNCHANGED <<status, cur, table, counters, asked, history>>
    BY <1>2 DEF WriteChecked
  <2>2. w \in Thread
    BY <1>0
  <2>3. TypeOK'
    BY <2>1 DEF WorkersInv, TypeOK, table, counters, history
  <2>4. pc' \in [Thread -> Points]
    BY <2>1 DEF WorkersInv, SettersOK, Points
  <2>5. Idle \in R
    BY ZeroIsObject DEF Idle
  <2>6. w # Main => w + 1 \in Thread
    BY <2>2, ThreadsAssumption DEF Thread, Main
  <2>7. w # Main => [setting[s] EXCEPT !.at = w + 1, !.half = FALSE] \in R
    BY <1>0, <2>6
  <2>8. setting' \in [Setter -> R]
    BY <1>0, <2>1, <2>5, <2>7
  <2>9. SettersOK'
    BY <2>4, <2>8 DEF SettersOK
  <2>10. \A v \in Thread : HasEvent(v)' => HasEvent(v)
    BY <2>1 DEF HasEvent, WorkersInv, SettersOK
  <2> QED
    BY <2>1, <2>3, <2>9, <2>10, NothingHeld DEF table, history
<1> QED
  BY <1>1, <1>2 DEF SetState

(* terminate() runs in the handler of a signal, without the mutex. *)
LEMMA TerminateInv ==
  ASSUME WorkersInv, Terminate
  PROVE  WorkersInv'
<1>1. Begin(Signal, "SLEEP") /\ UNCHANGED <<threads, table, counters, mutex, history>>
  BY DEF Terminate
<1>2. SettersOK'
  BY <1>1, BeginOK DEF WorkersInv, SettersOK, threads, Setter, States
<1>3. TypeOK'
  BY <1>1 DEF WorkersInv, TypeOK, threads, table, counters, history
<1> QED
  BY <1>1, <1>2, <1>3, NothingHeld DEF threads, table, history, HasEvent

(* The event of an object that nobody has. *)
LEMMA TakeEventInv ==
  ASSUME WorkersInv, NEW w \in Thread, NEW o \in Object, TakeEvent(w, o)
  PROVE  WorkersInv'
<1>1. /\ o \in armed /\ armed' = armed \ {o}
      /\ pc' = [pc EXCEPT ![w] = "event"] /\ cur' = [cur EXCEPT ![w] = o]
      /\ UNCHANGED <<status, checked, listed, gone, told, counters, setters, history>>
  BY DEF TakeEvent, Goto
<1>2. /\ \A v \in Thread : v # w => pc'[v] = pc[v] /\ cur'[v] = cur[v]
      /\ pc'[w] = "event" /\ cur'[w] = o
  BY <1>1 DEF WorkersInv, TypeOK, SettersOK
<1>3. TypeOK'
  BY <1>1 DEF WorkersInv, TypeOK, counters, setters, history
<1>4. SettersOK'
  BY <1>1 DEF WorkersInv, SettersOK, Points, setters
<1>5. ArmedIsListed'
  BY <1>1 DEF WorkersInv, ArmedIsListed
<1>6. HeldByOne'
  BY <1>1, <1>2 DEF WorkersInv, HeldByOne, HasEvent, history
<1>7. HeldWasListed'
  BY <1>1, <1>2 DEF WorkersInv, HeldWasListed, HasEvent, ArmedIsListed
<1> QED
  BY <1>3, <1>4, <1>5, <1>6, <1>7 DEF WorkersInv

(* A handler is entered with the event that its thread has. *)
LEMMA LookupInv ==
  ASSUME WorkersInv, NEW w \in Thread, Lookup(w)
  PROVE  WorkersInv'
<1>1. /\ pc[w] = "event"
      /\ pc' = [pc EXCEPT ![w] = IF cur[w] \in listed THEN "handler" ELSE "loop"]
      /\ UNCHANGED <<status, checked, cur, table, counters, setters, history>>
  BY DEF Lookup, Goto
<1>2. \A v \in Thread : HasEvent(v)' => HasEvent(v)
  BY <1>1 DEF HasEvent, WorkersInv, SettersOK
<1>3. TypeOK'
  BY <1>1 DEF WorkersInv, TypeOK, table, counters, setters, history
<1>4. SettersOK'
  BY <1>1 DEF WorkersInv, SettersOK, Points, setters
<1> QED
  BY <1>1, <1>2, <1>3, <1>4, NothingHeld DEF table, history

(* The worker gives back the object it handled, and no other. *)
LEMMA EndHandlerInv ==
  ASSUME WorkersInv, NEW w \in Thread, EndHandler(w)
  PROVE  WorkersInv'
<1>1. /\ pc[w] = "handler" /\ pc' = [pc EXCEPT ![w] = "loop"]
      /\ cur' = [cur EXCEPT ![w] = 0]
      /\ armed' = IF cur[w] \in listed THEN armed \union {cur[w]} ELSE armed
      /\ UNCHANGED <<status, checked, listed, gone, told, counters, setters, history>>
  BY DEF EndHandler, Goto, LetGo
<1>2. /\ \A v \in Thread : v # w => pc'[v] = pc[v] /\ cur'[v] = cur[v]
      /\ pc'[w] = "loop"
  BY <1>1 DEF WorkersInv, TypeOK, SettersOK
<1>3. TypeOK'
  BY <1>1, ZeroIsObject DEF WorkersInv, TypeOK, counters, setters, history
<1>4. SettersOK'
  BY <1>1 DEF WorkersInv, SettersOK, Points, setters
<1>5. ArmedIsListed'
  BY <1>1 DEF WorkersInv, ArmedIsListed
<1>6. HeldByOne'
  BY <1>1, <1>2 DEF WorkersInv, HeldByOne, HasEvent, history
<1>7. HeldWasListed'
  BY <1>1, <1>2 DEF WorkersInv, HeldWasListed, HasEvent
<1> QED
  BY <1>3, <1>4, <1>5, <1>6, <1>7 DEF WorkersInv

(* A handler of one worker touches what that worker holds. *)
LEMMA CallbackInv ==
  ASSUME WorkersInv, NEW w \in Thread, Callback(w)
  PROVE  WorkersInv'
<1>1. CASE Modify(w)
  <2>1. /\ cur[w] \in listed /\ armed' = armed \union {cur[w]} /\ modified' = TRUE
        /\ UNCHANGED <<threads, listed, gone, told, counters, setters, torn>>
    BY <1>1 DEF Modify
  <2>2. TypeOK'
    BY <2>1 DEF WorkersInv, TypeOK, threads, counters, setters
  <2>3. SettersOK'
    BY <2>1 DEF WorkersInv, SettersOK, threads, setters
  <2>4. (ArmedIsListed /\ HeldByOne /\ HeldWasListed)'
    BY <2>1 DEF WorkersInv, ArmedIsListed, HeldByOne, HeldWasListed, HasEvent, threads
  <2> QED
    BY <2>2, <2>3, <2>4 DEF WorkersInv
<1>2. ASSUME NEW o \in Object, AddObject(w, o) PROVE WorkersInv'
  <2>1. /\ o \notin listed \union gone
        /\ listed' = listed \union {o} /\ armed' = armed \union {o}
        /\ UNCHANGED <<threads, gone, told, counters, setters, history>>
    BY <1>2 DEF AddObject
  <2>2. \A v \in Thread : HasEvent(v) => cur[v] # o
    BY <2>1 DEF WorkersInv, HeldWasListed
  <2>3. TypeOK'
    BY <2>1 DEF WorkersInv, TypeOK, threads, counters, setters, history
  <2>4. SettersOK'
    BY <2>1 DEF WorkersInv, SettersOK, threads, setters
  <2>5. (ArmedIsListed /\ HeldByOne /\ HeldWasListed)'
    BY <2>1, <2>2
    DEF WorkersInv, ArmedIsListed, HeldByOne, HeldWasListed, HasEvent, threads, history
  <2> QED
    BY <2>3, <2>4, <2>5 DEF WorkersInv
<1>3. CASE RemoveObject(w)
  <2>1. /\ listed' = listed \ {cur[w]} /\ gone' = gone \union {cur[w]}
        /\ armed' = armed \ {cur[w]}
        /\ Begin(w, "INACTIVE") \/ setting' = setting
        /\ mutex' \in {w, mutex}
        /\ UNCHANGED <<threads, told, counters, asked, history>>
    BY <1>3 DEF RemoveObject
  <2>2. TypeOK'
    BY <2>1 DEF WorkersInv, TypeOK, threads, counters, history
  <2>3. SettersOK'
    BY <2>1, BeginOK DEF WorkersInv, SettersOK, threads, Setter, States
  <2>4. (ArmedIsListed /\ HeldByOne /\ HeldWasListed)'
    BY <2>1
    DEF WorkersInv, ArmedIsListed, HeldByOne, HeldWasListed, HasEvent, threads, history
  <2> QED
    BY <2>2, <2>3, <2>4 DEF WorkersInv
<1> QED
  BY <1>1, <1>2, <1>3 DEF Callback

(* The steps of workerEntry() that touch no event. *)
LEMMA PlainStepInv ==
  ASSUME WorkersInv, NEW w \in Thread, NEW to \in Points \ {"event", "handler"},
         pc' = [pc EXCEPT ![w] = to],
         UNCHANGED <<listed, gone, armed, modified>>,
         cur' \in [Thread -> Object], \A v \in Thread : v # w => cur'[v] = cur[v],
         UNCHANGED status, checked' \in [Thread -> BOOLEAN], told' \subseteq Object,
         torn' \in BOOLEAN, activeCount' \in Int, iter' \in 0..limit,
         mutex' \in Thread \union {Nobody},
         setting' = setting \/ \E state \in States : Begin(w, state)
  PROVE  WorkersInv'
<1>1. TypeOK'
  BY DEF WorkersInv, TypeOK
<1>2. pc' \in [Thread -> Points]
  BY DEF WorkersInv, SettersOK
<1>3. SettersOK'
  BY <1>2, BeginOK DEF WorkersInv, SettersOK, Setter
<1>4. \A v \in Thread : HasEvent(v)' => HasEvent(v) /\ cur'[v] = cur[v]
  BY DEF HasEvent, WorkersInv, SettersOK
<1> QED
  BY <1>1, <1>3, <1>4, NothingHeld

(* Whatever a worker does. *)
LEMMA WorkInv ==
  ASSUME WorkersInv, NEW w \in Thread, Work(w)
  PROVE  WorkersInv'
<1>0. /\ cur \in [Thread -> Object] /\ checked \in [Thread -> BOOLEAN]
      /\ told \subseteq Object /\ listed \subseteq Object /\ torn \in BOOLEAN
      /\ activeCount \in Int /\ iter \in 0..limit /\ mutex \in Thread \union {Nobody}
      /\ status \in [Thread -> States]
  BY DEF WorkersInv, TypeOK, States
<1>1. CASE Dispatch(w)
  <2>1. PICK to \in Points \ {"event", "handler"} : pc' = [pc EXCEPT ![w] = to]
    BY <1>0, <1>1 DEF Dispatch, Goto, Dispatched, Points, States
  <2> QED
    BY <1>0, <1>1, <2>1, PlainStepInv
    DEF Dispatch, table, counters, setters, history
<1>2. ASSUME NEW o \in Object, TakeEvent(w, o) PROVE WorkersInv'
  BY <1>2, TakeEventInv
<1>3. CASE NoEvent(w)
  BY <1>0, <1>3, PlainStepInv
  DEF NoEvent, Goto, Points, table, counters, setters, history
<1>4. CASE Lookup(w)
  BY <1>4, LookupInv
<1>5. CASE EndHandler(w)
  BY <1>5, EndHandlerInv
<1>6. CASE CheckSleep(w) \/ CheckTerminate(w)
  <2>1. PICK to \in {"uncount", "drowsy", "recount", "fetch"} :
          pc' = [pc EXCEPT ![w] = to]
    BY <1>6 DEF CheckSleep, CheckTerminate, Check, Goto
  <2>2. /\ checked' = [checked EXCEPT ![w] = TRUE]
        /\ UNCHANGED <<status, cur, table, counters, setters, modified>>
        /\ torn' \in BOOLEAN
    <3>1. Torn(w, "SLEEP") \in BOOLEAN /\ Torn(w, "TERMINATE") \in BOOLEAN
      BY DEF Torn
    <3> QED
      BY <1>0, <1>6, <3>1 DEF CheckSleep, CheckTerminate, Check
  <2> QED
    BY <1>0, <2>1, <2>2, PlainStepInv DEF Points, table, counters, setters
<1>7. CASE Uncount(w)
  <2>1. /\ pc' = [pc EXCEPT ![w] = "loop"] /\ activeCount' = activeCount - 1
        /\ iter' \in {0, iter} /\ mutex' \in {w, mutex}
        /\ setting' = setting \/ Begin(w, "TERMINATE")
        /\ UNCHANGED <<status, checked, cur, table, asked, history>>
    BY <1>7 DEF Uncount, Goto
  <2>2. iter' \in 0..limit /\ activeCount' \in Int
    BY <1>0, <2>1, ThreadsAssumption
  <2> QED
    BY <1>0, <2>1, <2>2, PlainStepInv DEF Points, States, table, history
<1>8. CASE FallAsleep(w)
  BY <1>0, <1>8, PlainStepInv
  DEF FallAsleep, Goto, Points, table, counters, setters, history
<1>9. CASE Recount(w)
  <2>1. activeCount' \in Int
    BY <1>0, <1>9 DEF Recount
  <2> QED
    BY <1>0, <1>9, <2>1, PlainStepInv
    DEF Recount, Goto, Points, table, setters, history
<1>10. CASE Fetch(w)
  <2>1. PICK to \in {"tell", "loop"} : pc' = [pc EXCEPT ![w] = to]
    BY <1>10 DEF Fetch
  <2>2. cur' = cur \/ (iter \in listed /\ cur' = [cur EXCEPT ![w] = iter])
    BY <1>10 DEF Fetch
  <2>3. cur' \in [Thread -> Object] /\ \A v \in Thread : v # w => cur'[v] = cur[v]
    BY <1>0, <2>2
  <2>4. iter' \in 0..limit
    BY <1>0, <1>10, ThreadsAssumption DEF Fetch
  <2>5. mutex' \in {w, mutex} /\ (setting' = setting \/ Begin(w, "ACTIVE"))
    BY <1>10 DEF Fetch
  <2>6. UNCHANGED <<status, checked, table, activeCount, asked, history>>
    BY <1>10 DEF Fetch
  <2> QED
    BY <1>0, <2>1, <2>3, <2>4, <2>5, <2>6, PlainStepInv
    DEF Points, States, table, history
<1>11. CASE Tell(w)
  <2>1. PICK to \in {"ending", "loop"} : pc' = [pc EXCEPT ![w] = to]
    BY <1>11 DEF Tell, Goto
  <2>2. told' \subseteq Object
    BY <1>0, <1>11 DEF Tell
  <2> QED
    BY <1>0, <1>11, <2>1, <2>2, PlainStepInv
    DEF Tell, Points, counters, setters, history
<1>12. CASE EndTerminate(w)
  <2>1. cur' \in [Thread -> Object] /\ \A v \in Thread : v # w => cur'[v] = cur[v]
    BY <1>0, <1>12, ZeroIsObject DEF EndTerminate, LetGo
  <2> QED
    BY <1>0, <1>12, <2>1, PlainStepInv
    DEF EndTerminate, Goto, Points, table, counters, setters, history
<1> QED
  BY <1>1, <1>2, <1>3, <1>4, <1>5, <1>6, <1>7, <1>8, <1>9, <1>10, <1>11, <1>12 DEF Work

(* Every step keeps the invariant. *)
LEMMA WorkersInvNext == WorkersInv /\ [Next]_vars => WorkersInv'
<1> SUFFICES ASSUME WorkersInv, [Next]_vars PROVE WorkersInv'
  OBVIOUS
<1>1. CASE Terminate
  BY <1>1, TerminateInv
<1>2. ASSUME NEW s \in Setter, SetState(s) PROVE WorkersInv'
  BY <1>2, SetStateInv
<1>3. ASSUME NEW w \in Thread, Work(w) \/ Callback(w) PROVE WorkersInv'
  BY <1>3, WorkInv, CallbackInv
<1>4. CASE UNCHANGED vars
  <2>1. TypeOK' /\ SettersOK'
    BY <1>4
    DEF vars, threads, table, counters, setters, history, WorkersInv, TypeOK, SettersOK
  <2> QED
    BY <1>4, <2>1, NothingHeld DEF vars, threads, table, history, HasEvent
<1> QED
  BY <1>1, <1>2, <1>3, <1>4 DEF Next, Done

(* However many threads wait in epoll_wait() and whatever their handlers   *)
(* add and remove, two of them are in one object's handler only when a     *)
(* handler has put data, and epoll watches no object that was removed.     *)
THEOREM WorkersObjectsSound == Spec => []ObjectsSound
<1>1. WorkersInv => ObjectsSound
  BY DEF WorkersInv, HeldByOne, HasEvent, ObjectsSound, OneHandler
<1> QED
  BY <1>1, WorkersInvInit, WorkersInvNext, PTL DEF Spec

-----------------------------------------------------------------------------
(* terminate() is called once.  Until the objects are terminated, the      *)
(* signal handler has put to sleep the threads before the one it is at,    *)
(* and activeCount counts those that have not said so themselves.          *)

Told(w) == asked /\ (Busy(Signal) => w < setting[Signal].at)

Half(w) == Busy(Signal) /\ setting[Signal].half /\ setting[Signal].at = w

Counted == {w \in Thread : ~(Told(w) /\ checked[w] /\ pc[w] # "uncount")}

(* A thread is where the status it was given takes it. *)
FallingAsleep(w) ==
  /\ Told(w) =>
       /\ status[w] = "SLEEP"
       /\ checked[w] => pc[w] \in {"uncount", "loop", "sleep", "drowsy", "asleep"}
       /\ ~checked[w] => pc[w] \in {"loop", "active", "event", "handler", "sleep"}
  /\ ~Told(w) =>
       /\ status[w] = IF Half(w) THEN "SLEEP" ELSE "ACTIVE"
       /\ pc[w] \in {"loop", "active", "event", "handler"} \/ (Half(w) /\ pc[w] = "sleep")

BeforeTerminate ==
  /\ mutex = Nobody
  /\ \A w \in Thread : ~Busy(w) /\ FallingAsleep(w)
  /\ setting[Signal].state \in {"none", "SLEEP"}
  /\ Busy(Signal) => asked
  /\ activeCount = Cardinality(Counted)

(* While thread s has the objects terminated, nobody serves an event, nor  *)
(* will: a thread that looks at its status finds no ACTIVE there.          *)
Terminating(s) ==
  /\ asked /\ ~Busy(Signal)
  /\ mutex = s /\ setting[s].state = "TERMINATE"
  /\ \A w \in Thread :
       /\ w # s => ~Busy(w)
       /\ pc[w] \notin {"active", "event", "handler", "uncount"}
       /\ status[w] = IF w < setting[s].at \/ (w = setting[s].at /\ setting[s].half)
                      THEN "TERMINATE" ELSE "SLEEP"
       /\ status[w] = "SLEEP" => checked[w]

(* Then no thread is put to sleep any more. *)
AfterTerminate ==
  /\ asked /\ ~Busy(Signal)
  /\ \A w \in Thread :
       /\ setting[w].state \notin {"SLEEP", "TERMINATE"}
       /\ status[w] # "SLEEP" /\ pc[w] # "uncount"

SleepInv ==
  \/ torn
  \/ listed = {}
  \/ BeforeTerminate
  \/ \E s \in Thread : Terminating(s)
  \/ AfterTerminate

(* What TypeOK and SettersOK say of the threads. *)
LEMMA ThreadTypes ==
  ASSUME WorkersInv
  PROVE  /\ status \in [Thread -> States] /\ checked \in [Thread -> BOOLEAN]
         /\ pc \in [Thread -> Points] /\ torn \in BOOLEAN
         /\ mutex \in Thread \union {Nobody} /\ listed \subseteq Object
         /\ setting \in [Setter -> [state : States \union {"none"}, at : Thread, half : BOOLEAN]]
         /\ Signal \in Setter /\ Signal \notin Thread /\ Thread \subseteq Setter
         /\ Nobody \notin Thread /\ Main \in Thread /\ 1 \in Thread
BY ZeroIsObject, NobodyAssumption
DEF WorkersInv, TypeOK, SettersOK, States, Setter, Signal, Thread

(* The workers that are counted as awake can be counted. *)
LEMMA CountedFinite == IsFiniteSet(Counted) /\ Cardinality(Counted) \in Nat
<1>1. IsFiniteSet(Thread)
  BY ThreadsAssumption, FS_Interval DEF Thread
<1> QED
  BY <1>1, FS_Subset, FS_CardinalityType DEF Counted

(* A step of one thread that leaves it as counted as it was. *)
LEMMA ThreadMoves ==
  ASSUME WorkersInv, BeforeTerminate, NEW w \in Thread, NEW to \in Points,
         pc' = [pc EXCEPT ![w] = to],
         \A v \in Thread : v # w => checked'[v] = checked[v],
         (w \in Counted)' <=> w \in Counted,
         UNCHANGED <<status, setting, mutex, asked, activeCount>>,
         FallingAsleep(w)'
  PROVE  BeforeTerminate'
<1>1. \A v \in Thread : v # w => pc'[v] = pc[v]
  BY ThreadTypes
<1>2. \A v \in Thread : FallingAsleep(v)'
  <2> TAKE v \in Thread
  <2>1. CASE v = w
    BY <2>1
  <2>2. CASE v # w
    BY <2>2, <1>1 DEF BeforeTerminate, FallingAsleep, Told, Half, Busy
  <2> QED BY <2>1, <2>2
<1>3. Counted' = Counted
  <2>1. \A v \in Thread : v # w => ((v \in Counted)' <=> v \in Counted)
    BY <1>1 DEF Counted, Told, Busy
  <2>2. Counted \subseteq Thread /\ Counted' \subseteq Thread
    BY DEF Counted
  <2> QED BY <2>1, <2>2
<1> QED BY <1>2, <1>3 DEF BeforeTerminate, Busy

(* setWorkersState() puts the next thread to sleep: it was awake. *)
LEMMA SignalSets ==
  ASSUME WorkersInv, BeforeTerminate, NEW s \in Setter, SetState(s)
  PROVE  BeforeTerminate'
<1>1. s = Signal /\ Busy(Signal) /\ setting[Signal].state = "SLEEP" /\ asked
  BY DEF BeforeTerminate, SetState, WriteStatus, WriteChecked, Busy, Setter
<1> DEFINE k == setting[Signal].at
<1>2. k \in Thread /\ ~Told(k) /\ FallingAsleep(k)
  BY <1>1, ThreadTypes DEF BeforeTerminate, Told, Thread
<1>3. CASE WriteStatus(s)
  <2>1. /\ status' = [status EXCEPT ![k] = "SLEEP"] /\ setting' = [setting EXCEPT ![Signal].half = TRUE]
        /\ UNCHANGED <<checked, pc, mutex, asked, activeCount>>
    BY <1>1, <1>3 DEF WriteStatus, counters
  <2>2. /\ Busy(Signal)' /\ setting'[Signal].at = k /\ setting'[Signal].half
        /\ setting'[Signal].state = "SLEEP"
        /\ \A v \in Thread : setting'[v] = setting[v]
    BY <1>1, <2>1, ThreadTypes DEF Busy
  <2>3. \A v \in Thread : (Told(v)' <=> Told(v)) /\ (Half(v)' <=> v = k) /\ (Half(v) => v = k)
    BY <1>1, <2>1, <2>2 DEF Told, Half
  <2>4. \A v \in Thread : FallingAsleep(v)'
    <3> TAKE v \in Thread
    <3>1. FallingAsleep(v)
      BY DEF BeforeTerminate
    <3>2. status'[v] = IF v = k THEN "SLEEP" ELSE status[v]
      BY <2>1, <1>2, ThreadTypes
    <3> QED BY <3>1, <3>2, <2>1, <2>3, <1>2 DEF FallingAsleep
  <2>5. Counted' = Counted
    BY <2>1, <2>3 DEF Counted
  <2> QED BY <1>1, <2>1, <2>2, <2>4, <2>5 DEF BeforeTerminate, Busy
<1>4. CASE WriteChecked(s)
  <2>1. /\ setting[Signal].half /\ checked' = [checked EXCEPT ![k] = FALSE]
        /\ pc' = IF pc[k] = "asleep" THEN [pc EXCEPT ![k] = "loop"] ELSE pc
        /\ setting' = [setting EXCEPT ![Signal] =
                         IF k = Main THEN Idle ELSE [@ EXCEPT !.at = k + 1, !.half = FALSE]]
        /\ mutex' = IF k = Main /\ mutex = Signal THEN Nobody ELSE mutex
        /\ UNCHANGED <<status, asked, activeCount>>
    BY <1>1, <1>4 DEF WriteChecked, counters
  <2>2. Half(k) /\ \A v \in Thread : Half(v) => v = k
    BY <1>1, <2>1 DEF Half
  <2>3. pc' = pc /\ mutex' = mutex
    BY <2>1, <2>2, <1>2, ThreadTypes DEF FallingAsleep, BeforeTerminate
  <2>4. \A v \in Thread : setting'[v] = setting[v]
    BY <2>1, ThreadTypes
  <2>5. /\ \A v \in Thread : Told(v)' <=> Told(v) \/ v = k
        /\ \A v \in Thread : ~Half(v)'
        /\ setting'[Signal].state \in {"none", "SLEEP"}
    <3>1. CASE k = Main
      <4>1. setting'[Signal] = Idle
        BY <3>1, <2>1, ThreadTypes
      <4>2. ~Busy(Signal)'
        BY <4>1 DEF Busy, Idle
      <4>3. \A v \in Thread : v < k \/ v = k
        BY <3>1, ThreadsAssumption DEF Thread, Main
      <4> QED BY <4>1, <4>2, <4>3, <1>1, <2>1 DEF Told, Half, Idle
    <3>2. CASE k # Main
      <4>1. /\ setting'[Signal].at = k + 1 /\ setting'[Signal].half = FALSE
            /\ setting'[Signal].state = "SLEEP"
        BY <3>2, <2>1, <1>1, ThreadTypes
      <4>2. Busy(Signal)'
        BY <4>1 DEF Busy
      <4>3. \A v \in Thread : v < k + 1 <=> v < k \/ v = k
        BY <1>2, ThreadsAssumption DEF Thread
      <4> QED BY <4>1, <4>2, <4>3, <1>1, <2>1 DEF Told, Half
    <3> QED BY <3>1, <3>2
  <2>6. \A v \in Thread : FallingAsleep(v)'
    <3> TAKE v \in Thread
    <3>1. FallingAsleep(v)
      BY DEF BeforeTerminate
    <3>2. CASE v = k
      <4>1. checked'[v] = FALSE /\ status'[v] = "SLEEP" /\ Told(v)'
        BY <3>2, <2>1, <2>2, <2>5, <1>2, ThreadTypes DEF FallingAsleep
      <4>2. pc'[v] \in {"loop", "active", "event", "handler", "sleep"}
        BY <3>2, <2>3, <1>2 DEF FallingAsleep
      <4> QED BY <4>1, <4>2 DEF FallingAsleep
    <3>3. CASE v # k
      <4>1. checked'[v] = checked[v] /\ status'[v] = status[v] /\ pc'[v] = pc[v]
        BY <3>3, <2>1, <2>3, ThreadTypes
      <4> QED BY <3>1, <3>3, <4>1, <2>2, <2>5 DEF FallingAsleep
    <3> QED BY <3>2, <3>3
  <2>7. Counted' = Counted
    <3>1. \A v \in Thread : v # k => checked'[v] = checked[v]
      BY <2>1, ThreadTypes
    <3>2. checked'[k] = FALSE
      BY <2>1, <1>2, ThreadTypes
    <3> QED BY <3>1, <3>2, <2>3, <2>5, <1>2 DEF Counted
  <2>8. mutex' = Nobody /\ \A v \in Thread : ~Busy(v)' /\ FallingAsleep(v)'
    BY <2>3, <2>4, <2>6 DEF BeforeTerminate, Busy
  <2>9. activeCount' = Cardinality(Counted')
    BY <2>1, <2>7 DEF BeforeTerminate
  <2> QED BY <1>1, <2>1, <2>5, <2>8, <2>9 DEF BeforeTerminate, Busy
<1> QED BY <1>3, <1>4 DEF SetState

(* A thread that says it sleeps is not counted any more; when none is, all *)
(* have been put to sleep, and this one has the objects terminated.        *)
LEMMA UncountSleeps ==
  ASSUME WorkersInv, BeforeTerminate, NEW w \in Thread, Uncount(w)
  PROVE  BeforeTerminate' \/ Terminating(w)'
<1>1. /\ pc[w] = "uncount" /\ pc' = [pc EXCEPT ![w] = "loop"]
      /\ activeCount' = activeCount - 1
      /\ UNCHANGED <<status, checked, asked>>
  BY DEF Uncount, Goto
<1>2. FallingAsleep(w) /\ Told(w) /\ checked[w]
  BY <1>1, ThreadTypes DEF BeforeTerminate, FallingAsleep
<1>3. \A v \in Thread : (v # w => pc'[v] = pc[v]) /\ pc'[w] = "loop"
  BY <1>1, ThreadTypes
<1>4. setting'[Signal] = setting[Signal] /\ \A v \in Thread : v # w => setting'[v] = setting[v]
  BY ThreadTypes DEF Uncount, Begin
<1>5. \A v \in Thread : (Told(v)' <=> Told(v)) /\ (Half(v)' <=> Half(v))
  BY <1>1, <1>4 DEF Told, Half, Busy
<1>6. Counted' = Counted \ {w} /\ w \in Counted
  BY <1>1, <1>2, <1>3, <1>5 DEF Counted
<1>7. Cardinality(Counted') = Cardinality(Counted) - 1
  BY <1>6, CountedFinite, FS_RemoveElement
<1>8. activeCount' = Cardinality(Counted')
  BY <1>1, <1>7 DEF BeforeTerminate
<1>9. CASE activeCount' # 0
  <2>1. setting' = setting /\ mutex' = mutex
    BY <1>9 DEF Uncount
  <2>2. \A v \in Thread : FallingAsleep(v)'
    <3> TAKE v \in Thread
    <3>1. CASE v = w
      BY <3>1, <1>1, <1>2, <1>3, <1>5 DEF FallingAsleep
    <3>2. CASE v # w
      BY <3>2, <1>1, <1>3, <1>5 DEF FallingAsleep, BeforeTerminate
    <3> QED BY <3>1, <3>2
  <2>3. BeforeTerminate'
    BY <1>1, <1>8, <2>1, <2>2 DEF BeforeTerminate, Busy
  <2> QED BY <2>3
<1>10. CASE activeCount' = 0
  <2>1. Begin(w, "TERMINATE") /\ mutex' = w
    BY <1>10 DEF Uncount
  <2>2. \A v \in Thread : Told(v) /\ checked[v] /\ pc'[v] # "uncount"
    <3>1. IsFiniteSet(Counted')
      BY <1>6, CountedFinite, FS_RemoveElement
    <3>2. Counted' = {}
      BY <1>8, <1>10, <3>1, FS_EmptySet
    <3> QED BY <3>2, <1>1, <1>5 DEF Counted
  <2>3. asked /\ ~Busy(Signal)
    <3>1. Told(Main)
      BY <2>2, ThreadTypes
    <3>2. setting[Signal].at \in Thread
      BY ThreadTypes
    <3> QED BY <3>1, <3>2, ThreadsAssumption DEF Told, Thread, Main
  <2>4. setting'[w] = [state |-> "TERMINATE", at |-> 1, half |-> FALSE]
    BY <2>1, ThreadTypes DEF Begin, Idle
  <2>5. \A v \in Thread : /\ status[v] = "SLEEP" /\ ~(v < 1)
                          /\ pc'[v] \notin {"active", "event", "handler", "uncount"}
    <3> TAKE v \in Thread
    <3>1. status[v] = "SLEEP" /\ pc[v] \notin {"active", "event", "handler"}
      BY <2>2 DEF BeforeTerminate, FallingAsleep
    <3> QED BY <3>1, <1>3, <2>2 DEF Thread
  <2>6. \A v \in Thread : v # w => ~Busy(v)'
    BY <1>4 DEF BeforeTerminate, Busy
  <2>7. ~Busy(Signal)'
    BY <2>3, <1>4 DEF Busy
  <2> QED BY <1>1, <2>1, <2>2, <2>3, <2>4, <2>5, <2>6, <2>7 DEF Terminating
<1> QED BY <1>9, <1>10

(* What a callback does, unless it removes the last object. *)
LEMMA ThreadsStay ==
  ASSUME SleepInv, ~torn, listed # {},
         UNCHANGED <<status, checked, pc, setting, mutex, asked, activeCount>>
  PROVE  SleepInv'
<1>1. CASE BeforeTerminate
  <2>1. \A v \in Thread : ~Busy(v)' /\ FallingAsleep(v)'
    BY <1>1 DEF BeforeTerminate, FallingAsleep, Told, Half, Busy
  <2>2. Counted' = Counted
    BY DEF Counted, Told, Busy
  <2>3. activeCount' = Cardinality(Counted')
    BY <1>1, <2>2 DEF BeforeTerminate
  <2> QED BY <1>1, <2>1, <2>3 DEF BeforeTerminate, Busy, SleepInv
<1>2. CASE \E s \in Thread : Terminating(s)
  <2>1. PICK s \in Thread : Terminating(s)
    BY <1>2
  <2>2. Terminating(s)'
    BY <2>1 DEF Terminating, Busy
  <2> QED BY <2>2 DEF SleepInv
<1>3. CASE AfterTerminate
  BY <1>3 DEF AfterTerminate, Busy, SleepInv
<1> QED BY <1>1, <1>2, <1>3 DEF SleepInv

(* The signal itself: every thread is awake and counted. *)
LEMMA SignalComes ==
  ASSUME WorkersInv, BeforeTerminate, Terminate
  PROVE  BeforeTerminate'
<1>1. /\ ~asked /\ asked' /\ ~Busy(Signal)
      /\ setting' = [setting EXCEPT ![Signal] = [Idle EXCEPT !.state = "SLEEP"]]
      /\ UNCHANGED <<status, checked, pc, mutex, activeCount>>
  BY DEF Terminate, Begin, BeforeTerminate, threads, counters
<1>2. /\ setting'[Signal] = [state |-> "SLEEP", at |-> 1, half |-> FALSE]
      /\ \A v \in Thread : setting'[v] = setting[v]
  BY <1>1, ThreadTypes DEF Idle
<1>3. Busy(Signal)'
  BY <1>2 DEF Busy
<1>4. \A v \in Thread : ~Told(v) /\ ~Told(v)' /\ ~Half(v) /\ ~Half(v)'
  <2>1. \A v \in Thread : ~(v < 1)
    BY ThreadsAssumption DEF Thread
  <2> QED BY <1>1, <1>2, <1>3, <2>1 DEF Told, Half
<1>5. \A v \in Thread : FallingAsleep(v)'
  BY <1>1, <1>4 DEF BeforeTerminate, FallingAsleep
<1>6. Counted' = Counted
  BY <1>1, <1>4 DEF Counted
<1>7. mutex' = Nobody /\ \A v \in Thread : ~Busy(v)'
  BY <1>1, <1>2 DEF BeforeTerminate, Busy
<1>8. activeCount' = Cardinality(Counted')
  BY <1>1, <1>6 DEF BeforeTerminate
<1> QED BY <1>1, <1>2, <1>5, <1>7, <1>8 DEF BeforeTerminate

(* doSleepAction() of a thread whose status and checked were set together. *)
LEMMA CheckSleepCounts ==
  ASSUME WorkersInv, BeforeTerminate, NEW w \in Thread, CheckSleep(w), ~torn'
  PROVE  BeforeTerminate'
<1> DEFINE to == IF checked[w] THEN "drowsy" ELSE "uncount"
<1>1. /\ pc[w] = "sleep" /\ pc' = [pc EXCEPT ![w] = to]
      /\ checked' = [checked EXCEPT ![w] = TRUE]
      /\ UNCHANGED <<status, setting, mutex, asked, activeCount>>
  BY DEF CheckSleep, Check, Goto, counters, setters
<1>2. status[w] = "SLEEP" /\ ~Half(w)
  BY ThreadTypes DEF CheckSleep, Check, Torn, Half
<1>3. Told(w) /\ Told(w)' /\ FallingAsleep(w)
  BY <1>1, <1>2 DEF BeforeTerminate, FallingAsleep, Told, Busy
<1>4. to \in Points /\ pc'[w] = to /\ checked'[w] = TRUE
  BY <1>1, ThreadTypes DEF Points
<1>5. \A v \in Thread : v # w => checked'[v] = checked[v]
  BY <1>1, ThreadTypes
<1>6. (w \in Counted)' <=> w \in Counted
  BY <1>1, <1>3, <1>4 DEF Counted
<1>7. FallingAsleep(w)'
  BY <1>1, <1>2, <1>3, <1>4 DEF FallingAsleep
<1> QED
  <2> HIDE DEF to
  <2> QED BY <1>1, <1>4, <1>5, <1>6, <1>7, ThreadMoves

(* Before termination a worker's step keeps SleepInv. *)
LEMMA BeforeWorks ==
  ASSUME WorkersInv, BeforeTerminate, NEW w \in Thread, Work(w), ~torn', listed' # {}
  PROVE  SleepInv'
<1>1. FallingAsleep(w) /\ pc[w] \notin {"terminate", "recount", "fetch", "tell", "ending"}
  BY DEF BeforeTerminate, FallingAsleep
<1>2. ASSUME NEW to \in {"loop", "active", "event", "handler", "sleep", "asleep"},
             pc' = [pc EXCEPT ![w] = to],
             UNCHANGED <<status, checked, setting, mutex, asked, activeCount>>,
             \/ pc[w] = "loop" /\ to = "active" /\ status[w] = "ACTIVE"
             \/ pc[w] = "loop" /\ to = "sleep" /\ status[w] = "SLEEP"
             \/ pc[w] \in {"active", "event", "handler"} /\ to \in {"loop", "event", "handler"}
             \/ pc[w] = "drowsy" /\ to = "asleep"
      PROVE  BeforeTerminate'
  <2>1. to \in Points /\ pc'[w] = to
    BY <1>2, ThreadTypes DEF Points
  <2>2. (Told(w)' <=> Told(w)) /\ (Half(w)' <=> Half(w))
    BY <1>2 DEF Told, Half, Busy
  <2>3. FallingAsleep(w)'
    BY <1>1, <1>2, <2>1, <2>2 DEF FallingAsleep
  <2>4. (w \in Counted)' <=> w \in Counted
    BY <1>2, <2>1, <2>2 DEF Counted
  <2> QED BY <1>2, <2>1, <2>3, <2>4, ThreadMoves
<1>3. CASE Dispatch(w)
  <2>1. status[w] \in {"ACTIVE", "SLEEP"} /\ listed # {}
    BY <1>1, <1>3 DEF FallingAsleep, Dispatch, table
  <2> QED BY <1>2, <1>3, <2>1 DEF Dispatch, Dispatched, Goto, counters, setters, SleepInv
<1>4. CASE \E o \in Object : TakeEvent(w, o)
  BY <1>2, <1>4 DEF TakeEvent, Goto, counters, setters, SleepInv
<1>5. CASE NoEvent(w) \/ Lookup(w) \/ EndHandler(w) \/ FallAsleep(w)
  BY <1>2, <1>5 DEF NoEvent, Lookup, EndHandler, FallAsleep, Goto, counters, setters, SleepInv
<1>6. CASE CheckSleep(w)
  BY <1>6, CheckSleepCounts DEF SleepInv
<1>7. CASE Uncount(w)
  <2>1. BeforeTerminate' \/ Terminating(w)'
    BY <1>7, UncountSleeps
  <2> QED BY <2>1 DEF SleepInv
<1>8. CASE CheckTerminate(w) \/ Recount(w) \/ Fetch(w) \/ Tell(w) \/ EndTerminate(w)
  BY <1>1, <1>8 DEF CheckTerminate, Check, Recount, Fetch, Tell, EndTerminate, Goto
<1> QED BY <1>3, <1>4, <1>5, <1>6, <1>7, <1>8 DEF Work

(* While s has the objects terminated: its own assignments. *)
LEMMA TerminatingSets ==
  ASSUME WorkersInv, NEW s \in Thread, Terminating(s), NEW t \in Setter, SetState(t)
  PROVE  Terminating(s)' \/ AfterTerminate'
<1>1. t = s
  BY DEF Terminating, SetState, WriteStatus, WriteChecked, Busy, Setter
<1> DEFINE k == setting[s].at
<1>2. k \in Thread /\ setting[s].state = "TERMINATE"
  BY ThreadTypes DEF Terminating
<1>3. CASE WriteStatus(s)
  <2>1. /\ status' = [status EXCEPT ![k] = "TERMINATE"] /\ ~setting[s].half
        /\ setting' = [setting EXCEPT ![s].half = TRUE]
        /\ UNCHANGED <<checked, pc, mutex, asked>>
    BY <1>2, <1>3 DEF WriteStatus
  <2>2. /\ setting'[s].at = k /\ setting'[s].half /\ setting'[s].state = "TERMINATE"
        /\ \A v \in Setter : v # s => setting'[v] = setting[v]
    BY <1>2, <2>1, ThreadTypes
  <2>3. \A v \in Thread : status'[v] = IF v = k THEN "TERMINATE" ELSE status[v]
    BY <2>1, ThreadTypes
  <2>4. \A v \in Thread :
          /\ pc'[v] \notin {"active", "event", "handler", "uncount"}
          /\ status'[v] = IF v < k \/ v = k THEN "TERMINATE" ELSE "SLEEP"
          /\ status'[v] = "SLEEP" => checked'[v]
    BY <2>1, <2>3 DEF Terminating
  <2>5. ~Busy(Signal)' /\ \A v \in Thread : v # s => ~Busy(v)'
    <3>1. Signal \in Setter /\ Signal # s /\ \A v \in Thread : v \in Setter
      BY ThreadTypes
    <3>2. ~Busy(Signal) /\ \A v \in Thread : v # s => ~Busy(v)
      BY DEF Terminating
    <3> QED BY <2>2, <3>1, <3>2 DEF Busy
  <2> QED BY <2>1, <2>2, <2>4, <2>5 DEF Terminating
<1>4. CASE WriteChecked(s)
  <2>1. /\ setting[s].half /\ checked' = [checked EXCEPT ![k] = FALSE]
        /\ pc' = IF pc[k] = "asleep" THEN [pc EXCEPT ![k] = "loop"] ELSE pc
        /\ setting' = [setting EXCEPT ![s] =
                         IF k = Main THEN Idle ELSE [@ EXCEPT !.at = k + 1, !.half = FALSE]]
        /\ mutex' = IF k = Main /\ mutex = s THEN Nobody ELSE mutex
        /\ UNCHANGED <<status, asked>>
    BY <1>4 DEF WriteChecked
  <2>2. \A v \in Setter : v # s => setting'[v] = setting[v]
    BY <2>1, ThreadTypes
  <2>3. ~Busy(Signal)' /\ \A v \in Thread : v # s => ~Busy(v)'
    <3>1. Signal \in Setter /\ Signal # s /\ \A v \in Thread : v \in Setter
      BY ThreadTypes
    <3>2. ~Busy(Signal) /\ \A v \in Thread : v # s => ~Busy(v)
      BY DEF Terminating
    <3> QED BY <2>2, <3>1, <3>2 DEF Busy
  <2>4. \A v \in Thread :
          /\ pc'[v] \notin {"active", "event", "handler", "uncount"}
          /\ status[v] = IF v < k \/ v = k THEN "TERMINATE" ELSE "SLEEP"
          /\ status[v] = "SLEEP" => checked'[v]
    <3> TAKE v \in Thread
    <3>1. /\ pc[v] \notin {"active", "event", "handler", "uncount"}
          /\ status[v] = IF v < k \/ v = k THEN "TERMINATE" ELSE "SLEEP"
          /\ status[v] = "SLEEP" => checked[v]
      BY <2>1 DEF Terminating
    <3>2. pc'[v] \in {pc[v], "loop"} /\ (v # k => checked'[v] = checked[v])
      BY <2>1, ThreadTypes
    <3> QED BY <3>1, <3>2
  <2>5. CASE k = Main
    <3>1. setting'[s] = Idle
      BY <2>1, <2>5, ThreadTypes
    <3>2. \A v \in Thread : v < k \/ v = k
      BY <2>5, ThreadsAssumption DEF Thread, Main
    <3>3. \A v \in Thread : setting'[v].state = "none"
      BY <2>3, <3>1 DEF Busy, Idle
    <3> QED BY <2>1, <2>3, <2>4, <3>2, <3>3 DEF Terminating, AfterTerminate
  <2>6. CASE k # Main
    <3>1. /\ setting'[s].at = k + 1 /\ ~setting'[s].half
          /\ setting'[s].state = "TERMINATE" /\ mutex' = mutex
      BY <1>2, <2>1, <2>6, ThreadTypes
    <3>2. \A v \in Thread : v < k + 1 <=> v < k \/ v = k
      BY <1>2, ThreadsAssumption DEF Thread
    <3> QED BY <2>1, <2>3, <2>4, <3>1, <3>2 DEF Terminating
  <2> QED BY <2>5, <2>6
<1> QED BY <1>1, <1>3, <1>4 DEF SetState

(* Nobody else gets the mutex, and who looks at its status sleeps on or    *)
(* has the objects terminated.                                             *)
LEMMA TerminatingWorks ==
  ASSUME WorkersInv, NEW s \in Thread, Terminating(s), NEW w \in Thread, Work(w),
         ~torn', listed' # {}
  PROVE  Terminating(s)'
<1>1. ~Unlocked /\ status[w] \in {"TERMINATE", "SLEEP"} /\ (status[w] = "SLEEP" => checked[w])
  BY ThreadTypes DEF Unlocked, Terminating
<1>2. pc[w] \notin {"active", "event", "handler", "uncount"}
  BY DEF Terminating
<1>3. ASSUME NEW to \in Points \ {"active", "event", "handler", "uncount"},
             pc' = [pc EXCEPT ![w] = to],
             checked' = checked \/ checked' = [checked EXCEPT ![w] = TRUE],
             UNCHANGED <<status, setting, mutex, asked>>
      PROVE  Terminating(s)'
  <2>1. \A v \in Thread : pc'[v] \in {pc[v], to} /\ (checked[v] => checked'[v])
    BY <1>3, ThreadTypes
  <2> QED BY <1>3, <2>1 DEF Terminating, Busy
<1>4. CASE Dispatch(w)
  <2>1. listed # {}
    BY <1>4 DEF Dispatch, table
  <2> QED BY <1>1, <1>3, <1>4, <2>1 DEF Dispatch, Dispatched, Goto, setters, Points
<1>5. CASE CheckSleep(w)
  <2>1. status[w] = "SLEEP"
    BY <1>5 DEF CheckSleep, Check, Torn
  <2> QED BY <1>1, <1>3, <1>5, <2>1 DEF CheckSleep, Check, Goto, setters, Points
<1>6. CASE CheckTerminate(w)
  BY <1>3, <1>6 DEF CheckTerminate, Check, Goto, setters, Points
<1>7. CASE FallAsleep(w) \/ Tell(w) \/ EndTerminate(w)
  BY <1>3, <1>7 DEF FallAsleep, Tell, EndTerminate, Goto, setters, Points
<1>8. CASE (\E o \in Object : TakeEvent(w, o)) \/ NoEvent(w) \/ Uncount(w)
  BY <1>2, <1>8 DEF TakeEvent, NoEvent, Uncount, Goto
<1>9. CASE Lookup(w) \/ EndHandler(w) \/ Recount(w) \/ Fetch(w)
  BY <1>1, <1>9 DEF Lookup, EndHandler, Recount, Fetch
<1> QED BY <1>4, <1>5, <1>6, <1>7, <1>8, <1>9 DEF Work

(* After termination setState() keeps what is known of the sleepers, *)
LEMMA AfterSets ==
  ASSUME WorkersInv, AfterTerminate, NEW t \in Setter, SetState(t)
  PROVE  AfterTerminate'
<1>1. t \in Thread /\ setting[t].state \notin {"SLEEP", "TERMINATE"}
  BY DEF AfterTerminate, SetState, WriteStatus, WriteChecked, Setter
<1>2. \A v \in Setter : v # t => setting'[v] = setting[v]
  BY ThreadTypes DEF SetState, WriteStatus, WriteChecked
<1>3. setting'[t].state \notin {"SLEEP", "TERMINATE"}
  <2>1. CASE WriteStatus(t)
    BY <1>1, <2>1, ThreadTypes DEF WriteStatus
  <2>2. CASE WriteChecked(t)
    BY <1>1, <2>2, ThreadTypes DEF WriteChecked, Idle
  <2> QED BY <2>1, <2>2 DEF SetState
<1>4. asked' = asked
  BY DEF SetState, WriteStatus, WriteChecked
<1>5. Signal \in Setter /\ Signal # t /\ \A v \in Thread : v \in Setter
  BY <1>1, ThreadTypes
<1>6. \A v \in Thread : setting'[v].state \notin {"SLEEP", "TERMINATE"}
  BY <1>2, <1>3, <1>5 DEF AfterTerminate
<1>7. ~Busy(Signal)'
  BY <1>2, <1>5 DEF AfterTerminate, Busy
<1>8. \A v \in Thread : status'[v] # "SLEEP" /\ pc'[v] # "uncount"
  <2>1. CASE WriteStatus(t)
    BY <1>1, <2>1, ThreadTypes DEF AfterTerminate, WriteStatus
  <2>2. CASE WriteChecked(t)
    BY <2>2, ThreadTypes DEF AfterTerminate, WriteChecked
  <2> QED BY <2>1, <2>2 DEF SetState
<1> QED BY <1>4, <1>6, <1>7, <1>8 DEF AfterTerminate

(* and so does a worker's step that does not tear the counter. *)
LEMMA AfterWorks ==
  ASSUME WorkersInv, AfterTerminate, NEW w \in Thread, Work(w), ~torn'
  PROVE  AfterTerminate'
<1>1. status[w] # "SLEEP" /\ pc[w] # "uncount"
  BY DEF AfterTerminate
<1>2. ASSUME NEW to \in Points \ {"uncount"}, pc' = [pc EXCEPT ![w] = to],
             setting' = setting \/ Begin(w, "ACTIVE"), UNCHANGED <<status, asked>>
      PROVE  AfterTerminate'
  <2>1. \A v \in Thread : pc'[v] # "uncount"
    BY <1>2, ThreadTypes DEF AfterTerminate
  <2>2. /\ setting'[Signal] = setting[Signal]
        /\ \A v \in Thread : setting'[v] = setting[v] \/ setting'[v].state = "ACTIVE"
    BY <1>2, ThreadTypes DEF Begin, Idle
  <2> QED BY <1>2, <2>1, <2>2 DEF AfterTerminate, Busy
<1>3. CASE Dispatch(w)
  <2>1. Dispatched(status[w]) \in Points \ {"uncount"}
    BY ThreadTypes DEF Dispatched, States, Points
  <2> QED BY <1>2, <1>3, <2>1 DEF Dispatch, Goto, setters, Points
<1>4. CASE CheckSleep(w)
  BY <1>1, <1>4 DEF CheckSleep, Check, Torn
<1>5. CASE CheckTerminate(w)
  BY <1>2, <1>5 DEF CheckTerminate, Check, Goto, setters, Points
<1>6. CASE Uncount(w)
  BY <1>1, <1>6 DEF Uncount, Goto
<1>7. CASE Fetch(w)
  BY <1>2, <1>7 DEF Fetch, Points
<1>8. CASE (\E o \in Object : TakeEvent(w, o)) \/ NoEvent(w) \/ Lookup(w) \/ EndHandler(w)
  BY <1>2, <1>8 DEF TakeEvent, NoEvent, Lookup, EndHandler, Goto, setters, Points
<1>9. CASE FallAsleep(w) \/ Recount(w) \/ Tell(w) \/ EndTerminate(w)
  BY <1>2, <1>9 DEF FallAsleep, Recount, Tell, EndTerminate, Goto, setters, Points
<1> QED BY <1>3, <1>4, <1>5, <1>6, <1>7, <1>8, <1>9 DEF Work

(* A status that was read torn, and an empty table, stay so. *)
LEMMA TornStays == ASSUME [Next]_vars, torn PROVE torn'
<1>1. ASSUME NEW w \in Thread, Work(w) PROVE torn'
  <2>1. CASE CheckSleep(w) \/ CheckTerminate(w)
    BY <2>1 DEF CheckSleep, CheckTerminate, Check
  <2>2. CASE UNCHANGED torn
    BY <2>2
  <2> QED
    BY <1>1, <2>1, <2>2
    DEF Work, Dispatch, TakeEvent, NoEvent, Lookup, EndHandler, Uncount, FallAsleep, Recount,
        Fetch, Tell, EndTerminate, history
<1>2. ASSUME NEW w \in Thread, Callback(w) PROVE torn'
  BY <1>2 DEF Callback, Modify, AddObject, RemoveObject, history
<1>3. ASSUME NEW s \in Setter, SetState(s) PROVE torn'
  BY <1>3 DEF SetState, WriteStatus, WriteChecked, history
<1>4. CASE UNCHANGED vars \/ Terminate
  <2>1. UNCHANGED history
    BY <1>4 DEF vars, Terminate
  <2>2. UNCHANGED torn
    BY <2>1 DEF history
  <2> QED BY <2>2
<1> QED BY <1>1, <1>2, <1>3, <1>4 DEF Next, Done

(* A daemon that has lost its last object gets none again. *)
LEMMA EmptyStays == ASSUME [Next]_vars, listed = {} PROVE listed' = {}
<1>1. ASSUME NEW w \in Thread, Work(w) PROVE listed' = {}
  BY <1>1
  DEF Work, Dispatch, TakeEvent, NoEvent, Lookup, EndHandler, CheckSleep, CheckTerminate, Check,
      Uncount, FallAsleep, Recount, Fetch, Tell, EndTerminate, table
<1>2. ASSUME NEW w \in Thread, Callback(w) PROVE listed' = {}
  BY <1>2 DEF Callback, Modify, AddObject, RemoveObject
<1>3. ASSUME NEW s \in Setter, SetState(s) PROVE listed' = {}
  BY <1>3 DEF SetState, WriteStatus, WriteChecked, table
<1>4. CASE UNCHANGED vars \/ Terminate
  BY <1>4 DEF vars, Terminate, table
<1> QED BY <1>1, <1>2, <1>3, <1>4 DEF Next, Done

(* Every step keeps the invariant. *)
LEMMA SleepInvNext ==
  ASSUME WorkersInv, SleepInv, [Next]_vars
  PROVE  SleepInv'
<1>1. CASE torn \/ listed = {} \/ torn' \/ listed' = {}
  BY <1>1, TornStays, EmptyStays DEF SleepInv
<1>2. CASE ~torn /\ listed # {} /\ ~torn' /\ listed' # {}
  <2>1. CASE UNCHANGED vars \/ \E w \in Thread : Callback(w)
    <3>1. UNCHANGED <<status, checked, pc, setting, mutex, asked, activeCount>>
      BY <1>2, <2>1
      DEF vars, threads, counters, setters, Callback, Modify, AddObject, RemoveObject
    <3> QED BY <1>2, <3>1, ThreadsStay
  <2>2. CASE Terminate
    <3>1. BeforeTerminate
      BY <1>2, <2>2 DEF Terminate, SleepInv, Terminating, AfterTerminate
    <3> QED BY <2>2, <3>1, SignalComes DEF SleepInv
  <2>3. ASSUME NEW t \in Setter, SetState(t) PROVE SleepInv'
    <3>1. CASE BeforeTerminate
      BY <2>3, <3>1, SignalSets DEF SleepInv
    <3>2. CASE \E s \in Thread : Terminating(s)
      <4>1. PICK s \in Thread : Terminating(s)
        BY <3>2
      <4>2. Terminating(s)' \/ AfterTerminate'
        BY <2>3, <4>1, TerminatingSets
      <4> QED BY <4>2 DEF SleepInv
    <3>3. CASE AfterTerminate
      BY <2>3, <3>3, AfterSets DEF SleepInv
    <3> QED BY <1>2, <3>1, <3>2, <3>3 DEF SleepInv
  <2>4. ASSUME NEW w \in Thread, Work(w) PROVE SleepInv'
    <3>1. CASE BeforeTerminate
      BY <1>2, <2>4, <3>1, BeforeWorks
    <3>2. CASE \E s \in Thread : Terminating(s)
      <4>1. PICK s \in Thread : Terminating(s)
        BY <3>2
      <4>2. Terminating(s)'
        BY <1>2, <2>4, <4>1, TerminatingWorks
      <4> QED BY <4>2 DEF SleepInv
    <3>3. CASE AfterTerminate
      BY <1>2, <2>4, <3>3, AfterWorks DEF SleepInv
    <3> QED BY <1>2, <3>1, <3>2, <3>3 DEF SleepInv
  <2> QED BY <2>1, <2>2, <2>3, <2>4 DEF Next, Done
<1> QED BY <1>1, <1>2

(* Init: all workers are awake, and counted so. *)
LEMMA SleepInvInit == Init => SleepInv
<1> SUFFICES ASSUME Init PROVE BeforeTerminate
  BY DEF SleepInv
<1>1. /\ \A v \in Thread : setting[v] = Idle /\ pc[v] = "loop" /\ status[v] = "ACTIVE"
      /\ setting[Signal] = Idle /\ mutex = Nobody /\ ~asked /\ activeCount = NumThreads
  BY DEF Init, Setter
<1>2. ~Busy(Signal) /\ \A v \in Thread : ~Busy(v) /\ ~Told(v) /\ ~Half(v)
  BY <1>1 DEF Busy, Told, Half, Idle
<1>3. Cardinality(Counted) = NumThreads
  <2>1. Counted = 1..NumThreads
    BY <1>2 DEF Counted, Thread
  <2> QED BY <2>1, ThreadsAssumption, FS_Interval
<1> QED BY <1>1, <1>2, <1>3 DEF BeforeTerminate, FallingAsleep, Idle

(* The objects are terminated when no thread serves an event any more,     *)
(* unless a thread looked at its status between the two assignments of     *)
(* setWorkersState(): activeCount then counts the threads that are awake.  *)
THEOREM WorkersSleepFirst == Spec => []SleepFirstUnlessTorn
<1>1. SleepInv => SleepFirstUnlessTorn
  <2> SUFFICES ASSUME SleepInv, ~torn, Sending, listed # {} PROVE Quiet
    BY DEF SleepFirstUnlessTorn, SleepFirst
  <2>1. ~BeforeTerminate /\ ~AfterTerminate
    BY DEF BeforeTerminate, AfterTerminate, Busy, Sending
  <2> QED BY <2>1 DEF SleepInv, Terminating, Quiet
<1> QED
  BY <1>1, WorkersInvInit, WorkersInvNext, SleepInvInit, SleepInvNext, PTL DEF Spec

-----------------------------------------------------------------------------
(* libnano's pools of temporary objects.  The calls alternate between the  *)
(* pools, so that the j-th note of pool p was made by the call at depth    *)
(* 2j - 1 + p, and an object's pool follows from the call it lives until.  *)

Context(p, j) == 2 * j - 1 + p

DoublePoolTypeOK ==
  /\ subpool \in [0..1 -> [offset : Nat, stack : Seq(Nat)]]
  /\ active \in 0..1

Alternate ==
  /\ active = Depth % 2
  /\ PoolDepth(0) = (Depth + 1) \div 2
  /\ PoolDepth(1) = Depth \div 2

Owned ==
  \A o \in objects :
    /\ o.pool \in 0..1 /\ o.from \in Nat /\ o.size \in Nat /\ o.until \in Int
    /\ o.until <= Depth
    /\ (o.until + o.pool) % 2 = 1
    /\ o.from + o.size <= subpool[o.pool].offset

(* A note parts the objects of its pool: those that outlive its call are   *)
(* below it, those that are freed with it are above.                       *)
Noted ==
  \A p \in 0..1 : \A j \in 1..PoolDepth(p) :
    /\ subpool[p].stack[j] <= subpool[p].offset
    /\ \A i \in 1..j : subpool[p].stack[i] <= subpool[p].stack[j]
    /\ \A o \in objects : o.pool = p =>
         /\ o.until < Context(p, j) => o.from + o.size <= subpool[p].stack[j]
         /\ o.until >= Context(p, j) => o.from >= subpool[p].stack[j]

OwnsByte(o, p, byte) == o.pool = p /\ o.from <= byte /\ byte < o.from + o.size

Covered ==
  \A p \in 0..1 : \A byte \in Nat :
    /\ byte < subpool[p].offset => \E o \in objects : OwnsByte(o, p, byte)
    /\ \A o, q \in objects : OwnsByte(o, p, byte) /\ OwnsByte(q, p, byte) => o = q

PoolsSound == DoublePoolTypeOK /\ Alternate /\ Owned /\ Noted /\ Covered

PoolsInv == ~overfull => PoolsSound

(* The newest note of the active pool is of the caller's call, that of the *)
(* other pool of the call itself.                                          *)
LEMMA NewestNotes ==
  ASSUME DoublePoolTypeOK, Alternate
  PROVE  /\ Depth \in Nat /\ PoolDepth(0) \in Nat /\ PoolDepth(1) \in Nat
         /\ temp \in 0..1 /\ active # temp /\ temp = 1 - active
         /\ Context(active, PoolDepth(active)) = Depth - 1
         /\ Context(temp, PoolDepth(temp)) = Depth
<1>1. PoolDepth(0) \in Nat /\ PoolDepth(1) \in Nat
  BY DEF DoublePoolTypeOK, PoolDepth
<1>2. Depth \in Nat
  BY <1>1 DEF Depth
<1>3. temp \in 0..1 /\ active # temp /\ temp = 1 - active /\ ((active = 0 /\ temp = 1) \/ (active = 1 /\ temp = 0))
  BY DEF DoublePoolTypeOK, temp, Other
<1> DEFINE d == Depth
           n == PoolDepth(0)
           m == PoolDepth(1)
<1>4. d \in Nat /\ n \in Nat /\ m \in Nat /\ n = (d + 1) \div 2 /\ m = d \div 2 /\ active = d % 2
  BY <1>1, <1>2 DEF Alternate
<1> HIDE DEF d, n, m
<1>5. CASE active = 0 /\ temp = 1
  <2>1. 2 * n - 1 + 0 = d - 1 /\ 2 * m - 1 + 1 = d
    BY <1>4, <1>5
  <2> QED BY <1>1, <1>2, <1>3, <1>5, <2>1 DEF Context, d, n, m
<1>6. CASE active = 1 /\ temp = 0
  <2>1. 2 * m - 1 + 1 = d - 1 /\ 2 * n - 1 + 0 = d
    BY <1>4, <1>6
  <2> QED BY <1>1, <1>2, <1>3, <1>6, <2>1 DEF Context, d, n, m
<1> QED BY <1>3, <1>5, <1>6

(* What a sequence of numbers holds are numbers. *)
LEMMA NoteIsNat == \A s \in Seq(Nat) : \A i \in 1..Len(s) : s[i] \in Nat
OBVIOUS

(* Both depths follow from that of the calls, as calls open and end. *)
LEMMA Halves ==
  ASSUME NEW d \in Nat, NEW n \in Nat, NEW m \in Nat, n = (d + 1) \div 2, m = d \div 2
  PROVE  /\ d % 2 = 0 => /\ (d + 1) % 2 = 1 /\ n + 1 = ((d + 1) + 1) \div 2 /\ m = (d + 1) \div 2
                         /\ d > 0 => (d - 1) % 2 = 1 /\ n = ((d - 1) + 1) \div 2 /\ m - 1 = (d - 1) \div 2
         /\ d % 2 = 1 => /\ (d + 1) % 2 = 0 /\ n = ((d + 1) + 1) \div 2 /\ m + 1 = (d + 1) \div 2
                         /\ d > 0 => (d - 1) % 2 = 0 /\ n - 1 = ((d - 1) + 1) \div 2 /\ m = (d - 1) \div 2
OBVIOUS

(* Opening a call: the note is made where the next call's objects go.      *)
LEMMA EnterInv ==
  ASSUME PoolsSound, ~overfull, ~overfull', Enter
  PROVE  PoolsSound'
<1>1. DoublePoolTypeOK /\ Alternate /\ Owned /\ Noted /\ Covered
  BY DEF PoolsSound
<1>0. PICK a \in 0..1 : a = active
  BY <1>1 DEF DoublePoolTypeOK
<1> DEFINE b == 1 - a
           n == PoolDepth(a)
           off == subpool[a].offset
           st == subpool[a].stack
<1>2. /\ b = temp /\ Depth \in Nat /\ a \in 0..1 /\ b \in 0..1 /\ a # b
      /\ Context(a, n) = Depth - 1
  BY <1>0, <1>1, NewestNotes
<1>3. st \in Seq(Nat) /\ off \in Nat /\ n = Len(st) /\ n \in Nat
  BY <1>1 DEF DoublePoolTypeOK, PoolDepth
<1> DEFINE more == Append(st, off)
<1>4. /\ active' = b /\ objects' = objects
      /\ subpool' = [subpool EXCEPT ![a] = [subpool[a] EXCEPT !.stack = more]]
  BY <1>0, <1>2 DEF Enter, EnterPool
<1>6. more \in Seq(Nat) /\ Len(more) = n + 1
  BY <1>3
<1>7. /\ \A j \in 1..n : more[j] = st[j]
      /\ more[n + 1] = off
  BY <1>3
<1> HIDE DEF more
<1>5. /\ subpool'[a] = [offset |-> off, stack |-> more]
      /\ subpool'[b] = subpool[b]
  BY <1>1, <1>2, <1>4 DEF DoublePoolTypeOK
<1>8. PoolDepth(a)' = n + 1 /\ PoolDepth(b)' = PoolDepth(b)
  <2>1. subpool'[a].stack = more /\ subpool'[b].stack = subpool[b].stack
    BY <1>5
  <2> QED BY <1>6, <2>1 DEF PoolDepth
<1>9. (a = 0 /\ b = 1) \/ (a = 1 /\ b = 0)
  OBVIOUS
<1>10. Depth' = Depth + 1
  <2>1. PoolDepth(0) \in Nat /\ PoolDepth(1) \in Nat
    BY <1>1 DEF DoublePoolTypeOK, PoolDepth
  <2> QED BY <1>8, <1>9, <2>1 DEF Depth
<1>11. DoublePoolTypeOK'
  BY <1>1, <1>2, <1>3, <1>4, <1>6 DEF DoublePoolTypeOK
<1>12. Alternate'
  <2> DEFINE d == Depth
             k == PoolDepth(0)
             m == PoolDepth(1)
  <2>0. /\ d \in Nat /\ k \in Nat /\ m \in Nat /\ a = d % 2
        /\ k = (d + 1) \div 2 /\ m = d \div 2
    BY <1>0, <1>1, <1>2, NewestNotes DEF Alternate
  <2>1. CASE a = 0 /\ b = 1
    <3>1. active' = 1 /\ Depth' = d + 1 /\ PoolDepth(0)' = k + 1 /\ PoolDepth(1)' = m
      BY <2>1, <1>4, <1>8, <1>10
    <3> HIDE DEF d, k, m
    <3> QED BY <2>0, <2>1, <3>1, Halves DEF Alternate
  <2>2. CASE a = 1 /\ b = 0
    <3>1. active' = 0 /\ Depth' = d + 1 /\ PoolDepth(0)' = k /\ PoolDepth(1)' = m + 1
      BY <2>2, <1>4, <1>8, <1>10
    <3> HIDE DEF d, k, m
    <3> QED BY <2>0, <2>2, <3>1, Halves DEF Alternate
  <2> QED BY <1>9, <2>1, <2>2
<1>13. \A p \in 0..1 : subpool'[p].offset = subpool[p].offset
  BY <1>5, <1>9
<1>14. Owned'
  BY <1>1, <1>2, <1>4, <1>10, <1>13 DEF Owned
<1>15. Covered'
  BY <1>1, <1>4, <1>13 DEF Covered
<1>16. Noted'
  <2> SUFFICES ASSUME NEW p \in 0..1, NEW j \in 1..PoolDepth(p)'
               PROVE  /\ subpool'[p].stack[j] <= subpool'[p].offset
                      /\ \A i \in 1..j : subpool'[p].stack[i] <= subpool'[p].stack[j]
                      /\ \A o \in objects : o.pool = p =>
                           /\ o.until < Context(p, j) => o.from + o.size <= subpool'[p].stack[j]
                           /\ o.until >= Context(p, j) => o.from >= subpool'[p].stack[j]
    BY <1>4 DEF Noted, Context
  <2>1. CASE p = b
    BY <2>1, <1>1, <1>5, <1>8 DEF Noted
  <2>2. CASE p = a /\ j \in 1..n
    <3>0. subpool'[p].stack = more /\ subpool[p].stack = st
      BY <2>2, <1>5
    <3>1. \A i \in 1..j : i \in 1..n
      BY <2>2, <1>3
    <3>2. \A i \in 1..j : subpool'[p].stack[i] = subpool[p].stack[i]
      BY <3>0, <3>1, <1>7
    <3>3. subpool'[p].stack[j] = subpool[p].stack[j]
      BY <3>0, <2>2, <1>7
    <3> QED BY <2>2, <3>2, <3>3, <1>1, <1>13 DEF Noted
  <2>3. CASE p = a /\ j = n + 1
    <3>0. subpool'[p].stack = more
      BY <2>3, <1>5
    <3>1. subpool'[p].stack[j] = off /\ subpool'[p].offset = off
      BY <3>0, <2>3, <1>5, <1>7
    <3>2. Context(p, j) = Depth + 1
      <4> DEFINE d == Depth
      <4>1. 2 * n - 1 + a = d - 1 /\ d \in Nat /\ n \in Nat
        BY <1>2, <1>3 DEF Context
      <4> HIDE DEF d, n
      <4>2. 2 * (n + 1) - 1 + a = d + 1
        BY <4>1
      <4> QED BY <2>3, <4>2 DEF Context, d, n
    <3>3. ASSUME NEW i \in 1..j
          PROVE  subpool'[p].stack[i] <= off
      <4>1. CASE i \in 1..n
        <5>1. subpool'[p].stack[i] = st[i]
          BY <3>0, <4>1, <1>7
        <5>2. st[i] <= off
          BY <4>1, <1>1, <1>2 DEF Noted
        <5> QED BY <5>1, <5>2
      <4>2. CASE i = n + 1
        BY <2>3, <4>2, <3>1, <1>3
      <4> QED BY <2>3, <4>1, <4>2, <1>3
    <3>4. ASSUME NEW o \in objects, o.pool = p
          PROVE  o.until < Context(p, j) /\ o.from + o.size <= off
      <4>1. o.until \in Int /\ o.until <= Depth /\ o.from + o.size <= subpool[o.pool].offset
        BY <1>1 DEF Owned
      <4> QED BY <4>1, <3>2, <3>4, <2>3, <1>2
    <3>5. ASSUME NEW o \in objects, o.pool = p
          PROVE  ~(o.until >= Context(p, j))
      <4>1. o.until \in Int /\ o.until < Context(p, j) /\ Context(p, j) \in Int
        BY <3>4, <3>5, <3>2, <1>1, <1>2 DEF Owned
      <4> QED BY <4>1
    <3>6. off <= off
      BY <1>3
    <3> QED BY <3>1, <3>3, <3>4, <3>5, <3>6
  <2>4. p = b \/ (p = a /\ j \in 1..n) \/ (p = a /\ j = n + 1)
    <3>1. p = a => j \in 1..n + 1
      BY <1>8
    <3>2. n \in Nat
      BY <1>3
    <3> HIDE DEF n
    <3> QED BY <3>1, <3>2, <1>9
  <2> QED BY <2>1, <2>2, <2>3, <2>4
<1> QED BY <1>11, <1>12, <1>14, <1>15, <1>16 DEF PoolsSound

(* An object goes on top of its pool, above every note. *)
LEMMA AllocInv ==
  ASSUME PoolsSound, NEW p \in 0..1, NEW size \in Nat, NEW until \in Int,
         until = Context(p, PoolDepth(p)), until <= Depth, (until + p) % 2 = 1,
         AllocFrom(p, size, until)
  PROVE  PoolsSound'
<1> DEFINE off == subpool[p].offset
           new == [pool |-> p, from |-> off, size |-> size, until |-> until]
<1>1. DoublePoolTypeOK /\ Alternate /\ Owned /\ Noted /\ Covered
  BY DEF PoolsSound
<1>2. off \in Nat
  BY <1>1 DEF DoublePoolTypeOK
<1>3. /\ subpool' = [subpool EXCEPT ![p].offset = off + size]
      /\ objects' = objects \union {new} /\ active' = active
  BY DEF AllocFrom
<1>4. /\ subpool' \in [0..1 -> [offset : Nat, stack : Seq(Nat)]]
      /\ subpool'[p].offset = off + size
      /\ \A q \in 0..1 : /\ subpool'[q].stack = subpool[q].stack
                         /\ q # p => subpool'[q].offset = subpool[q].offset
  <2> DEFINE sum == off + size
  <2>1. sum \in Nat
    BY <1>2
  <2>2. subpool' = [subpool EXCEPT ![p].offset = sum]
    BY <1>3
  <2>3. subpool \in [0..1 -> [offset : Nat, stack : Seq(Nat)]]
    BY <1>1 DEF DoublePoolTypeOK
  <2> HIDE DEF sum
  <2>4. /\ subpool' \in [0..1 -> [offset : Nat, stack : Seq(Nat)]]
        /\ subpool'[p].offset = sum
        /\ \A q \in 0..1 : /\ subpool'[q].stack = subpool[q].stack
                           /\ q # p => subpool'[q].offset = subpool[q].offset
    BY <2>1, <2>2, <2>3
  <2> QED BY <2>4 DEF sum
<1>5. \A q \in 0..1 : PoolDepth(q)' = PoolDepth(q)
  BY <1>4 DEF PoolDepth
<1>6. Depth' = Depth
  BY <1>5 DEF Depth
<1>7. DoublePoolTypeOK' /\ Alternate'
  BY <1>1, <1>3, <1>4, <1>5, <1>6 DEF DoublePoolTypeOK, Alternate
<1>8. \A q \in 0..1 : /\ subpool[q].offset \in Nat
                      /\ subpool'[q].offset >= subpool[q].offset
  <2> TAKE q \in 0..1
  <2>1. subpool[q].offset \in Nat
    BY <1>1 DEF DoublePoolTypeOK
  <2>2. CASE q = p
    <3> HIDE DEF off
    <3>1. off + size >= off
      BY <1>2
    <3> QED BY <2>1, <2>2, <3>1, <1>4 DEF off
  <2>3. CASE q # p
    <3> DEFINE x == subpool[q].offset
    <3>1. x \in Nat /\ subpool'[q].offset = x
      BY <2>1, <2>3, <1>4
    <3> HIDE DEF x
    <3>2. x >= x
      BY <3>1
    <3> QED BY <2>1, <3>1, <3>2 DEF x
  <2> QED BY <2>2, <2>3
<1>9. Owned'
  <2> SUFFICES ASSUME NEW o \in objects'
               PROVE  /\ o.pool \in 0..1 /\ o.from \in Nat /\ o.size \in Nat /\ o.until \in Int
                      /\ o.until <= Depth
                      /\ (o.until + o.pool) % 2 = 1
                      /\ o.from + o.size <= subpool'[o.pool].offset
    BY <1>6 DEF Owned
  <2>1. CASE o \in objects
    <3>1. /\ o.pool \in 0..1 /\ o.from \in Nat /\ o.size \in Nat /\ o.until \in Int
          /\ o.until <= Depth
          /\ (o.until + o.pool) % 2 = 1
          /\ o.from + o.size <= subpool[o.pool].offset
      BY <2>1, <1>1 DEF Owned
    <3>2. o.from + o.size <= subpool'[o.pool].offset
      <4> DEFINE x == subpool[o.pool].offset
                 y == subpool'[o.pool].offset
                 z == o.from + o.size
      <4>1. x \in Nat /\ y >= x /\ y \in Nat
        <5> PICK q \in 0..1 : q = o.pool
          BY <3>1
        <5>1. subpool'[q].offset \in Nat
          BY <1>4
        <5> QED BY <5>1, <1>8
      <4>3. z \in Nat /\ z <= x
        BY <3>1
      <4> HIDE DEF x, y, z
      <4>2. z <= y
        BY <4>1, <4>3
      <4> QED BY <4>2 DEF y, z
    <3> QED BY <3>1, <3>2
  <2>2. CASE o = new
    <3>1. new.from + new.size = off + size
      OBVIOUS
    <3> QED BY <2>2, <3>1, <1>2, <1>4
  <2> QED BY <1>3, <2>1, <2>2
<1>10. Noted'
  <2> SUFFICES ASSUME NEW q \in 0..1, NEW j \in 1..PoolDepth(q)
               PROVE  /\ subpool[q].stack[j] <= subpool'[q].offset
                      /\ \A i \in 1..j : subpool[q].stack[i] <= subpool[q].stack[j]
                      /\ \A o \in objects' : o.pool = q =>
                           /\ o.until < Context(q, j) => o.from + o.size <= subpool[q].stack[j]
                           /\ o.until >= Context(q, j) => o.from >= subpool[q].stack[j]
    BY <1>4, <1>5 DEF Noted, Context
  <2> DEFINE note == subpool[q].stack[j]
  <2>1. /\ note <= subpool[q].offset
        /\ \A i \in 1..j : subpool[q].stack[i] <= note
        /\ \A o \in objects : o.pool = q =>
             /\ o.until < Context(q, j) => o.from + o.size <= note
             /\ o.until >= Context(q, j) => o.from >= note
    BY <1>1 DEF Noted
  <2>2. note \in Nat /\ j \in Nat /\ PoolDepth(q) \in Nat /\ j <= PoolDepth(q)
    <3> DEFINE st == subpool[q].stack
    <3>1. st \in Seq(Nat) /\ PoolDepth(q) = Len(st)
      BY <1>1 DEF DoublePoolTypeOK, PoolDepth
    <3> HIDE DEF st
    <3>2. Len(st) \in Nat /\ j \in 1..Len(st)
      BY <3>1
    <3>3. st[j] \in Nat
      BY <3>1, <3>2, NoteIsNat
    <3> QED BY <3>1, <3>2, <3>3 DEF st
  <2>3. note <= subpool'[q].offset
    <3> DEFINE x == subpool[q].offset
               y == subpool'[q].offset
    <3>1. x \in Nat /\ y >= x /\ y \in Nat /\ note <= x
      BY <2>1, <1>4, <1>8
    <3> HIDE DEF x, y, note
    <3>2. note <= y
      BY <3>1, <2>2
    <3> QED BY <3>2 DEF y
  <2>4. q = p => new.from >= note /\ ~(new.until < Context(q, j))
    <3> SUFFICES ASSUME q = p PROVE off >= note /\ ~(until < Context(q, j))
      OBVIOUS
    <3>1. off >= note
      BY <1>2, <2>1, <2>2
    <3>2. until = 2 * PoolDepth(q) - 1 + q /\ Context(q, j) = 2 * j - 1 + q
      BY DEF Context
    <3> QED BY <3>1, <3>2, <2>2
  <2> HIDE DEF note
  <2>5. ASSUME NEW o \in objects', o.pool = q
        PROVE  /\ o.until < Context(q, j) => o.from + o.size <= note
               /\ o.until >= Context(q, j) => o.from >= note
    <3>1. CASE o \in objects
      BY <3>1, <2>1, <2>5
    <3>2. CASE o = new
      <4>1. q = p
        BY <3>2, <2>5
      <4> HIDE DEF new
      <4> QED BY <4>1, <3>2, <2>4
    <3> QED BY <1>3, <3>1, <3>2
  <2> QED BY <2>1, <2>3, <2>5 DEF note
<1>11. Covered'
  <2> SUFFICES ASSUME NEW q \in 0..1, NEW byte \in Nat
               PROVE  /\ byte < subpool'[q].offset => \E o \in objects' : OwnsByte(o, q, byte)
                      /\ \A o, r \in objects' : OwnsByte(o, q, byte) /\ OwnsByte(r, q, byte) => o = r
    BY DEF Covered, OwnsByte
  <2>1. /\ byte < subpool[q].offset => \E o \in objects : OwnsByte(o, q, byte)
        /\ \A o, r \in objects : OwnsByte(o, q, byte) /\ OwnsByte(r, q, byte) => o = r
    BY <1>1 DEF Covered
  <2>2. OwnsByte(new, q, byte) <=> q = p /\ off <= byte /\ byte < off + size
    BY DEF OwnsByte
  <2>3. \A o \in objects : OwnsByte(o, q, byte) => byte < subpool[q].offset
    <3> TAKE o \in objects
    <3>1. o.from \in Nat /\ o.size \in Nat /\ o.from + o.size <= subpool[o.pool].offset
      BY <1>1 DEF Owned
    <3> DEFINE x == subpool[q].offset
    <3>2. x \in Nat
      BY <1>8
    <3>3. OwnsByte(o, q, byte) => byte < o.from + o.size /\ o.from + o.size <= x
      BY <3>1 DEF OwnsByte
    <3> HIDE DEF x
    <3>4. OwnsByte(o, q, byte) => byte < x
      BY <3>1, <3>2, <3>3
    <3> QED BY <3>4 DEF x
  <2>4. \A o \in objects : ~(OwnsByte(o, q, byte) /\ OwnsByte(new, q, byte))
    <3>1. OwnsByte(new, q, byte) => ~(byte < subpool[q].offset)
      BY <2>2, <1>2
    <3> QED BY <3>1, <2>3
  <2>5. byte < subpool'[q].offset => byte < subpool[q].offset \/ OwnsByte(new, q, byte)
    <3>1. CASE q = p
      <4>1. subpool'[q].offset = off + size /\ subpool[q].offset = off
        BY <3>1, <1>4
      <4> HIDE DEF off, new
      <4>2. byte < off + size => byte < off \/ off <= byte
        BY <1>2
      <4> QED BY <4>1, <4>2, <3>1, <2>2
    <3>2. CASE q # p
      BY <3>2, <1>4
    <3> QED BY <3>1, <3>2
  <2> HIDE DEF new
  <2> QED BY <1>3, <2>1, <2>4, <2>5
<1> QED BY <1>7, <1>9, <1>10, <1>11 DEF PoolsSound

(* Leaving a call: what is below its note outlives it, what is above does  *)
(* not, and the other pool holds nothing of this call's.                   *)
LEMMA LeaveInv ==
  ASSUME PoolsSound, Leave
  PROVE  PoolsSound'
<1>1. DoublePoolTypeOK /\ Alternate /\ Owned /\ Noted /\ Covered
  BY DEF PoolsSound
<1>0. PICK a \in 0..1 : a = active
  BY <1>1 DEF DoublePoolTypeOK
<1> DEFINE b == 1 - a
           n == PoolDepth(b)
           st == subpool[b].stack
           note == st[n]
           cut == SubSeq(st, 1, n - 1)
<1>2. /\ b = temp /\ Depth \in Nat /\ a \in 0..1 /\ b \in 0..1 /\ a # b
      /\ Context(b, n) = Depth
  BY <1>0, <1>1, NewestNotes
<1>3. st \in Seq(Nat) /\ n = Len(st) /\ n \in Nat /\ n > 0
  BY <1>1, <1>2 DEF DoublePoolTypeOK, PoolDepth, Leave
<1> HIDE DEF st, n
<1>4. note \in Nat /\ cut \in Seq(Nat) /\ Len(cut) = n - 1 /\ \A j \in 1..n - 1 : cut[j] = st[j]
  BY <1>3
<1>5. /\ active' = b /\ objects' = {o \in objects : o.until < Depth}
      /\ subpool' = [subpool EXCEPT ![b] = [offset |-> note, stack |-> cut]]
  BY <1>0, <1>2 DEF Leave, LeavePool, PoolDepth, st, n
<1> HIDE DEF note, cut
<1>6. /\ subpool'[b] = [offset |-> note, stack |-> cut]
      /\ subpool'[a] = subpool[a]
  BY <1>1, <1>2, <1>5 DEF DoublePoolTypeOK
<1>7. (a = 0 /\ b = 1) \/ (a = 1 /\ b = 0)
  OBVIOUS
<1>8. PoolDepth(b)' = n - 1 /\ PoolDepth(a)' = PoolDepth(a)
  <2>1. subpool'[b].stack = cut /\ subpool'[a].stack = subpool[a].stack
    BY <1>6
  <2> QED BY <1>4, <2>1 DEF PoolDepth
<1>9. Depth' = Depth - 1
  <2>1. PoolDepth(0) \in Nat /\ PoolDepth(1) \in Nat
    BY <1>1 DEF DoublePoolTypeOK, PoolDepth
  <2> QED BY <1>7, <1>8, <2>1 DEF Depth, n
<1>10. DoublePoolTypeOK'
  BY <1>1, <1>2, <1>4, <1>5 DEF DoublePoolTypeOK
<1>11. Alternate'
  <2>1. Depth > 0
    <3>1. PoolDepth(0) \in Nat /\ PoolDepth(1) \in Nat
      BY <1>1 DEF DoublePoolTypeOK, PoolDepth
    <3> QED BY <3>1, <1>3, <1>7 DEF Depth, n
  <2> DEFINE d == Depth
             k == PoolDepth(0)
             m == PoolDepth(1)
  <2>0. /\ d \in Nat /\ k \in Nat /\ m \in Nat /\ a = d % 2
        /\ k = (d + 1) \div 2 /\ m = d \div 2 /\ d > 0
    BY <2>1, <1>0, <1>1, <1>2, NewestNotes DEF Alternate
  <2>2. CASE a = 0 /\ b = 1
    <3>1. active' = 1 /\ Depth' = d - 1 /\ PoolDepth(0)' = k /\ PoolDepth(1)' = m - 1
      BY <2>2, <1>5, <1>8, <1>9 DEF n
    <3> HIDE DEF d, k, m
    <3> QED BY <2>0, <2>2, <3>1, Halves DEF Alternate
  <2>3. CASE a = 1 /\ b = 0
    <3>1. active' = 0 /\ Depth' = d - 1 /\ PoolDepth(0)' = k - 1 /\ PoolDepth(1)' = m
      BY <2>3, <1>5, <1>8, <1>9 DEF n
    <3> HIDE DEF d, k, m
    <3> QED BY <2>0, <2>3, <3>1, Halves DEF Alternate
  <2> QED BY <1>7, <2>2, <2>3
<1>12. /\ note <= subpool[b].offset
       /\ \A i \in 1..n : st[i] <= note
       /\ \A o \in objects : o.pool = b =>
            /\ o.until < Depth => o.from + o.size <= note
            /\ o.until >= Depth => o.from >= note
  <2>1. n \in 1..PoolDepth(b)
    BY <1>3 DEF n
  <2> QED BY <2>1, <1>1, <1>2 DEF Noted, note, st
(* The other pool's objects all outlive the call. *)
<1>13. \A o \in objects : o.pool = a => o.until < Depth
  <2> TAKE o \in objects
  <2>1. o.until \in Int /\ o.until <= Depth /\ (o.until + o.pool) % 2 = 1
    BY <1>1 DEF Owned
  <2>2. a = Depth % 2
    BY <1>0, <1>1 DEF Alternate
  <2> DEFINE u == o.until
             d == Depth
  <2>3. o.pool = a => u # d
    <3> SUFFICES ASSUME o.pool = a, u = d PROVE FALSE
      OBVIOUS
    <3>1. (d + a) % 2 = 1 /\ a = d % 2 /\ d \in Nat
      BY <2>1, <2>2, <1>2
    <3> HIDE DEF d, u
    <3>2. (d + (d % 2)) % 2 = 0
      BY <3>1
    <3> QED BY <3>1, <3>2
  <2> QED BY <2>1, <2>3, <1>2
<1>14. Owned'
  <2> SUFFICES ASSUME NEW o \in objects, o.until < Depth
               PROVE  /\ o.pool \in 0..1 /\ o.from \in Nat /\ o.size \in Nat /\ o.until \in Int
                      /\ o.until <= Depth - 1
                      /\ (o.until + o.pool) % 2 = 1
                      /\ o.from + o.size <= subpool'[o.pool].offset
    BY <1>5, <1>9 DEF Owned
  <2>1. /\ o.pool \in 0..1 /\ o.from \in Nat /\ o.size \in Nat /\ o.until \in Int
        /\ (o.until + o.pool) % 2 = 1
        /\ o.from + o.size <= subpool[o.pool].offset
    BY <1>1 DEF Owned
  <2>2. o.until <= Depth - 1
    BY <2>1, <1>2
  <2>3. CASE o.pool = b
    BY <2>1, <2>2, <2>3, <1>6, <1>12
  <2>4. CASE o.pool = a
    BY <2>1, <2>2, <2>4, <1>6
  <2> QED BY <2>1, <2>3, <2>4, <1>7
<1>15. Noted'
  <2> SUFFICES ASSUME NEW p \in 0..1, NEW j \in 1..PoolDepth(p)'
               PROVE  /\ subpool'[p].stack[j] <= subpool'[p].offset
                      /\ \A i \in 1..j : subpool'[p].stack[i] <= subpool'[p].stack[j]
                      /\ \A o \in objects : o.pool = p =>
                           /\ o.until < Context(p, j) => o.from + o.size <= subpool'[p].stack[j]
                           /\ o.until >= Context(p, j) => o.from >= subpool'[p].stack[j]
    BY <1>5 DEF Noted, Context
  <2>1. CASE p = a
    BY <2>1, <1>1, <1>6, <1>8 DEF Noted
  <2>2. CASE p = b
    <3>1. j \in 1..n - 1 /\ j \in 1..n
      BY <2>2, <1>3, <1>8
    <3>2. \A i \in 1..j : i \in 1..n - 1
      BY <3>1, <1>3
    <3>3. /\ \A i \in 1..j : subpool'[p].stack[i] = st[i]
          /\ subpool'[p].stack[j] = st[j] /\ subpool'[p].offset = note
      <4>1. subpool'[p].stack = cut /\ subpool'[p].offset = note
        BY <2>2, <1>6
      <4> QED BY <4>1, <3>1, <3>2, <1>4
    <3>4. st[j] <= note
      BY <3>1, <1>12
    <3>5. /\ \A i \in 1..j : st[i] <= st[j]
          /\ \A o \in objects : o.pool = p =>
               /\ o.until < Context(p, j) => o.from + o.size <= st[j]
               /\ o.until >= Context(p, j) => o.from >= st[j]
      BY <2>2, <3>1, <1>1 DEF Noted, n, st
    <3> QED BY <3>3, <3>4, <3>5
  <2> QED BY <2>1, <2>2, <1>7
<1>16. Covered'
  <2> SUFFICES ASSUME NEW p \in 0..1, NEW byte \in Nat
               PROVE  /\ byte < subpool'[p].offset => \E o \in objects' : OwnsByte(o, p, byte)
                      /\ \A o, q \in objects' : OwnsByte(o, p, byte) /\ OwnsByte(q, p, byte) => o = q
    BY DEF Covered, OwnsByte
  <2>1. /\ byte < subpool[p].offset => \E o \in objects : OwnsByte(o, p, byte)
        /\ \A o, q \in objects : OwnsByte(o, p, byte) /\ OwnsByte(q, p, byte) => o = q
    BY <1>1 DEF Covered
  <2>2. \A o, q \in objects' : OwnsByte(o, p, byte) /\ OwnsByte(q, p, byte) => o = q
    BY <2>1, <1>5
  <2>3. ASSUME byte < subpool'[p].offset
        PROVE  \E o \in objects' : OwnsByte(o, p, byte)
    <3>1. CASE p = a
      <4>1. PICK o \in objects : OwnsByte(o, p, byte)
        BY <3>1, <2>1, <2>3, <1>6
      <4>2. o.until < Depth
        BY <3>1, <4>1, <1>13 DEF OwnsByte
      <4> QED BY <4>1, <4>2, <1>5
    <3>2. CASE p = b
      <4>1. byte < note /\ subpool[b].offset \in Nat
        BY <3>2, <2>3, <1>1, <1>6 DEF DoublePoolTypeOK
      <4>2. byte < subpool[p].offset
        BY <4>1, <3>2, <1>4, <1>12
      <4>3. PICK o \in objects : OwnsByte(o, p, byte)
        BY <4>2, <2>1
      <4>4. o.until < Depth
        <5> SUFFICES ASSUME ~(o.until < Depth) PROVE FALSE
          OBVIOUS
        <5>1. o.until \in Int /\ o.from \in Nat
          BY <1>1 DEF Owned
        <5>2. o.until >= Depth
          BY <5>1, <1>2
        <5>3. o.from >= note /\ o.from <= byte
          BY <5>2, <3>2, <4>3, <1>12 DEF OwnsByte
        <5> QED BY <5>1, <5>3, <4>1, <1>4
      <4> QED BY <4>3, <4>4, <1>5
    <3> QED BY <3>1, <3>2, <1>7
  <2> QED BY <2>2, <2>3
<1> QED BY <1>10, <1>11, <1>14, <1>15, <1>16 DEF PoolsSound

(* Every step keeps the invariant. *)
LEMMA PoolsInvNext == PoolsInv /\ [DoublePoolNext]_dp_vars => PoolsInv'
<1> SUFFICES ASSUME PoolsInv, [DoublePoolNext]_dp_vars, ~overfull'
             PROVE  PoolsSound'
  BY DEF PoolsInv
<1>1. CASE UNCHANGED dp_vars
  BY <1>1 DEF dp_vars, PoolsInv, PoolsSound, DoublePoolTypeOK, Alternate, Owned, Noted, Covered,
              Depth, PoolDepth
<1>2. CASE DoublePoolNext
  <2>1. ~overfull /\ PoolsSound
    BY <1>2 DEF DoublePoolNext, PoolsInv
  <2>2. /\ Depth \in Nat /\ active \in 0..1 /\ temp \in 0..1
        /\ Context(active, PoolDepth(active)) = Depth - 1
        /\ Context(temp, PoolDepth(temp)) = Depth
    BY <2>1, NewestNotes DEF PoolsSound, DoublePoolTypeOK
  <2>3. (Depth - 1 + active) % 2 = 1 /\ (Depth + temp) % 2 = 1
    <3> DEFINE d == Depth
               p == active
    <3>1. d \in Nat /\ p = d % 2 /\ temp = 1 - p /\ p \in 0..1
      BY <2>1, <2>2 DEF PoolsSound, Alternate, temp, Other
    <3> HIDE DEF d, p
    <3>2. (d - 1 + p) % 2 = 1 /\ (d + (1 - p)) % 2 = 1
      BY <3>1
    <3> QED BY <3>1, <3>2 DEF d, p
  <2>4. ASSUME NEW size \in Sizes, Alloc(size)
        PROVE  PoolsSound'
    <3>1. size \in Nat /\ Depth - 1 \in Int /\ Depth - 1 <= Depth
      BY <2>2, DoublePoolAssumption
    <3>2. AllocFrom(active, size, Depth - 1)
      BY <2>4 DEF Alloc
    <3> QED BY <2>1, <2>2, <2>3, <3>1, <3>2, AllocInv
  <2>5. ASSUME NEW size \in Sizes, TempAlloc(size)
        PROVE  PoolsSound'
    <3>1. size \in Nat /\ Depth \in Int /\ Depth <= Depth
      BY <2>2, DoublePoolAssumption
    <3>2. AllocFrom(temp, size, Depth)
      BY <2>5 DEF TempAlloc
    <3> QED BY <2>1, <2>2, <2>3, <3>1, <3>2, AllocInv
  <2> QED BY <1>2, <2>1, <2>4, <2>5, EnterInv, LeaveInv DEF DoublePoolNext
<1> QED BY <1>1, <1>2

(* Initially both pools are empty. *)
LEMMA PoolsInvInit == DoublePoolInit => PoolsInv
<1> SUFFICES ASSUME DoublePoolInit PROVE PoolsSound
  BY DEF PoolsInv
<1>1. /\ subpool = [p \in 0..1 |-> [offset |-> 0, stack |-> <<>>]]
      /\ active = 0 /\ objects = {}
  BY DEF DoublePoolInit, NewPool
<1>2. \A p \in 0..1 : PoolDepth(p) = 0 /\ subpool[p].offset = 0
  BY <1>1 DEF PoolDepth
<1>3. Depth = 0
  BY <1>2 DEF Depth
<1>4. DoublePoolTypeOK
  BY <1>1 DEF DoublePoolTypeOK
<1>5. Alternate
  BY <1>1, <1>2, <1>3 DEF Alternate
<1>6. Owned /\ Noted /\ Covered
  BY <1>1, <1>2 DEF Owned, Noted, Covered
<1> QED BY <1>4, <1>5, <1>6 DEF PoolsSound

(* However calls nest, every byte that a pool has given belongs to exactly *)
(* one object that is to live on, until an enter() finds its stack full:   *)
(* what a function returns outlives its own context, and nothing leaks.    *)
THEOREM PoolsObjectsLive == DoublePoolInit /\ [][DoublePoolNext]_dp_vars => []ObjectsLive
<1>1. PoolsInv => ObjectsLive
  <2> SUFFICES ASSUME PoolsSound, NEW p \in 0..1, NEW byte \in 0..PoolBytes - 1
               PROVE  Cardinality({o \in objects : o.pool = p /\ byte \in o.from .. o.from + o.size - 1})
                        = (IF byte < subpool[p].offset THEN 1 ELSE 0)
    BY DEF PoolsInv, ObjectsLive
  <2> DEFINE S == {o \in objects : o.pool = p /\ byte \in o.from .. o.from + o.size - 1}
             off == subpool[p].offset
  <2>1. byte \in Nat /\ off \in Nat
    BY DoublePoolAssumption DEF PoolsSound, DoublePoolTypeOK
  <2>2. /\ byte < off => \E o \in objects : OwnsByte(o, p, byte)
        /\ \A o, q \in objects : OwnsByte(o, p, byte) /\ OwnsByte(q, p, byte) => o = q
    BY <2>1 DEF PoolsSound, Covered
  <2>3. \A o \in objects : o \in S <=> OwnsByte(o, p, byte)
    <3> TAKE o \in objects
    <3>1. o.from \in Nat /\ o.size \in Nat
      BY DEF PoolsSound, Owned
    <3> QED BY <2>1, <3>1 DEF OwnsByte
  <2>4. \A o \in S : byte < off
    <3> TAKE o \in S
    <3>1. o \in objects /\ o.pool = p /\ byte <= o.from + o.size - 1
      OBVIOUS
    <3>2. o.from \in Nat /\ o.size \in Nat /\ o.from + o.size <= off
      BY <3>1 DEF PoolsSound, Owned
    <3> HIDE DEF off
    <3> QED BY <2>1, <3>1, <3>2
  <2>5. S \subseteq objects
    OBVIOUS
  <2> HIDE DEF S, off
  <2>6. CASE byte < off
    <3>1. PICK o \in objects : OwnsByte(o, p, byte)
      BY <2>2, <2>6
    <3>2. S = {o}
      BY <2>2, <2>3, <2>5, <3>1
    <3>3. Cardinality(S) = 1
      BY <3>2, FS_Singleton
    <3> QED BY <2>6, <3>3 DEF S, off
  <2>7. CASE ~(byte < off)
    <3>1. S = {}
      BY <2>4, <2>7
    <3>2. Cardinality(S) = 0
      BY <3>1, FS_EmptySet
    <3> QED BY <2>7, <3>2 DEF S, off
  <2> QED BY <2>6, <2>7
<1> QED BY <1>1, PoolsInvInit, PoolsInvNext, PTL

-----------------------------------------------------------------------------
(* The buffers that the threads share.  A number has one owner while       *)
(* anybody holds a pointer to it (OneOwner); so what is put into its slot  *)
(* is the bytes of the stream that the slot names, if it names one.        *)

Phases == {"loop", "event", "read", "put", "modify", "write", "free", "down", "reset"}
Masks == SUBSET {"in", "out", "hup"}
AnyBytes == Seq(Streams \X Nat)

ThreadType ==
  [at : Phases, fd : Descriptors \union {0}, obj : Streams \union {NoStream},
   events : Masks, target : Streams \union {NoStream}, unused : Nat]

SharedTypeOK ==
  /\ slot \in [Descriptors ->
       [obj : Streams \union {NoStream}, bytes : AnyBytes, offset : 0..BlockBytes - 1]]
  /\ free_blocks \in Nat
  /\ mask \in [Descriptors -> Masks]
  /\ stream \in [Streams -> [state : {"none", "listed", "left"}, fd : Descriptors \union {0}]]
  /\ worker \in [SharedThread -> ThreadType]
  /\ taken \in [Streams -> Nat] /\ got \in [Streams -> AnyBytes]
  /\ inherited \subseteq Streams

(* The table names the streams that are listed, each at its descriptor. *)
SlotsMatch ==
  /\ \A o \in Streams : Listed(o) => slot[stream[o].fd].obj = o
  /\ \A fd \in Descriptors : slot[fd].obj # NoStream =>
       Listed(slot[fd].obj) /\ stream[slot[fd].obj].fd = fd
  /\ \A o \in Streams :
       IF stream[o].state = "none" THEN taken[o] = 0 /\ got[o] = <<>>
       ELSE stream[o].fd \in Descriptors
  /\ \A fd \in Descriptors : slot[fd].bytes = <<>> => slot[fd].offset = 0

OneOwner ==
  \A o, p \in Streams : o # p /\ ~Closed(o) /\ ~Closed(p) => stream[o].fd # stream[p].fd

(* What a thread holds is what its place in the code needs. *)
Handles(w) ==
  /\ worker[w].at # "loop" => worker[w].fd \in Descriptors
  /\ IF worker[w].at \in {"loop", "event"} THEN worker[w].obj = NoStream
     ELSE /\ worker[w].obj # NoStream
          /\ stream[worker[w].obj].state # "none"
          /\ stream[worker[w].obj].fd = worker[w].fd
  /\ IF worker[w].at \in {"put", "modify"}
     THEN worker[w].target # NoStream /\ stream[worker[w].target].state # "none"
     ELSE worker[w].target = NoStream
  /\ worker[w].at # "free" => worker[w].unused = 0

(* The bytes of o that follow its first k. *)
InARow(bytes, o, k) == \A i \in 1..Len(bytes) : bytes[i] = <<o, k + i>>

(* What the peer has got of a stream, and what waits for it if it is there. *)
InOrder(o) ==
  LET waiting == slot[stream[o].fd].bytes
  IN  /\ Len(got[o]) <= taken[o] /\ InARow(got[o], o, 0)
      /\ Listed(o) => /\ Len(got[o]) + Len(waiting) = taken[o]
                      /\ InARow(waiting, o, Len(got[o]))

(* The blocks that each d of D has h[d] of, counted. *)
Pairs(D, h) == UNION {{d} \X (1..h[d]) : d \in D}
Holding == Pairs(Descriptors, [fd \in Descriptors |-> Held(slot[fd])])
Leaving == Pairs(SharedThread, [w \in SharedThread |-> worker[w].unused])

PoolCounted ==
  /\ IsFiniteSet(Holding) /\ IsFiniteSet(Leaving)
  /\ free_blocks + Cardinality(Holding) + Cardinality(Leaving) = BufferSize

SharedInv ==
  /\ SharedTypeOK /\ SlotsMatch /\ OneOwner
  /\ \A w \in SharedThread : Handles(w)
  /\ \A o \in Streams \ inherited : InOrder(o)
  /\ NoneStuck /\ PoolCounted

(* A descriptor that holds more blocks, or fewer, changes the sum by as many. *)
LEMMA PairsChange ==
  ASSUME NEW D, NEW h, h \in [D -> Nat], NEW g, g \in [D -> Nat], NEW d \in D,
         \A e \in D : e # d => g[e] = h[e],
         IsFiniteSet(Pairs(D, h))
  PROVE  /\ IsFiniteSet(Pairs(D, g))
         /\ Cardinality(Pairs(D, g)) = Cardinality(Pairs(D, h)) + g[d] - h[d]
<1> DEFINE P == Pairs(D, h)
           Q == {d} \X (1..h[d])
           N == {d} \X (1..g[d])
           R == P \ Q
<1>1. IsFiniteSet(Q) /\ Cardinality(Q) = h[d] /\ IsFiniteSet(N) /\ Cardinality(N) = g[d]
  <2>1. ASSUME NEW n \in Nat PROVE IsFiniteSet({d} \X (1..n)) /\ Cardinality({d} \X (1..n)) = n
    <3>1. IsFiniteSet({d}) /\ Cardinality({d}) = 1
      BY FS_Singleton
    <3>2. IsFiniteSet(1..n) /\ Cardinality(1..n) = n
      BY IntervalCount
    <3>3. IsFiniteSet({d} \X (1..n)) /\ Cardinality({d} \X (1..n)) = Cardinality({d}) * Cardinality(1..n)
      BY <3>1, <3>2, FS_Product, Zenon
    <3> QED BY <3>1, <3>2, <3>3
  <2>2. h[d] \in Nat /\ g[d] \in Nat
    OBVIOUS
  <2> QED BY <2>1, <2>2
<1>2. P \intersect Q = Q
  BY DEF Pairs
<1>3. Pairs(D, g) = R \union N /\ R \intersect N = {}
  <2>1. ASSUME NEW x PROVE x \in R <=> \E e \in D : e # d /\ x \in {e} \X (1..h[e])
    BY DEF Pairs
  <2>2. ASSUME NEW x PROVE x \in Pairs(D, g) <=> x \in N \/ \E e \in D : e # d /\ x \in {e} \X (1..h[e])
    BY DEF Pairs
  <2>3. ASSUME NEW x \in N PROVE x \notin R
    <3>1. ASSUME NEW e \in D, e # d PROVE x \notin {e} \X (1..h[e])
      BY <3>1
    <3> QED BY <2>1, <3>1
  <2> HIDE DEF R, N
  <2> QED BY <2>1, <2>2, <2>3
<1>4. IsFiniteSet(P)
  OBVIOUS
<1> HIDE DEF P, Q, N
<1>5. IsFiniteSet(R) /\ Cardinality(R) = Cardinality(P) - h[d]
  <2>1. IsFiniteSet(R) /\ Cardinality(R) = Cardinality(P) - Cardinality(P \intersect Q)
    BY <1>4, FS_Difference, Zenon
  <2> QED BY <1>1, <1>2, <2>1
<1> HIDE DEF R
<1>6. Cardinality(R) \in Nat /\ Cardinality(P) \in Nat
  BY <1>4, <1>5, FS_CardinalityType
<1>7. IsFiniteSet(R \union N) /\ Cardinality(R \union N) = Cardinality(R) + Cardinality(N) - 0
  <2>1. /\ IsFiniteSet(R \union N)
        /\ Cardinality(R \union N) = Cardinality(R) + Cardinality(N) - Cardinality(R \intersect N)
    BY <1>1, <1>5, FS_Union, Zenon
  <2> QED BY <1>3, <2>1, FS_EmptySet
<1>8. h[d] \in Nat /\ g[d] \in Nat
  OBVIOUS
<1>9. Cardinality(R \union N) = Cardinality(P) + g[d] - h[d]
  BY <1>1, <1>5, <1>6, <1>7, <1>8
<1> QED BY <1>3, <1>7, <1>9 DEF P

(* Descriptors that hold nothing sum up to nothing. *)
LEMMA NoPairs ==
  ASSUME NEW D, NEW h, \A d \in D : h[d] = 0
  PROVE  IsFiniteSet(Pairs(D, h)) /\ Cardinality(Pairs(D, h)) = 0
<1>1. Pairs(D, h) = {}
  BY DEF Pairs
<1> QED BY <1>1, FS_EmptySet

(* Rounding to the blocks that put() takes. *)
LEMMA BlocksBounds ==
  ASSUME NEW n \in Nat
  PROVE  /\ Blocks(n) \in Nat
         /\ n <= Blocks(n) * BlockBytes
         /\ Blocks(n) * BlockBytes < n + BlockBytes
BY SharedAssumption, CeilBounds DEF Blocks

(* Only one number of blocks rounds up so. *)
LEMMA BlocksUnique ==
  ASSUME NEW n \in Nat, NEW k \in Int, n <= k * BlockBytes, k * BlockBytes < n + BlockBytes
  PROVE  Blocks(n) = k
BY SharedAssumption, CeilUnique DEF Blocks

(* A place in a row of blocks is a block and a place within it. *)
LEMMA OffsetBounds ==
  ASSUME NEW n \in Nat
  PROVE  /\ n \div BlockBytes \in Nat
         /\ n % BlockBytes \in 0..BlockBytes - 1
         /\ n = BlockBytes * (n \div BlockBytes) + (n % BlockBytes)
BY SharedAssumption, DivMod

(* What is left of the last block that n bytes take. *)
LEMMA RestOfBlock ==
  ASSUME NEW n \in Nat
  PROVE  (BlockBytes - (n % BlockBytes)) % BlockBytes = Blocks(n) * BlockBytes - n
<1> DEFINE B == BlockBytes
           q == n \div B
           m == n % B
<1>1. q \in Nat /\ m \in 0..B - 1 /\ n = B * q + m /\ B \in Nat \ {0}
  BY SharedAssumption, OffsetBounds
<1>2. \A x \in 0..B - 1 : x % B = x
  BY <1>1
<1>3. B % B = 0
  BY <1>1
<1> HIDE DEF q, m
<1>4. CASE m = 0
  <2>1. n <= q * B /\ q * B < n + B /\ q * B = n
    BY <1>1, <1>4
  <2>2. Blocks(n) = q
    BY <1>1, <2>1, BlocksUnique
  <2>3. (B - m) % B = 0
    <3>1. B - m = B
      BY <1>1, <1>4
    <3> QED BY <3>1, <1>3
  <2>4. Blocks(n) * B - n = 0
    BY <1>1, <2>1, <2>2
  <2> QED BY <2>3, <2>4 DEF m
<1>5. CASE m # 0
  <2>1. (q + 1) * B = n - m + B
    BY <1>1
  <2>2. n <= (q + 1) * B /\ (q + 1) * B < n + B /\ q + 1 \in Int
    BY <1>1, <1>5, <2>1
  <2>3. Blocks(n) = q + 1
    BY <2>2, BlocksUnique
  <2>4. (B - m) % B = B - m
    <3>1. B - m \in 0..B - 1
      BY <1>1, <1>5
    <3> QED BY <3>1, <1>2
  <2> QED BY <1>1, <2>1, <2>3, <2>4 DEF m
<1> QED BY <1>4, <1>5

(* What n bytes more take beyond the blocks of e bytes. *)
LEMMA BlocksAdd ==
  ASSUME NEW e \in Nat, NEW n \in Nat, NEW rest, rest = Blocks(e) * BlockBytes - e
  PROVE  Blocks(e + n) = Blocks(e) + (IF n <= rest THEN 0 ELSE Blocks(n - rest))
<1> DEFINE k == Blocks(e)
<1>1. k \in Nat /\ e <= k * BlockBytes /\ k * BlockBytes < e + BlockBytes
  BY BlocksBounds
<1>2. BlockBytes \in Nat \ {0}
  BY SharedAssumption
<1>3. rest = k * BlockBytes - e
  OBVIOUS
<1> HIDE DEF k
<1>4. CASE n <= rest
  <2>1. e + n \in Nat /\ e + n <= k * BlockBytes /\ k * BlockBytes < (e + n) + BlockBytes
    BY <1>1, <1>2, <1>3, <1>4
  <2>2. Blocks(e + n) = k
    BY <1>1, <2>1, BlocksUnique
  <2> QED BY <1>1, <1>4, <2>2 DEF k
<1>5. CASE ~(n <= rest)
  <2> DEFINE j == Blocks(n - rest)
  <2>1. n - rest \in Nat
    BY <1>1, <1>2, <1>3, <1>5
  <2>2. j \in Nat /\ n - rest <= j * BlockBytes /\ j * BlockBytes < (n - rest) + BlockBytes
    BY <2>1, BlocksBounds
  <2> HIDE DEF j
  <2>3. (k + j) * BlockBytes = k * BlockBytes + j * BlockBytes
    BY <1>1, <1>2, <2>2
  <2>4. /\ e + n \in Nat /\ k + j \in Int
        /\ e + n <= (k + j) * BlockBytes /\ (k + j) * BlockBytes < (e + n) + BlockBytes
    BY <1>1, <1>2, <1>3, <2>2, <2>3
  <2>5. Blocks(e + n) = k + j
    BY <2>4, BlocksUnique
  <2> QED BY <1>5, <2>5 DEF j, k
<1> QED BY <1>4, <1>5

(* What n bytes fewer leave, when the blocks they filled are given back.   *)
LEMMA BlocksDrop ==
  ASSUME NEW e \in Nat, NEW q \in Nat, e - BlockBytes * q \in Nat
  PROVE  Blocks(e - BlockBytes * q) = Blocks(e) - q
<1> DEFINE k == Blocks(e)
           d == e - BlockBytes * q
<1>1. k \in Nat /\ e <= k * BlockBytes /\ k * BlockBytes < e + BlockBytes
  BY BlocksBounds
<1>2. BlockBytes \in Nat \ {0} /\ d \in Nat
  BY SharedAssumption
<1> HIDE DEF k
<1>3. (k - q) * BlockBytes = k * BlockBytes - BlockBytes * q
  BY <1>1, <1>2
<1>4. BlockBytes * q \in Nat
  BY <1>2
<1>5. d <= (k - q) * BlockBytes /\ (k - q) * BlockBytes < d + BlockBytes /\ k - q \in Int
  BY <1>1, <1>2, <1>3, <1>4
<1> HIDE DEF d
<1>6. Blocks(d) = k - q
  BY <1>2, <1>5, BlocksUnique
<1> QED BY <1>6 DEF d, k

(* Bytes have a length, and none have length 0. *)
LEMMA BytesLen ==
  ASSUME NEW b \in AnyBytes
  PROVE  Len(b) \in Nat /\ (b = <<>> <=> Len(b) = 0)
BY DEF AnyBytes

(* A stream holds a number of blocks. *)
LEMMA SharedHeldType ==
  ASSUME NEW s, s.bytes \in AnyBytes, s.offset \in 0..BlockBytes - 1
  PROVE  Held(s) \in Nat
<1>1. s.offset \in Nat /\ Len(s.bytes) \in Nat
  BY SharedAssumption, BytesLen
<1>2. s.offset + Len(s.bytes) \in Nat
  BY <1>1
<1> QED BY <1>2, BlocksBounds DEF Held

(* put(): the rest of the last block and NeedBlocks more hold what comes. *)
LEMMA NeedBlocksHold ==
  ASSUME NEW s, s.bytes \in AnyBytes, s.offset \in 0..BlockBytes - 1,
         s.bytes = <<>> => s.offset = 0,
         NEW n \in Nat \ {0}, NEW t, t.bytes \in AnyBytes, Len(t.bytes) = Len(s.bytes) + n,
         t.offset = s.offset
  PROVE  NeedBlocks(s, n) \in Nat /\ Held(t) = Held(s) + NeedBlocks(s, n)
<1> DEFINE e == s.offset + Len(s.bytes)
           rest == (BlockBytes - (e % BlockBytes)) % BlockBytes
<1>0. s.offset \in Nat /\ Len(s.bytes) \in Nat
  BY SharedAssumption, BytesLen
<1>1. s.offset \in Nat /\ Len(s.bytes) \in Nat /\ e \in Nat
  BY <1>0
<1>2. Held(t) = Blocks(e + n)
  <2>1. Len(t.bytes) \in Nat /\ Len(t.bytes) # 0
    BY <1>1
  <2>2. t.bytes # <<>>
    BY <2>1
  <2>3. t.offset + Len(t.bytes) = e + n
    BY <1>1
  <2> QED BY <2>2, <2>3 DEF Held
<1>3. Blocks(n) \in Nat
  BY BlocksBounds
<1>4. CASE s.bytes = <<>>
  <2>1. Held(s) = 0 /\ NeedBlocks(s, n) = Blocks(n)
    BY <1>4 DEF Held, NeedBlocks
  <2>2. e = 0
    BY <1>4
  <2>3. e + n = n
    BY <2>2
  <2> QED BY <1>2, <1>3, <2>1, <2>3
<1>5. CASE s.bytes # <<>>
  <2>1. Held(s) = Blocks(e) /\ NeedBlocks(s, n) = IF n <= rest THEN 0 ELSE Blocks(n - rest)
    BY <1>5 DEF Held, NeedBlocks
  <2> HIDE DEF e
  <2>2. rest = Blocks(e) * BlockBytes - e
    BY <1>1, RestOfBlock
  <2>3. Blocks(e) \in Nat /\ e <= Blocks(e) * BlockBytes /\ BlockBytes \in Nat
    BY <1>1, BlocksBounds, SharedAssumption
  <2> HIDE DEF rest
  <2>4. Blocks(e + n) = Blocks(e) + (IF n <= rest THEN 0 ELSE Blocks(n - rest))
    BY <1>1, <2>2, BlocksAdd, ZenonT(60)
  <2>5. rest \in Nat
    <3> DEFINE p == Blocks(e) * BlockBytes
    <3>1. p \in Nat
      BY <2>3
    <3>2. e <= p /\ rest = p - e /\ e \in Nat
      BY <1>1, <2>2, <2>3
    <3> HIDE DEF p
    <3> QED BY <3>1, <3>2
  <2>6. (IF n <= rest THEN 0 ELSE Blocks(n - rest)) \in Nat
    <3>1. CASE n <= rest
      BY <3>1
    <3>2. CASE ~(n <= rest)
      <4>1. n - rest \in Nat
        BY <2>5, <3>2
      <4> QED BY <3>2, <4>1, BlocksBounds
    <3> QED BY <3>1, <3>2
  <2> QED BY <1>2, <2>1, <2>4, <2>6
<1> QED BY <1>4, <1>5

(* push(): what is left takes no more blocks than there were. *)
LEMMA BlocksLeft ==
  ASSUME NEW off \in 0..BlockBytes - 1, NEW len \in Nat, NEW n \in 0..len
  PROVE  /\ off + len \in Nat
         /\ (off + n) % BlockBytes \in 0..BlockBytes - 1
         /\ ((off + n) % BlockBytes) + (len - n) \in Nat
         /\ Blocks(off + len) - Blocks(((off + n) % BlockBytes) + (len - n)) \in Nat
<1> DEFINE e == off + len
           q == (off + n) \div BlockBytes
           m == (off + n) % BlockBytes
           d == e - BlockBytes * q
<1>1. /\ off \in Nat /\ n \in Nat /\ n <= len /\ off + n \in Nat /\ e \in Nat
      /\ BlockBytes \in Nat \ {0} /\ e = off + len
  BY SharedAssumption
<1>2. q \in Nat /\ m \in 0..BlockBytes - 1 /\ off + n = BlockBytes * q + m
  BY <1>1, OffsetBounds
<1> HIDE DEF e, q, m
<1>3. m + (len - n) = d /\ d \in Nat
  BY <1>1, <1>2
<1>4. Blocks(d) = Blocks(e) - q
  BY <1>1, <1>2, <1>3, BlocksDrop
<1>5. Blocks(e) \in Nat
  BY <1>1, BlocksBounds
<1> HIDE DEF d
<1>6. Blocks(e) - Blocks(d) = q
  BY <1>2, <1>4, <1>5
<1> QED BY <1>1, <1>2, <1>3, <1>6 DEF e, m

(* What is left after a send takes no more blocks than there were. *)
LEMMA RestHolds ==
  ASSUME NEW s, s.bytes \in AnyBytes, s.offset \in 0..BlockBytes - 1, NEW n \in 0..Len(s.bytes),
         NEW t, t.bytes = SubSeq(s.bytes, n + 1, Len(s.bytes)),
         t.offset = IF n = Len(s.bytes) THEN 0 ELSE (s.offset + n) % BlockBytes
  PROVE  /\ t.bytes \in AnyBytes /\ Len(t.bytes) = Len(s.bytes) - n
         /\ t.offset \in 0..BlockBytes - 1 /\ (t.bytes = <<>> => t.offset = 0)
         /\ Held(s) - Held(t) \in Nat
<1> DEFINE len == Len(s.bytes)
<1>1. len \in Nat /\ (s.bytes = <<>> <=> len = 0)
  BY BytesLen
<1>2. t.bytes \in AnyBytes /\ Len(t.bytes) = len - n
  BY DEF AnyBytes
<1>3. t.bytes = <<>> <=> len - n = 0
  BY <1>2, BytesLen
<1>4. n \in 0..len
  OBVIOUS
<1> HIDE DEF len
<1>5. t.bytes = <<>> <=> n = len
  BY <1>1, <1>3, <1>4
<1>6. Held(s) \in Nat
  BY SharedHeldType
<1>7. CASE n = len
  <2>1. t.offset = 0 /\ Held(t) = 0
    BY <1>5, <1>7 DEF len, Held
  <2>2. 0 \in 0..BlockBytes - 1
    BY SharedAssumption
  <2> QED BY <1>2, <1>6, <2>1, <2>2 DEF len
<1>8. CASE n # len
  <2>1. t.offset = (s.offset + n) % BlockBytes
    BY <1>8 DEF len
  <2>2. /\ t.offset \in 0..BlockBytes - 1
        /\ Blocks(s.offset + len) - Blocks(t.offset + (len - n)) \in Nat
    BY <1>1, <1>4, <2>1, BlocksLeft
  <2>3. s.bytes # <<>> /\ t.bytes # <<>>
    BY <1>1, <1>4, <1>5, <1>8
  <2>4. Held(s) = Blocks(s.offset + len) /\ Held(t) = Blocks(t.offset + (len - n))
    BY <1>2, <2>3 DEF Held, len
  <2> QED BY <1>2, <2>2, <2>3, <2>4 DEF len
<1> QED BY <1>7, <1>8

(* Initially no stream waits and all blocks are free. *)
LEMMA SharedInvInit == SharedInit => SharedInv
<1> SUFFICES ASSUME SharedInit PROVE SharedInv
  OBVIOUS
<1> USE DEF SharedInit
<1>1. SharedTypeOK
  BY SharedAssumption
     DEF SharedTypeOK, ThreadType, Phases, Masks, AnyBytes, Empty, Looping, NoStream
<1>2. SlotsMatch /\ OneOwner
  BY DEF SlotsMatch, OneOwner, Closed, Listed, Empty, NoStream
<1>3. \A w \in SharedThread : Handles(w)
  BY DEF Handles, Looping, NoStream
<1>4. ASSUME NEW o \in Streams PROVE InOrder(o)
  <2>1. got[o] = <<>> /\ taken[o] = 0 /\ ~Listed(o)
    BY DEF Listed
  <2> QED BY <2>1 DEF InOrder, InARow
<1>5. NoneStuck
  BY DEF NoneStuck, Empty, NoStream
<1>6. PoolCounted
  <2>1. IsFiniteSet(Holding) /\ Cardinality(Holding) = 0
    BY NoPairs DEF Holding, Held, Empty
  <2>2. IsFiniteSet(Leaving) /\ Cardinality(Leaving) = 0
    BY NoPairs DEF Leaving, Looping
  <2> QED BY <2>1, <2>2, SharedAssumption DEF PoolCounted
<1> QED BY <1>1, <1>2, <1>3, <1>4, <1>5, <1>6 DEF SharedInv

(* Where onEvent() goes on. *)
LEMMA FromPhases ==
  ASSUME NEW e
  PROVE  /\ From(e, <<Reading, Writing, Ending>>) \in {"read", "write", "down", "reset"}
         /\ From(e, <<Writing, Ending>>) \in {"write", "down", "reset"}
         /\ From(e, <<Ending>>) \in {"down", "reset"}
<1>1. ASSUME NEW order, DOMAIN order \subseteq 1..3
      PROVE  \/ From(e, order) = "reset"
             \/ \E i \in DOMAIN order : From(e, order) = order[i][2]
  <2> DEFINE due == {i \in DOMAIN order : order[i][1] \in e}
  <2>1. CASE due = {}
    BY <2>1 DEF From
  <2>2. CASE due # {}
    <3> PICK i \in due : TRUE
      BY <2>2
    <3>0. due \subseteq 1..3
      BY <1>1
    <3> HIDE DEF due
    <3>1. \E x \in due : \A y \in due : x <= y
      <4>1. CASE 1 \in due
        BY <3>0, <4>1
      <4>2. CASE 1 \notin due /\ 2 \in due
        BY <3>0, <4>2
      <4>3. CASE 1 \notin due /\ 2 \notin due
        BY <3>0, <4>3
      <4> QED BY <4>1, <4>2, <4>3
    <3>2. Min(due) \in due
      BY <3>1 DEF Min
    <3>3. From(e, order) = order[Min(due)][2]
      BY <2>2 DEF From, due
    <3>4. Min(due) \in DOMAIN order
      BY <3>2 DEF due
    <3> QED BY <3>3, <3>4
  <2> QED BY <2>1, <2>2
<1> QED BY <1>1 DEF Reading, Writing, Ending

(* A thread goes on, and everything but the masks stays as it was. *)
LEMMA StreamThreadMoves ==
  ASSUME SharedInv, NEW w \in SharedThread,
         UNCHANGED <<slot, free_blocks, stream, taken, got, inherited>>,
         mask' \in [Descriptors -> Masks],
         worker' \in [SharedThread -> ThreadType],
         \A v \in SharedThread : v # w => worker'[v] = worker[v],
         worker'[w].unused = worker[w].unused,
         Handles(w)',
         \A o \in Streams : worker'[w].obj = o \/ worker'[w].target = o => Holds(w, o) \/ Listed(o),
         NoneStuck'
  PROVE  SharedInv'
<1>1. SharedTypeOK'
  BY DEF SharedInv, SharedTypeOK
<1>2. SlotsMatch'
  BY DEF SharedInv, SlotsMatch, Listed
<1>3. OneOwner'
  <2>1. ASSUME NEW o \in Streams, ~Closed(o)' PROVE ~Closed(o)
    BY <2>1 DEF Closed, Holds, Listed
  <2> QED BY <2>1 DEF SharedInv, OneOwner
<1>4. ASSUME NEW v \in SharedThread PROVE Handles(v)'
  BY DEF SharedInv, Handles
<1>5. ASSUME NEW o \in Streams \ inherited' PROVE InOrder(o)'
  BY DEF SharedInv, InOrder, Listed
<1>6. PoolCounted'
  <2>1. Holding' = Holding
    BY DEF Holding
  <2>2. Leaving' = Leaving
    <3>1. \A v \in SharedThread : worker'[v].unused = worker[v].unused
      OBVIOUS
    <3> QED BY <3>1 DEF Leaving
  <2> QED BY <2>1, <2>2 DEF SharedInv, PoolCounted
<1> QED BY <1>1, <1>2, <1>3, <1>4, <1>5, <1>6 DEF SharedInv

(* A thread that has an event is still to arm its descriptor. *)
LEMMA StillToArm ==
  ASSUME SharedInv, NEW w \in SharedThread,
         UNCHANGED <<slot, mask>>,
         \A v \in SharedThread : v # w => worker'[v] = worker[v],
         worker[w].at \notin {"loop", "modify"},
         worker'[w].at # "loop", worker'[w].fd = worker[w].fd
  PROVE  NoneStuck'
<1> SUFFICES ASSUME NEW fd \in Descriptors, slot[fd].obj # NoStream, slot[fd].bytes # <<>>,
                    "out" \notin mask[fd]
             PROVE  \E v \in SharedThread :
                      \/ worker'[v].fd = fd /\ worker'[v].at # "loop"
                      \/ worker'[v].at = "modify" /\ worker'[v].target = slot[fd].obj
  BY DEF NoneStuck
<1>1. PICK v \in SharedThread :
        \/ worker[v].fd = fd /\ worker[v].at # "loop"
        \/ worker[v].at = "modify" /\ worker[v].target = slot[fd].obj
  BY DEF SharedInv, NoneStuck
<1> QED BY <1>1

(* The steps of a handler that only read. *)
LEMMA HandlerMoves ==
  ASSUME SharedInv, NEW w \in SharedThread, NEW at \in {"read", "write", "down", "reset"},
         UNCHANGED <<slot, free_blocks, stream, taken, got, inherited, mask>>,
         worker[w].at \in {"read", "put", "write", "down"},
         \/ Proceed(w, at) /\ worker[w].at # "put"
         \/ worker' = [worker EXCEPT ![w].at = at, ![w].target = NoStream]
  PROVE  SharedInv'
<1>1. worker \in [SharedThread -> ThreadType] /\ Handles(w)
  BY DEF SharedInv, SharedTypeOK
<1>2. /\ worker' \in [SharedThread -> ThreadType]
      /\ \A v \in SharedThread : v # w => worker'[v] = worker[v]
      /\ worker'[w].at = at /\ worker'[w].obj = worker[w].obj
      /\ worker'[w].fd = worker[w].fd /\ worker'[w].unused = worker[w].unused
      /\ worker'[w].target = NoStream
  BY <1>1 DEF Proceed, ThreadType, Phases, NoStream, Handles
<1>3. Handles(w)'
  BY <1>1, <1>2 DEF Handles
<1>4. NoneStuck'
  BY <1>2, StillToArm
<1>5. \A o \in Streams : worker'[w].obj = o \/ worker'[w].target = o => Holds(w, o) \/ Listed(o)
  BY <1>2, SharedAssumption DEF Holds, NoStream
<1>6. mask' \in [Descriptors -> Masks]
  BY DEF SharedInv, SharedTypeOK
<1> QED BY <1>2, <1>3, <1>4, <1>5, <1>6, StreamThreadMoves

(* Steps of a handler that leave the buffers alone. *)
LEMMA HandlersInv ==
  ASSUME SharedInv, NEW w \in SharedThread
  PROVE  (ReadNothing(w) \/ PutNoMore(w) \/ NoPush(w)) => SharedInv'
<1>1. /\ From(worker[w].events, <<Writing, Ending>>) \in {"read", "write", "down", "reset"}
      /\ From(worker[w].events, <<Ending>>) \in {"read", "write", "down", "reset"}
  BY FromPhases
<1>2. CASE ReadNothing(w)
  BY <1>1, <1>2, HandlerMoves DEF ReadNothing, AfterRead
<1>3. CASE PutNoMore(w)
  BY <1>1, <1>3, HandlerMoves DEF PutNoMore, AfterRead
<1>4. CASE NoPush(w)
  BY <1>1, <1>4, HandlerMoves DEF NoPush
<1> QED BY <1>2, <1>3, <1>4

(* Who takes the socket's shot is the one that is to arm it again. *)
LEMMA TakeSocketInv ==
  ASSUME SharedInv, NEW w \in SharedThread, NEW fd \in Descriptors, NEW events,
         TakeSocket(w, fd, events)
  PROVE  SharedInv'
<1>1. /\ worker \in [SharedThread -> ThreadType] /\ Handles(w) /\ worker[w].at = "loop"
      /\ mask \in [Descriptors -> Masks] /\ NoneStuck
  BY DEF SharedInv, SharedTypeOK, TakeSocket
<1>2. events \in Masks /\ mask' = [mask EXCEPT ![fd] = {}]
  BY <1>1 DEF TakeSocket, Masks
<1>3. /\ worker' \in [SharedThread -> ThreadType]
      /\ \A v \in SharedThread : v # w => worker'[v] = worker[v]
      /\ worker'[w].at = "event" /\ worker'[w].fd = fd
      /\ worker'[w].obj = worker[w].obj /\ worker'[w].target = worker[w].target
      /\ worker'[w].unused = worker[w].unused
  <2>1. worker' = [worker EXCEPT ![w].at = "event", ![w].fd = fd, ![w].events = events]
    BY DEF TakeSocket
  <2> DEFINE r == [worker[w] EXCEPT !.at = "event", !.fd = fd, !.events = events]
  <2>2. r \in ThreadType /\ r.at = "event" /\ r.fd = fd /\ r.obj = worker[w].obj
        /\ r.target = worker[w].target /\ r.unused = worker[w].unused
    <3>1. worker[w] \in ThreadType
      BY <1>1
    <3> QED BY <1>2, <3>1 DEF ThreadType, Phases
  <2>3. worker' = [worker EXCEPT ![w] = r]
    BY <1>1, <2>1
  <2> HIDE DEF r
  <2> QED BY <1>1, <2>2, <2>3
<1>4. mask' \in [Descriptors -> Masks]
  BY <1>1, <1>2 DEF Masks
<1>5. Handles(w)'
  BY <1>1, <1>3 DEF Handles
<1>6. NoneStuck'
  <2>1. slot' = slot
    BY DEF TakeSocket
  <2> SUFFICES ASSUME NEW f \in Descriptors, slot[f].obj # NoStream, slot[f].bytes # <<>>,
                      "out" \notin mask'[f]
               PROVE  \E v \in SharedThread :
                        \/ worker'[v].fd = f /\ worker'[v].at # "loop"
                        \/ worker'[v].at = "modify" /\ worker'[v].target = slot[f].obj
    BY <2>1 DEF NoneStuck
  <2>2. CASE f = fd
    BY <1>3, <2>2
  <2>3. CASE f # fd
    <3>1. "out" \notin mask[f]
      BY <1>1, <1>2, <2>3
    <3>2. PICK v \in SharedThread :
            \/ worker[v].fd = f /\ worker[v].at # "loop"
            \/ worker[v].at = "modify" /\ worker[v].target = slot[f].obj
      BY <1>1, <3>1 DEF NoneStuck
    <3> QED BY <1>1, <1>3, <3>2
  <2> QED BY <2>2, <2>3
<1>7. UNCHANGED <<slot, free_blocks, stream, taken, got, inherited>>
  BY DEF TakeSocket
<1>8. \A o \in Streams : worker'[w].obj = o \/ worker'[w].target = o => Holds(w, o) \/ Listed(o)
  BY <1>3 DEF Holds
<1> QED BY <1>3, <1>4, <1>5, <1>6, <1>7, <1>8, StreamThreadMoves

(* The event is for the stream that its slot holds now. *)
LEMMA FindStreamInv ==
  ASSUME SharedInv, NEW w \in SharedThread, FindStream(w)
  PROVE  SharedInv'
<1> DEFINE o == slot[worker[w].fd].obj
           next == From(worker[w].events, <<Reading, Writing, Ending>>)
<1>1. /\ worker \in [SharedThread -> ThreadType] /\ Handles(w) /\ worker[w].at = "event"
      /\ mask \in [Descriptors -> Masks] /\ NoneStuck /\ SlotsMatch
      /\ worker[w].fd \in Descriptors
  BY DEF SharedInv, SharedTypeOK, FindStream, Handles
<1>2. /\ worker[w].obj = NoStream /\ worker[w].target = NoStream /\ worker[w].unused = 0
      /\ o \in Streams \union {NoStream}
  BY <1>1 DEF Handles, SharedInv, SharedTypeOK
<1>3. next \in {"read", "write", "down", "reset"}
  BY FromPhases
<1>4. UNCHANGED <<slot, free_blocks, mask, stream, taken, got, inherited>>
  BY DEF FindStream
<1>5. worker' = [worker EXCEPT ![w] = IF o = NoStream THEN Looping
                                      ELSE [@ EXCEPT !.at = next, !.obj = o]]
  BY DEF FindStream
<1> HIDE DEF next
<1>6. CASE o = NoStream
  <2>1. /\ worker' \in [SharedThread -> ThreadType]
        /\ \A v \in SharedThread : v # w => worker'[v] = worker[v]
        /\ worker'[w] = Looping
    BY <1>1, <1>5, <1>6 DEF ThreadType, Phases, Masks, Looping
  <2>2. Handles(w)' /\ worker'[w].unused = worker[w].unused
    BY <1>2, <2>1 DEF Handles, Looping
  <2>3. NoneStuck'
    <3> SUFFICES ASSUME NEW f \in Descriptors, slot[f].obj # NoStream, slot[f].bytes # <<>>,
                        "out" \notin mask[f]
                 PROVE  \E v \in SharedThread :
                          \/ worker'[v].fd = f /\ worker'[v].at # "loop"
                          \/ worker'[v].at = "modify" /\ worker'[v].target = slot[f].obj
      BY <1>4 DEF NoneStuck
    <3>1. PICK v \in SharedThread :
            \/ worker[v].fd = f /\ worker[v].at # "loop"
            \/ worker[v].at = "modify" /\ worker[v].target = slot[f].obj
      BY <1>1 DEF NoneStuck
    <3>2. v # w
      BY <1>1, <1>6, <3>1
    <3> QED BY <2>1, <3>1, <3>2
  <2>4. \A p \in Streams : worker'[w].obj = p \/ worker'[w].target = p => Holds(w, p) \/ Listed(p)
    BY <1>2, <2>1 DEF Looping, Holds
  <2> QED BY <1>1, <1>4, <2>1, <2>2, <2>3, <2>4, StreamThreadMoves
<1>7. CASE o # NoStream
  <2>1. /\ worker' \in [SharedThread -> ThreadType]
        /\ \A v \in SharedThread : v # w => worker'[v] = worker[v]
        /\ worker'[w].at = next /\ worker'[w].obj = o /\ worker'[w].fd = worker[w].fd
        /\ worker'[w].target = NoStream /\ worker'[w].unused = worker[w].unused
    <3>1. next \in Phases
      BY <1>3 DEF Phases
    <3> QED BY <1>1, <1>2, <1>5, <1>7, <3>1, ZenonT(60) DEF ThreadType
  <2>2. o \in Streams /\ Listed(o) /\ stream[o].fd = worker[w].fd
    BY <1>1, <1>2, <1>7 DEF SlotsMatch
  <2>3. Handles(w)'
    BY <1>1, <1>2, <1>3, <1>4, <1>7, <2>1, <2>2 DEF Handles, Listed
  <2>4. NoneStuck'
    BY <1>1, <1>3, <1>4, <2>1, StillToArm
  <2>5. \A p \in Streams : worker'[w].obj = p \/ worker'[w].target = p => Holds(w, p) \/ Listed(p)
    BY <1>2, <2>1, <2>2 DEF Holds
  <2> QED BY <1>1, <1>4, <2>1, <2>3, <2>4, <2>5, StreamThreadMoves
<1> QED BY <1>6, <1>7

(* resetObject(): bytes that wait have the socket armed for writing. *)
LEMMA ResetArms ==
  ASSUME SharedTypeOK, NEW fd \in Descriptors
  PROVE  /\ Reset(fd, slot) \in [Descriptors -> Masks]
         /\ slot[fd].bytes # <<>> => "out" \in Reset(fd, slot)[fd]
         /\ \A f \in Descriptors : f # fd => Reset(fd, slot)[f] = mask[f]
BY DEF SharedTypeOK, Reset, Masks

(* A worker ends its event. *)
LEMMA EndEventInv ==
  ASSUME SharedInv, NEW w \in SharedThread, EndEvent(w)
  PROVE  SharedInv'
<1> DEFINE fd == worker[w].fd
           o == worker[w].obj
<1>1. /\ worker \in [SharedThread -> ThreadType] /\ Handles(w) /\ worker[w].at = "reset"
      /\ mask \in [Descriptors -> Masks] /\ NoneStuck /\ SlotsMatch /\ OneOwner /\ SharedTypeOK
  BY DEF SharedInv, SharedTypeOK, EndEvent
<1>2. /\ fd \in Descriptors /\ o \in Streams /\ stream[o].fd = fd /\ stream[o].state # "none"
      /\ worker[w].unused = 0 /\ worker[w].target = NoStream
  BY <1>1 DEF Handles, ThreadType
<1>3. UNCHANGED <<slot, free_blocks, stream, taken, got, inherited>>
  BY DEF EndEvent
<1>4. worker' = [worker EXCEPT ![w] = Looping]
      /\ mask' = IF slot[fd].obj = o THEN Reset(fd, slot) ELSE mask
  BY DEF EndEvent
<1>5. /\ worker' \in [SharedThread -> ThreadType]
      /\ \A v \in SharedThread : v # w => worker'[v] = worker[v]
      /\ worker'[w] = Looping
  BY <1>1, <1>4 DEF ThreadType, Phases, Masks, Looping
<1>6. Handles(w)' /\ worker'[w].unused = worker[w].unused
  BY <1>2, <1>5 DEF Handles, Looping
<1>7. mask' \in [Descriptors -> Masks]
  BY <1>1, <1>2, <1>4, ResetArms
<1>8. ASSUME slot[fd].obj # NoStream PROVE slot[fd].obj = o
  <2> DEFINE p == slot[fd].obj
  <2>1. p \in Streams /\ Listed(p) /\ stream[p].fd = fd
    BY <1>1, <1>2, <1>8 DEF SlotsMatch, SharedTypeOK
  <2>2. ~Closed(p) /\ ~Closed(o)
    BY <1>2, <2>1 DEF Closed, Holds, Listed
  <2> QED BY <1>1, <1>2, <2>1, <2>2 DEF OneOwner
<1>9. NoneStuck'
  <2> SUFFICES ASSUME NEW f \in Descriptors, slot[f].obj # NoStream, slot[f].bytes # <<>>,
                      "out" \notin mask'[f]
               PROVE  \E v \in SharedThread :
                        \/ worker'[v].fd = f /\ worker'[v].at # "loop"
                        \/ worker'[v].at = "modify" /\ worker'[v].target = slot[f].obj
    BY <1>3 DEF NoneStuck
  <2>1. f # fd
    BY <1>1, <1>2, <1>4, <1>8, ResetArms
  <2>2. "out" \notin mask[f]
    BY <1>1, <1>2, <1>4, <2>1, ResetArms
  <2>3. PICK v \in SharedThread :
          \/ worker[v].fd = f /\ worker[v].at # "loop"
          \/ worker[v].at = "modify" /\ worker[v].target = slot[f].obj
    BY <1>1, <2>2 DEF NoneStuck
  <2> QED BY <1>1, <1>5, <2>1, <2>3
<1>10. \A p \in Streams : worker'[w].obj = p \/ worker'[w].target = p => Holds(w, p) \/ Listed(p)
  BY <1>5, SharedAssumption DEF Looping, NoStream
<1> QED BY <1>3, <1>5, <1>6, <1>7, <1>9, <1>10, StreamThreadMoves

(* The handler turns to a stream to put output for. *)
LEMMA ReadPutsInv ==
  ASSUME SharedInv, NEW w \in SharedThread, NEW o \in Streams, ReadPuts(w, o)
  PROVE  SharedInv'
<1>1. /\ worker \in [SharedThread -> ThreadType] /\ Handles(w) /\ worker[w].at = "read"
      /\ Listed(o) /\ mask \in [Descriptors -> Masks] /\ o # NoStream
  BY SharedAssumption DEF SharedInv, SharedTypeOK, ReadPuts, NoStream
<1>2. UNCHANGED <<slot, free_blocks, mask, stream, taken, got, inherited>>
  BY DEF ReadPuts
<1>3. /\ worker' \in [SharedThread -> ThreadType]
      /\ \A v \in SharedThread : v # w => worker'[v] = worker[v]
      /\ worker'[w].at = "put" /\ worker'[w].target = o /\ worker'[w].fd = worker[w].fd
      /\ worker'[w].obj = worker[w].obj /\ worker'[w].unused = worker[w].unused
  <2>1. "put" \in Phases
    BY DEF Phases
  <2>2. worker' = [worker EXCEPT ![w].at = "put", ![w].target = o]
    BY DEF ReadPuts
  <2> QED BY <1>1, <2>1, <2>2 DEF ThreadType
<1>4. Handles(w)'
  BY <1>1, <1>2, <1>3 DEF Handles, Listed
<1>5. NoneStuck'
  BY <1>1, <1>2, <1>3, StillToArm
<1>6. \A p \in Streams : worker'[w].obj = p \/ worker'[w].target = p => Holds(w, p) \/ Listed(p)
  BY <1>1, <1>3 DEF Holds
<1> QED BY <1>1, <1>2, <1>3, <1>4, <1>5, <1>6, StreamThreadMoves

(* The worker arms the stream's descriptor again. *)
LEMMA ModifyStreamInv ==
  ASSUME SharedInv, NEW w \in SharedThread, ModifyStream(w)
  PROVE  SharedInv'
<1> DEFINE o == worker[w].target
           fd == stream[o].fd
           next == From(worker[w].events, <<Writing, Ending>>)
<1>1. /\ worker \in [SharedThread -> ThreadType] /\ Handles(w) /\ worker[w].at = "modify"
      /\ mask \in [Descriptors -> Masks] /\ NoneStuck /\ SlotsMatch /\ SharedTypeOK
  BY DEF SharedInv, SharedTypeOK, ModifyStream
<1>2. o \in Streams /\ fd \in Descriptors
  BY <1>1 DEF Handles, ThreadType, SlotsMatch
<1>3. UNCHANGED <<slot, free_blocks, stream, taken, got, inherited>>
  BY DEF ModifyStream
<1>4. /\ worker' = [worker EXCEPT ![w].at = next, ![w].target = NoStream]
      /\ mask' = IF slot[fd].obj = o THEN Reset(fd, slot) ELSE mask
  BY DEF ModifyStream, AfterRead
<1>5. next \in {"write", "down", "reset"}
  BY FromPhases
<1>6. /\ worker' \in [SharedThread -> ThreadType]
      /\ \A v \in SharedThread : v # w => worker'[v] = worker[v]
      /\ worker'[w].at = next /\ worker'[w].target = NoStream /\ worker'[w].fd = worker[w].fd
      /\ worker'[w].obj = worker[w].obj /\ worker'[w].unused = worker[w].unused
  <2>1. next \in Phases
    BY <1>5 DEF Phases
  <2> HIDE DEF next
  <2> QED BY <1>1, <1>4, <2>1, ZenonT(60) DEF ThreadType
<1> HIDE DEF next
<1>7. Handles(w)'
  BY <1>1, <1>3, <1>5, <1>6 DEF Handles
<1>8. mask' \in [Descriptors -> Masks]
  BY <1>1, <1>2, <1>4, ResetArms
<1>9. NoneStuck'
  <2> SUFFICES ASSUME NEW f \in Descriptors, slot[f].obj # NoStream, slot[f].bytes # <<>>,
                      "out" \notin mask'[f]
               PROVE  \E v \in SharedThread :
                        \/ worker'[v].fd = f /\ worker'[v].at # "loop"
                        \/ worker'[v].at = "modify" /\ worker'[v].target = slot[f].obj
    BY <1>3 DEF NoneStuck
  <2>1. slot[f].obj # o
    <3>1. ASSUME slot[f].obj = o PROVE f = fd
      BY <1>1, <1>2, <3>1 DEF SlotsMatch
    <3> QED BY <1>1, <1>2, <1>4, <3>1, ResetArms
  <2>2. "out" \notin mask[f]
    BY <1>1, <1>2, <1>4, <2>1, ResetArms
  <2>3. PICK v \in SharedThread :
          \/ worker[v].fd = f /\ worker[v].at # "loop"
          \/ worker[v].at = "modify" /\ worker[v].target = slot[f].obj
    BY <1>1, <2>2 DEF NoneStuck
  <2> QED BY <1>5, <1>6, <2>1, <2>3
<1>10. \A p \in Streams : worker'[w].obj = p \/ worker'[w].target = p => Holds(w, p) \/ Listed(p)
  BY <1>6, SharedAssumption DEF Holds, NoStream
<1> QED BY <1>3, <1>6, <1>7, <1>8, <1>9, <1>10, StreamThreadMoves

(* A slot that gets another stream keeps its bytes. *)
LEMMA SlotRenamed ==
  ASSUME NEW B, NEW O, NEW s, s \in [Descriptors -> [obj : Streams \union {NoStream}, bytes : B, offset : O]],
         NEW fd \in Descriptors, NEW o \in Streams \union {NoStream}
  PROVE  [s EXCEPT ![fd].obj = o] \in [Descriptors -> [obj : Streams \union {NoStream}, bytes : B, offset : O]]
OBVIOUS

(* A new stream gets a descriptor, and whatever its slot still holds. *)
LEMMA AcceptInv ==
  ASSUME SharedInv, NEW o \in Streams, NEW fd \in Descriptors, Accept(o, fd)
  PROVE  SharedInv'
<1>1. /\ SharedTypeOK /\ SlotsMatch /\ OneOwner /\ NoneStuck /\ PoolCounted
      /\ stream[o].state = "none" /\ taken[o] = 0 /\ got[o] = <<>>
      /\ o # NoStream
  BY SharedAssumption DEF SharedInv, Accept, SlotsMatch, NoStream
<1>2. /\ stream' = [stream EXCEPT ![o] = [state |-> "listed", fd |-> fd]]
      /\ slot' = [slot EXCEPT ![fd].obj = o] /\ mask' = Reset(fd, slot)
      /\ UNCHANGED <<free_blocks, worker, taken, got>>
      /\ inherited' = IF slot[fd].bytes # <<>> THEN inherited \union {o} ELSE inherited
  BY DEF Accept
<1>3. ASSUME NEW p \in Streams, ~Closed(p) PROVE stream[p].fd # fd /\ p # o
  BY <1>1, <1>3 DEF Accept, Closed
<1>4. slot[fd].obj = NoStream
  <2>1. ASSUME slot[fd].obj # NoStream PROVE FALSE
    <3>1. slot[fd].obj \in Streams /\ Listed(slot[fd].obj) /\ stream[slot[fd].obj].fd = fd
      BY <1>1, <2>1 DEF SlotsMatch, SharedTypeOK
    <3>2. ~Closed(slot[fd].obj)
      BY <3>1 DEF Closed, Listed
    <3> QED BY <1>3, <3>1, <3>2
  <2> QED BY <2>1
<1>5. /\ stream'[o].state = "listed" /\ stream'[o].fd = fd
      /\ \A p \in Streams : p # o => stream'[p] = stream[p]
      /\ slot'[fd].obj = o
      /\ \A f \in Descriptors : /\ slot'[f].bytes = slot[f].bytes /\ slot'[f].offset = slot[f].offset
                                /\ f # fd => slot'[f] = slot[f]
  BY <1>1, <1>2 DEF SharedTypeOK
<1>6. SharedTypeOK'
  <2>1. stream' \in [Streams -> [state : {"none", "listed", "left"}, fd : Descriptors \union {0}]]
    BY <1>1, <1>2 DEF SharedTypeOK
  <2>2. slot' \in [Descriptors ->
          [obj : Streams \union {NoStream}, bytes : AnyBytes, offset : 0..BlockBytes - 1]]
    BY <1>1, <1>2, SlotRenamed DEF SharedTypeOK
  <2>3. mask' \in [Descriptors -> Masks]
    BY <1>1, <1>2, ResetArms
  <2> QED BY <1>1, <1>2, <2>1, <2>2, <2>3 DEF SharedTypeOK
<1>7. SlotsMatch'
  <2>1. ASSUME NEW p \in Streams, Listed(p)' PROVE slot'[stream'[p].fd].obj = p
    <3>1. CASE p = o
      BY <1>5, <3>1
    <3>2. CASE p # o
      <4>1. Listed(p) /\ ~Closed(p) /\ stream[p].fd \in Descriptors
        BY <1>1, <1>5, <2>1, <3>2 DEF Listed, Closed, SlotsMatch
      <4> QED BY <1>1, <1>3, <1>5, <3>2, <4>1 DEF SlotsMatch
    <3> QED BY <3>1, <3>2
  <2>2. ASSUME NEW f \in Descriptors, slot'[f].obj # NoStream
        PROVE  Listed(slot[f].obj)' /\ stream'[slot'[f].obj].fd = f
    <3>1. CASE f = fd
      BY <1>5, <3>1 DEF Listed
    <3>2. CASE f # fd
      <4>1. slot'[f] = slot[f] /\ slot[f].obj \in Streams /\ Listed(slot[f].obj)
            /\ stream[slot[f].obj].fd = f
        BY <1>1, <1>5, <2>2, <3>2 DEF SlotsMatch, SharedTypeOK
      <4>2. slot[f].obj # o
        BY <1>1, <4>1 DEF Listed
      <4> QED BY <1>5, <4>1, <4>2 DEF Listed
    <3> QED BY <3>1, <3>2
  <2> QED BY <1>1, <1>2, <1>5, <2>1, <2>2 DEF SlotsMatch, Listed
<1>8. OneOwner'
  <2>1. ASSUME NEW p \in Streams, p # o, ~Closed(p)' PROVE ~Closed(p)
    BY <1>2, <1>5, <2>1 DEF Closed, Holds
  <2>2. ASSUME NEW p \in Streams, p # o, ~Closed(p)' PROVE stream'[p].fd # fd
    BY <1>3, <1>5, <2>1, <2>2
  <2> SUFFICES ASSUME NEW p \in Streams, NEW r \in Streams, p # r, ~Closed(p)', ~Closed(r)'
               PROVE  stream'[p].fd # stream'[r].fd
    BY DEF OneOwner
  <2>3. CASE p = o
    BY <1>5, <2>2, <2>3
  <2>4. CASE r = o
    BY <1>5, <2>2, <2>4
  <2>5. CASE p # o /\ r # o
    BY <1>1, <1>5, <2>1, <2>5 DEF OneOwner
  <2> QED BY <2>3, <2>4, <2>5
<1>9. ASSUME NEW v \in SharedThread PROVE Handles(v)'
  <2>1. Handles(v) /\ worker' = worker
        /\ worker[v].obj \in Streams \union {NoStream} /\ worker[v].target \in Streams \union {NoStream}
    BY <1>1, <1>2 DEF SharedInv, SharedTypeOK, ThreadType
  <2> QED BY <1>1, <1>5, <2>1 DEF Handles
<1>10. ASSUME NEW p \in Streams \ inherited' PROVE InOrder(p)'
  <2>1. p \notin inherited
    BY <1>2
  <2>2. CASE p = o
    <3>1. slot'[fd].bytes = <<>>
      BY <1>2, <1>5, <2>2
    <3>2. got'[o] = <<>> /\ taken'[o] = 0
      BY <1>1, <1>2
    <3> QED BY <1>5, <2>2, <3>1, <3>2 DEF InOrder, InARow
  <2>3. CASE p # o
    <3>1. InOrder(p) /\ stream'[p] = stream[p] /\ taken' = taken /\ got' = got
      BY <1>2, <1>5, <2>1, <2>3 DEF SharedInv
    <3>2. Listed(p)' => Listed(p) /\ slot'[stream'[p].fd].bytes = slot[stream[p].fd].bytes
      <4>1. Listed(p) => stream[p].fd \in Descriptors
        BY <1>1 DEF SlotsMatch, Listed
      <4> QED BY <1>5, <3>1, <4>1 DEF Listed
    <3> QED BY <3>1, <3>2 DEF InOrder
  <2> QED BY <2>2, <2>3
<1>11. NoneStuck'
  <2> SUFFICES ASSUME NEW f \in Descriptors, slot'[f].obj # NoStream, slot[f].bytes # <<>>,
                      "out" \notin mask'[f]
               PROVE  \E v \in SharedThread :
                        \/ worker[v].fd = f /\ worker[v].at # "loop"
                        \/ worker[v].at = "modify" /\ worker[v].target = slot'[f].obj
    BY <1>2, <1>5 DEF NoneStuck
  <2>1. f # fd
    BY <1>1, <1>2, ResetArms
  <2>2. "out" \notin mask[f] /\ slot'[f] = slot[f]
    BY <1>1, <1>2, <1>5, <2>1, ResetArms
  <2> QED BY <1>1, <2>2 DEF NoneStuck
<1>12. PoolCounted'
  <2>1. \A f \in Descriptors : Held(slot[f])' = Held(slot[f])
    BY <1>5 DEF Held
  <2>2. Holding' = Holding
    BY <2>1 DEF Holding
  <2>3. Leaving' = Leaving
    BY <1>2 DEF Leaving
  <2> QED BY <1>1, <1>2, <2>2, <2>3 DEF PoolCounted
<1> QED BY <1>6, <1>7, <1>8, <1>9, <1>10, <1>11, <1>12 DEF SharedInv

(* Whoever removes a stream leaves its bytes in the slot. *)
LEMMA RemoveStreamInv ==
  ASSUME SharedInv, NEW w \in SharedThread, NEW at \in {"write", "down", "reset"},
         worker[w].at \in {"read", "down"}, Listed(worker[w].obj), RemoveStream(worker[w].obj),
         UNCHANGED <<free_blocks, taken, got, inherited>>,
         \/ Proceed(w, at)
         \/ worker' = [worker EXCEPT ![w].at = at, ![w].target = NoStream]
  PROVE  SharedInv'
<1> DEFINE o == worker[w].obj
           fd == stream[o].fd
<1>1. /\ SharedTypeOK /\ SlotsMatch /\ OneOwner /\ NoneStuck /\ PoolCounted /\ Handles(w)
      /\ worker \in [SharedThread -> ThreadType]
  BY DEF SharedInv, SharedTypeOK
<1>2. o \in Streams /\ fd \in Descriptors /\ stream[o].state = "listed" /\ o # NoStream
      /\ fd = worker[w].fd /\ worker[w].target = NoStream
  BY <1>1, SharedAssumption DEF Handles, ThreadType, SlotsMatch, Listed, NoStream
<1>3. /\ stream' = [stream EXCEPT ![o].state = "left"]
      /\ slot' = [slot EXCEPT ![fd].obj = NoStream] /\ mask' = [mask EXCEPT ![fd] = {}]
  BY DEF RemoveStream
<1>4. /\ worker' \in [SharedThread -> ThreadType]
      /\ \A v \in SharedThread : v # w => worker'[v] = worker[v]
      /\ worker'[w].at = at /\ worker'[w].target = NoStream /\ worker'[w].fd = worker[w].fd
      /\ worker'[w].obj = worker[w].obj /\ worker'[w].unused = worker[w].unused
  BY <1>1, <1>2 DEF Proceed, ThreadType, Phases
<1>5. /\ stream'[o].state = "left" /\ stream'[o].fd = fd
      /\ \A p \in Streams : p # o => stream'[p] = stream[p]
      /\ slot'[fd].obj = NoStream
      /\ \A f \in Descriptors : /\ slot'[f].bytes = slot[f].bytes /\ slot'[f].offset = slot[f].offset
                                /\ f # fd => slot'[f] = slot[f] /\ mask'[f] = mask[f]
  BY <1>1, <1>2, <1>3 DEF SharedTypeOK
<1>6. SharedTypeOK'
  <2>1. stream' \in [Streams -> [state : {"none", "listed", "left"}, fd : Descriptors \union {0}]]
    BY <1>1, <1>2, <1>3 DEF SharedTypeOK
  <2>2. slot' \in [Descriptors ->
          [obj : Streams \union {NoStream}, bytes : AnyBytes, offset : 0..BlockBytes - 1]]
    BY <1>1, <1>2, <1>3, SlotRenamed DEF SharedTypeOK
  <2>3. mask' \in [Descriptors -> Masks]
    BY <1>1, <1>3 DEF SharedTypeOK, Masks
  <2> QED BY <1>1, <1>4, <2>1, <2>2, <2>3 DEF SharedTypeOK
<1>7. ASSUME NEW p \in Streams, Listed(p)' PROVE p # o /\ Listed(p) /\ stream'[p] = stream[p]
  BY <1>5, <1>7 DEF Listed
<1>8. ASSUME NEW p \in Streams, Listed(p)' PROVE stream[p].fd # fd /\ stream[p].fd \in Descriptors
  BY <1>1, <1>2, <1>7, <1>8 DEF SlotsMatch, Listed
<1>9. SlotsMatch'
  <2>1. ASSUME NEW p \in Streams, Listed(p)' PROVE slot'[stream'[p].fd].obj = p
    BY <1>1, <1>5, <1>7, <1>8, <2>1 DEF SlotsMatch
  <2>2. ASSUME NEW f \in Descriptors, slot'[f].obj # NoStream
        PROVE  Listed(slot[f].obj)' /\ stream'[slot'[f].obj].fd = f
    <3>1. f # fd
      BY <1>5, <2>2
    <3>2. slot'[f] = slot[f] /\ slot[f].obj \in Streams /\ Listed(slot[f].obj)
          /\ stream[slot[f].obj].fd = f
      BY <1>1, <1>5, <2>2, <3>1 DEF SlotsMatch, SharedTypeOK
    <3>3. slot[f].obj # o
      BY <3>1, <3>2
    <3> QED BY <1>5, <3>2, <3>3 DEF Listed
  <2>3. ASSUME NEW p \in Streams, stream'[p].state = "none" PROVE stream'[p] = stream[p]
    BY <1>5, <2>3
  <2>4. ASSUME NEW p \in Streams PROVE stream'[p].fd = stream[p].fd /\ (stream'[p].state # "none" => stream[p].state # "none")
    BY <1>2, <1>5
  <2> QED BY <1>1, <1>5, <2>1, <2>2, <2>3, <2>4 DEF SlotsMatch
<1>10. OneOwner'
  <2>1. ASSUME NEW p \in Streams, ~Closed(p)' PROVE ~Closed(p) /\ stream'[p].fd = stream[p].fd
    <3>1. \A v \in SharedThread : Holds(v, p)' => Holds(v, p)
      BY <1>2, <1>4, SharedAssumption DEF Holds, NoStream
    <3>2. CASE p = o
      BY <1>2, <1>5, <3>2 DEF Closed
    <3>3. CASE p # o
      BY <1>5, <2>1, <3>1, <3>3 DEF Closed
    <3> QED BY <3>2, <3>3
  <2> QED BY <1>1, <2>1 DEF OneOwner
<1>11. ASSUME NEW v \in SharedThread PROVE Handles(v)'
  <2>1. Handles(v) /\ worker[v].obj \in Streams \union {NoStream}
        /\ worker[v].target \in Streams \union {NoStream}
    BY <1>1 DEF SharedInv, ThreadType
  <2>2. ASSUME NEW p \in Streams PROVE stream'[p].fd = stream[p].fd /\ (stream[p].state # "none" => stream'[p].state # "none")
    BY <1>2, <1>5
  <2>3. CASE v = w
    BY <1>1, <1>2, <1>4, <2>2, <2>3 DEF Handles
  <2>4. CASE v # w
    BY <1>4, <2>1, <2>2, <2>4 DEF Handles
  <2> QED BY <2>3, <2>4
<1>12. ASSUME NEW p \in Streams \ inherited' PROVE InOrder(p)'
  <2>1. InOrder(p) /\ taken' = taken /\ got' = got
    BY DEF SharedInv
  <2>2. Listed(p)' => Listed(p) /\ slot'[stream'[p].fd].bytes = slot[stream[p].fd].bytes
    BY <1>5, <1>7, <1>8
  <2> QED BY <2>1, <2>2 DEF InOrder
<1>13. NoneStuck'
  <2> SUFFICES ASSUME NEW f \in Descriptors, slot'[f].obj # NoStream, slot[f].bytes # <<>>,
                      "out" \notin mask'[f]
               PROVE  \E v \in SharedThread :
                        \/ worker'[v].fd = f /\ worker'[v].at # "loop"
                        \/ worker'[v].at = "modify" /\ worker'[v].target = slot'[f].obj
    BY <1>5 DEF NoneStuck
  <2>1. f # fd
    BY <1>5
  <2>2. "out" \notin mask[f] /\ slot'[f] = slot[f]
    BY <1>5, <2>1
  <2>3. PICK v \in SharedThread :
          \/ worker[v].fd = f /\ worker[v].at # "loop"
          \/ worker[v].at = "modify" /\ worker[v].target = slot[f].obj
    BY <1>1, <2>2 DEF NoneStuck
  <2> QED BY <1>4, <2>2, <2>3
<1>14. PoolCounted'
  <2>1. \A f \in Descriptors : Held(slot[f])' = Held(slot[f])
    BY <1>5 DEF Held
  <2>2. Holding' = Holding
    BY <2>1 DEF Holding
  <2>3. \A v \in SharedThread : worker'[v].unused = worker[v].unused
    BY <1>4
  <2>4. Leaving' = Leaving
    BY <2>3 DEF Leaving
  <2> QED BY <1>1, <2>2, <2>4 DEF PoolCounted
<1> QED BY <1>6, <1>9, <1>10, <1>11, <1>12, <1>13, <1>14 DEF SharedInv

(* Bytes of a stream, and those that follow them. *)
LEMMA Joins ==
  ASSUME NEW a, a \in AnyBytes, NEW b, b \in AnyBytes
  PROVE  a \o b \in AnyBytes /\ Len(a \o b) = Len(a) + Len(b) /\ Len(a) \in Nat /\ Len(b) \in Nat
BY DEF AnyBytes

(* Bytes that follow in a row, joined, are in a row. *)
LEMMA JoinsInARow ==
  ASSUME NEW a, a \in AnyBytes, NEW b, b \in AnyBytes, NEW o, NEW k \in Nat,
         InARow(a, o, k), InARow(b, o, k + Len(a))
  PROVE  InARow(a \o b, o, k)
<1>1. Len(a \o b) = Len(a) + Len(b) /\ Len(a) \in Nat /\ Len(b) \in Nat
  BY Joins
<1>2. /\ \A i \in 1..Len(a) : (a \o b)[i] = a[i]
      /\ \A i \in 1..Len(b) : (a \o b)[Len(a) + i] = b[i]
  BY ConcatElements DEF AnyBytes
<1>3. ASSUME NEW i \in 1..Len(a \o b)
      PROVE  (a \o b)[i] = <<o, k + i>>
  <2>1. CASE i <= Len(a)
    <3>1. i \in 1..Len(a)
      BY <1>1, <2>1
    <3> QED BY <1>2, <3>1 DEF InARow
  <2>2. CASE i > Len(a)
    <3> DEFINE j == i - Len(a)
    <3>1. j \in 1..Len(b) /\ Len(a) + j = i /\ k + Len(a) + j = k + i
      BY <1>1, <2>2
    <3>2. (a \o b)[Len(a) + j] = b[j] /\ b[j] = <<o, k + Len(a) + j>>
      BY <1>2, <3>1 DEF InARow
    <3> QED BY <3>1, <3>2
  <2>3. i <= Len(a) \/ i > Len(a)
    BY <1>1
  <2> QED BY <2>1, <2>2, <2>3
<1> QED BY <1>3 DEF InARow

(* And the parts of what was in a row. *)
LEMMA PartsInARow ==
  ASSUME NEW s, s \in AnyBytes, NEW n \in 0..Len(s), NEW o, NEW k \in Nat, InARow(s, o, k)
  PROVE  InARow(SubSeq(s, 1, n), o, k) /\ InARow(SubSeq(s, n + 1, Len(s)), o, k + n)
<1>1. Len(s) \in Nat /\ n \in Nat /\ n <= Len(s)
  BY BytesLen
<1>2. Len(SubSeq(s, 1, n)) = n /\ \A i \in 1..n : SubSeq(s, 1, n)[i] = s[i]
  BY DEF AnyBytes
<1>3. /\ Len(SubSeq(s, n + 1, Len(s))) = Len(s) - n
      /\ \A i \in 1..(Len(s) - n) : SubSeq(s, n + 1, Len(s))[i] = s[n + i]
  <2> DEFINE r == SubSeq(s, n + 1, Len(s))
  <2>1. Len(r) = Len(s) - n
    BY <1>1 DEF AnyBytes
  <2>2. ASSUME NEW i \in 1..(Len(s) - n) PROVE r[i] = s[n + i]
    BY <1>1 DEF AnyBytes
  <2> QED BY <2>1, <2>2
<1>4. ASSUME NEW i \in 1..n PROVE SubSeq(s, 1, n)[i] = <<o, k + i>>
  BY <1>1, <1>2 DEF InARow
<1>5. ASSUME NEW i \in 1..(Len(s) - n) PROVE SubSeq(s, n + 1, Len(s))[i] = <<o, k + n + i>>
  <2>1. n + i \in 1..Len(s) /\ k + (n + i) = k + n + i
    BY <1>1
  <2>2. s[n + i] = <<o, k + (n + i)>>
    BY <2>1 DEF InARow
  <2> QED BY <1>3, <2>1, <2>2
<1> QED BY <1>2, <1>3, <1>4, <1>5 DEF InARow

(* What one put() writes are the stream's next bytes, in a row. *)
LEMMA PutElements ==
  ASSUME NEW o \in Streams, NEW k \in Nat, NEW n \in Nat
  PROVE  LET b == [i \in 1..n |-> <<o, k + i>>]
         IN  b \in AnyBytes /\ Len(b) = n /\ InARow(b, o, k)
BY DEF AnyBytes, InARow

(* put() has taken the n bytes b for o, whose number is fd. *)
PutBytes(b, o, n) == b \in AnyBytes /\ Len(b) = n /\ InARow(b, o, taken[o])

PutStep(w, n, o, fd, need, b) ==
  /\ worker[w].at = "put" /\ worker[w].target = o /\ stream[o].state # "none" /\ stream[o].fd = fd
  /\ need = NeedBlocks(slot[fd], n) /\ need <= free_blocks
  /\ slot' = [slot EXCEPT ![fd].bytes = slot[fd].bytes \o b]
  /\ free_blocks' = free_blocks - need
  /\ taken' = [taken EXCEPT ![o] = taken[o] + n]
  /\ worker' = [worker EXCEPT ![w].at = "modify"]
  /\ UNCHANGED <<mask, stream, got, inherited>>

(* Bytes that were taken stand behind those that wait. *)
LEMMA PutTaken ==
  ASSUME SharedInv, NEW w \in SharedThread, NEW n \in PutSizes, NEW o \in Streams, NEW fd \in Descriptors,
         NEW need, NEW b, PutBytes(b, o, n), PutStep(w, n, o, fd, need, b)
  PROVE  SharedInv'
<1> DEFINE s == slot[fd]
<1>0. /\ SharedTypeOK /\ SlotsMatch /\ OneOwner /\ NoneStuck /\ PoolCounted /\ Handles(w)
      /\ worker \in [SharedThread -> ThreadType] /\ n \in Nat \ {0} /\ o # NoStream
  BY SharedAssumption DEF SharedInv, SharedTypeOK, NoStream
<1>S. slot' = [slot EXCEPT ![fd].bytes = slot[fd].bytes \o b]
  BY DEF PutStep
<1>F. free_blocks' = free_blocks - need /\ need <= free_blocks /\ need = NeedBlocks(s, n)
  BY DEF PutStep
<1>T. taken' = [taken EXCEPT ![o] = taken[o] + n]
  BY DEF PutStep
<1>W. worker' = [worker EXCEPT ![w].at = "modify"] /\ worker[w].at = "put" /\ worker[w].target = o
  BY DEF PutStep
<1>U. mask' = mask /\ stream' = stream /\ got' = got /\ inherited' = inherited
  BY DEF PutStep
<1>O. stream[o].state # "none" /\ stream[o].fd = fd
  BY DEF PutStep
<1>1. b \in AnyBytes /\ Len(b) = n /\ InARow(b, o, taken[o])
  BY DEF PutBytes
<1>2. s.bytes \in AnyBytes /\ s.offset \in 0..BlockBytes - 1 /\ (s.bytes = <<>> => s.offset = 0)
      /\ taken[o] \in Nat /\ free_blocks \in Nat
  BY <1>0 DEF SharedTypeOK, SlotsMatch
<1>3. /\ slot'[fd].bytes = s.bytes \o b /\ slot'[fd].offset = s.offset /\ slot'[fd].obj = s.obj
      /\ \A f \in Descriptors : f # fd => slot'[f] = slot[f]
  BY <1>0, <1>S DEF SharedTypeOK
<1>4. s.bytes \o b \in AnyBytes /\ Len(s.bytes \o b) = Len(s.bytes) + n /\ Len(s.bytes) \in Nat
  BY <1>1, <1>2, Joins
<1>5. need \in Nat /\ Held(slot'[fd]) = Held(s) + need
  BY <1>0, <1>F, <1>2, <1>3, <1>4, NeedBlocksHold
<1>6. /\ worker' \in [SharedThread -> ThreadType]
      /\ \A v \in SharedThread : v # w => worker'[v] = worker[v]
      /\ worker'[w].at = "modify" /\ worker'[w].target = o /\ worker'[w].fd = worker[w].fd
      /\ worker'[w].obj = worker[w].obj /\ worker'[w].unused = worker[w].unused
  BY <1>0, <1>W DEF ThreadType, Phases
<1>7. taken'[o] = taken[o] + n /\ taken' \in [Streams -> Nat]
      /\ \A p \in Streams : p # o => taken'[p] = taken[p]
  BY <1>0, <1>2, <1>T DEF SharedTypeOK
<1>8. SharedTypeOK'
  <2>1. slot' \in [Descriptors ->
          [obj : Streams \union {NoStream}, bytes : AnyBytes, offset : 0..BlockBytes - 1]]
    <3> DEFINE t == [s EXCEPT !.bytes = @ \o b]
    <3>1. t \in [obj : Streams \union {NoStream}, bytes : AnyBytes, offset : 0..BlockBytes - 1]
      BY <1>0, <1>4, ZenonT(60) DEF SharedTypeOK
    <3>2. slot' = [slot EXCEPT ![fd] = t]
      BY <1>0, <1>S DEF SharedTypeOK
    <3> HIDE DEF t
    <3> QED BY <1>0, <3>1, <3>2 DEF SharedTypeOK
  <2>2. free_blocks' \in Nat
    BY <1>F, <1>2, <1>5
  <2> QED BY <1>0, <1>U, <1>6, <1>7, <2>1, <2>2 DEF SharedTypeOK
<1>9. SlotsMatch'
  <2>1. \A f \in Descriptors : slot'[f].obj = slot[f].obj
    BY <1>3
  <2>2. \A f \in Descriptors : slot'[f].bytes = <<>> => slot'[f].offset = 0
    <3>1. slot'[fd].bytes # <<>>
      <4>1. Len(slot'[fd].bytes) # 0
        BY <1>0, <1>3, <1>4
      <4> QED BY <4>1
    <3> QED BY <1>0, <1>3, <3>1 DEF SlotsMatch
  <2>3. \A p \in Streams : stream[p].state = "none" => taken'[p] = taken[p]
    BY <1>O, <1>7
  <2>4. \A p \in Streams : Listed(p) => stream[p].fd \in Descriptors
    BY <1>0 DEF SlotsMatch, Listed
  <2> QED BY <1>0, <1>U, <2>1, <2>2, <2>3, <2>4 DEF SlotsMatch, Listed
<1>10. OneOwner'
  <2>1. ASSUME NEW p \in Streams, ~Closed(p)' PROVE ~Closed(p)
    BY <1>U, <1>W, <1>6, <2>1 DEF Closed, Holds
  <2> QED BY <1>0, <1>U, <2>1 DEF OneOwner
<1>11. ASSUME NEW v \in SharedThread PROVE Handles(v)'
  <2>1. Handles(v)
    BY DEF SharedInv
  <2> QED BY <1>0, <1>O, <1>U, <1>W, <1>6, <2>1 DEF Handles
<1>12. ASSUME NEW p \in Streams \ inherited' PROVE InOrder(p)'
  <2>1. InOrder(p) /\ got' = got /\ stream' = stream /\ got[p] \in AnyBytes
    BY <1>0, <1>U DEF SharedInv, SharedTypeOK
  <2>2. CASE p = o
    <3>1. CASE ~Listed(p)
      <4>1. Len(got[p]) \in Nat
        BY <2>1, BytesLen
      <4>2. Len(got[p]) <= taken[p] /\ InARow(got[p], p, 0)
        BY <2>1 DEF InOrder
      <4>3. Len(got[p]) <= taken'[p]
        BY <1>0, <1>2, <1>7, <2>2, <4>1, <4>2
      <4>4. ~Listed(p)'
        BY <2>1, <3>1 DEF Listed
      <4> QED BY <2>1, <4>2, <4>3, <4>4 DEF InOrder
    <3>2. CASE Listed(p)
      <4> DEFINE k == Len(got[o])
      <4>1. k \in Nat /\ k + Len(s.bytes) = taken[o]
            /\ InARow(got[o], o, 0) /\ InARow(s.bytes, o, k)
        BY <1>O, <2>1, <2>2, <3>2, BytesLen DEF InOrder
      <4> HIDE DEF k
      <4>2. InARow(s.bytes \o b, o, k)
        BY <1>1, <1>2, <4>1, JoinsInARow
      <4>3. k <= taken'[o] /\ k + Len(s.bytes \o b) = taken'[o]
        BY <1>0, <1>4, <1>7, <4>1
      <4>4. slot'[stream'[o].fd].bytes = s.bytes \o b
        BY <1>O, <1>3, <2>1
      <4> QED BY <1>4, <2>1, <2>2, <4>1, <4>2, <4>3, <4>4 DEF InOrder, k
    <3> QED BY <3>1, <3>2
  <2>3. CASE p # o
    <3>1. ASSUME Listed(p) PROVE stream[p].fd # fd /\ stream[p].fd \in Descriptors
      <4>1. ~Closed(p) /\ ~Closed(o)
        BY <1>O, <1>W, <3>1 DEF Closed, Holds, Listed
      <4> QED BY <1>0, <1>O, <2>3, <3>1, <4>1 DEF OneOwner, SlotsMatch, Listed
    <3> QED BY <1>3, <1>7, <2>1, <2>3, <3>1 DEF InOrder, Listed
  <2> QED BY <2>2, <2>3
<1>13. NoneStuck'
  <2> SUFFICES ASSUME NEW f \in Descriptors, slot'[f].obj # NoStream, slot'[f].bytes # <<>>,
                      "out" \notin mask[f]
               PROVE  \E v \in SharedThread :
                        \/ worker'[v].fd = f /\ worker'[v].at # "loop"
                        \/ worker'[v].at = "modify" /\ worker'[v].target = slot'[f].obj
    BY <1>U DEF NoneStuck
  <2>1. CASE f = fd
    <3> DEFINE p == slot[fd].obj
    <3>1. p \in Streams /\ Listed(p) /\ stream[p].fd = fd
      BY <1>0, <1>3, <2>1 DEF SlotsMatch, SharedTypeOK
    <3>2. ~Closed(p) /\ ~Closed(o)
      BY <1>O, <1>W, <3>1 DEF Closed, Holds, Listed
    <3>3. p = o
      BY <1>0, <1>O, <3>1, <3>2 DEF OneOwner
    <3> QED BY <1>3, <1>6, <2>1, <3>3
  <2>2. CASE f # fd
    <3>1. slot'[f] = slot[f]
      BY <1>3, <2>2
    <3>2. PICK v \in SharedThread :
            \/ worker[v].fd = f /\ worker[v].at # "loop"
            \/ worker[v].at = "modify" /\ worker[v].target = slot[f].obj
      BY <1>0, <3>1 DEF NoneStuck
    <3> QED BY <1>W, <1>6, <3>1, <3>2
  <2> QED BY <2>1, <2>2
<1>14. PoolCounted'
  <2> DEFINE h == [f \in Descriptors |-> Held(slot[f])]
             g == [f \in Descriptors |-> Held(slot'[f])]
  <2>1. h \in [Descriptors -> Nat] /\ g \in [Descriptors -> Nat]
    <3>1. \A f \in Descriptors : Held(slot[f]) \in Nat
      BY <1>0, SharedHeldType DEF SharedTypeOK
    <3>2. \A f \in Descriptors : Held(slot'[f]) \in Nat
      BY <1>8, SharedHeldType DEF SharedTypeOK
    <3> QED BY <3>1, <3>2
  <2>2. h[fd] = Held(s) /\ g[fd] = Held(s) + need /\ \A f \in Descriptors : f # fd => g[f] = h[f]
    BY <1>0, <1>3, <1>5
  <2>3. Holding = Pairs(Descriptors, h) /\ Holding' = Pairs(Descriptors, g)
    BY DEF Holding
  <2>4. IsFiniteSet(Holding) /\ IsFiniteSet(Leaving)
        /\ free_blocks + Cardinality(Holding) + Cardinality(Leaving) = BufferSize
    BY <1>0 DEF PoolCounted
  <2> HIDE DEF h, g
  <2>5. /\ IsFiniteSet(Holding')
        /\ Cardinality(Holding') = Cardinality(Holding) + g[fd] - h[fd]
    BY <1>0, <2>1, <2>2, <2>3, <2>4, PairsChange
  <2>6. Leaving' = Leaving
    <3>1. \A v \in SharedThread : worker'[v].unused = worker[v].unused
      BY <1>6
    <3> QED BY <3>1 DEF Leaving
  <2>7. Cardinality(Holding) \in Nat /\ Cardinality(Leaving) \in Nat /\ h[fd] \in Nat
    BY <1>0, <2>1, <2>4, FS_CardinalityType
  <2>8. Cardinality(Holding') = Cardinality(Holding) + need
    BY <1>5, <2>2, <2>5, <2>7
  <2>9. free_blocks' + Cardinality(Holding') + Cardinality(Leaving) = BufferSize
    BY <1>F, <1>2, <1>5, <2>4, <2>7, <2>8
  <2> QED BY <2>4, <2>5, <2>6, <2>9 DEF PoolCounted
<1> QED BY <1>8, <1>9, <1>10, <1>11, <1>12, <1>13, <1>14 DEF SharedInv

(* put() takes all of the bytes or none. *)
LEMMA SharedPutInv ==
  ASSUME SharedInv, NEW w \in SharedThread, NEW n \in PutSizes, SharedPut(w, n)
  PROVE  SharedInv'
<1> DEFINE o == worker[w].target
           fd == stream[o].fd
           s == slot[fd]
           need == NeedBlocks(s, n)
           b == [i \in 1..n |-> <<o, taken[o] + i>>]
<1>1. \/ AfterRead(w) /\ UNCHANGED <<slot, free_blocks, taken>>
      \/ /\ need <= free_blocks
         /\ slot' = [slot EXCEPT ![fd].bytes = @ \o b]
         /\ free_blocks' = free_blocks - need
         /\ taken' = [taken EXCEPT ![o] = @ + n]
         /\ Proceed(w, "modify")
  BY Zenon DEF SharedPut
<1>2. worker[w].at = "put" /\ mask' = mask /\ stream' = stream /\ got' = got /\ inherited' = inherited
  BY Zenon DEF SharedPut
<1>3. SharedTypeOK /\ SlotsMatch /\ Handles(w) /\ n \in Nat
  BY SharedAssumption DEF SharedInv
<1>4. o \in Streams /\ fd \in Descriptors /\ stream[o].state # "none" /\ o # NoStream
  BY <1>2, <1>3 DEF Handles, SharedTypeOK, ThreadType, SlotsMatch
<1>5. CASE AfterRead(w) /\ UNCHANGED <<slot, free_blocks, taken>>
  <2>1. From(worker[w].events, <<Writing, Ending>>) \in {"read", "write", "down", "reset"}
    BY FromPhases
  <2>2. UNCHANGED <<slot, free_blocks, stream, taken, got, inherited, mask>>
    BY <1>2, <1>5
  <2>3. worker' = [worker EXCEPT ![w].at = From(worker[w].events, <<Writing, Ending>>),
                                 ![w].target = NoStream]
    BY <1>5 DEF AfterRead
  <2> QED BY <1>2, <2>1, <2>2, <2>3, HandlerMoves
<1>6. CASE /\ need <= free_blocks
           /\ slot' = [slot EXCEPT ![fd].bytes = @ \o b]
           /\ free_blocks' = free_blocks - need
           /\ taken' = [taken EXCEPT ![o] = @ + n]
           /\ Proceed(w, "modify")
  <2>1. b \in AnyBytes /\ Len(b) = n /\ InARow(b, o, taken[o])
    <3>1. taken[o] \in Nat
      BY <1>3, <1>4 DEF SharedTypeOK
    <3> HIDE DEF o
    <3> QED BY <1>3, <1>4, <3>1, PutElements
  <2> HIDE DEF b
  <2>2. PutBytes(b, o, n)
    BY <2>1 DEF PutBytes
  <2>3. PutStep(w, n, o, fd, need, b)
    BY <1>2, <1>4, <1>6, Zenon DEF PutStep, Proceed
  <2> HIDE DEF o, fd, s, need
  <2> QED BY <1>4, <2>2, <2>3, PutTaken
<1> QED BY <1>1, <1>5, <1>6

(* write() has taken n bytes of o, whose number is fd. *)
PushStep(w, n, o, fd, s, rest) ==
  /\ worker[w].at = "write" /\ worker[w].obj = o /\ Listed(o) /\ stream[o].fd = fd /\ s = slot[fd]
  /\ slot' = [slot EXCEPT ![fd] = rest]
  /\ got' = [got EXCEPT ![o] = got[o] \o SubSeq(s.bytes, 1, n)]
  /\ worker' = [worker EXCEPT ![w].at = "free", ![w].unused = Held(s) - Held(rest)]
  /\ UNCHANGED <<free_blocks, mask, stream, taken, inherited>>

(* Bytes that were sent were the first that waited. *)
LEMMA Pushed ==
  ASSUME SharedInv, NEW w \in SharedThread, NEW o \in Streams, NEW fd \in Descriptors,
         NEW s, NEW n \in 0..Len(s.bytes), NEW rest,
         rest = [s EXCEPT !.bytes = SubSeq(s.bytes, n + 1, Len(s.bytes)),
                          !.offset = IF n = Len(s.bytes) THEN 0 ELSE (s.offset + n) % BlockBytes],
         PushStep(w, n, o, fd, s, rest)
  PROVE  SharedInv'
<1>0. /\ SharedTypeOK /\ SlotsMatch /\ OneOwner /\ NoneStuck /\ PoolCounted /\ Handles(w)
      /\ worker \in [SharedThread -> ThreadType]
  BY DEF SharedInv, SharedTypeOK
<1>S. slot' = [slot EXCEPT ![fd] = rest] /\ s = slot[fd]
  BY DEF PushStep
<1>G. got' = [got EXCEPT ![o] = got[o] \o SubSeq(s.bytes, 1, n)]
  BY DEF PushStep
<1>W. worker' = [worker EXCEPT ![w].at = "free", ![w].unused = Held(s) - Held(rest)]
      /\ worker[w].at = "write" /\ worker[w].obj = o
  BY DEF PushStep
<1>U. free_blocks' = free_blocks /\ mask' = mask /\ stream' = stream /\ taken' = taken /\ inherited' = inherited
  BY DEF PushStep
<1>O. Listed(o) /\ stream[o].fd = fd /\ stream[o].state = "listed"
  BY DEF PushStep, Listed
<1>1. s.bytes \in AnyBytes /\ s.offset \in 0..BlockBytes - 1 /\ got[o] \in AnyBytes
      /\ s \in [obj : Streams \union {NoStream}, bytes : AnyBytes, offset : 0..BlockBytes - 1]
  BY <1>0, <1>S DEF SharedTypeOK
<1>2. /\ rest.bytes = SubSeq(s.bytes, n + 1, Len(s.bytes)) /\ rest.obj = s.obj
      /\ rest.offset = IF n = Len(s.bytes) THEN 0 ELSE (s.offset + n) % BlockBytes
      /\ DOMAIN rest = {"obj", "bytes", "offset"} /\ rest = [rest EXCEPT !.obj = s.obj]
  BY <1>1
<1>3. /\ rest.bytes \in AnyBytes /\ Len(rest.bytes) = Len(s.bytes) - n
      /\ rest.offset \in 0..BlockBytes - 1 /\ (rest.bytes = <<>> => rest.offset = 0)
      /\ Held(s) - Held(rest) \in Nat
  <2>1. s.bytes \in AnyBytes /\ s.offset \in 0..BlockBytes - 1
    BY <1>1
  <2>2. /\ rest.bytes = SubSeq(s.bytes, n + 1, Len(s.bytes))
        /\ rest.offset = IF n = Len(s.bytes) THEN 0 ELSE (s.offset + n) % BlockBytes
    BY <1>2
  <2>3. n \in 0..Len(s.bytes)
    OBVIOUS
  <2> QED BY <2>1, <2>2, <2>3, RestHolds, ZenonT(60)
<1>4. rest \in [obj : Streams \union {NoStream}, bytes : AnyBytes, offset : 0..BlockBytes - 1]
  BY <1>1, <1>2, <1>3
<1>5. slot'[fd] = rest /\ \A f \in Descriptors : f # fd => slot'[f] = slot[f]
  BY <1>0, <1>S DEF SharedTypeOK
<1>6. worker[w].fd = fd /\ worker[w].unused = 0 /\ worker[w].target = NoStream /\ o # NoStream
  BY <1>0, <1>O, <1>W, SharedAssumption DEF Handles, NoStream
<1>7. /\ worker' \in [SharedThread -> ThreadType]
      /\ \A v \in SharedThread : v # w => worker'[v] = worker[v]
      /\ worker'[w].at = "free" /\ worker'[w].target = NoStream /\ worker'[w].fd = fd
      /\ worker'[w].obj = o /\ worker'[w].unused = Held(s) - Held(rest)
  <2> DEFINE freed == Held(s) - Held(rest)
  <2>1. freed \in Nat /\ worker' = [worker EXCEPT ![w].at = "free", ![w].unused = freed]
    BY <1>3, <1>W
  <2> HIDE DEF freed
  <2>2. /\ worker' \in [SharedThread -> ThreadType]
        /\ \A v \in SharedThread : v # w => worker'[v] = worker[v]
        /\ worker'[w].at = "free" /\ worker'[w].target = worker[w].target
        /\ worker'[w].fd = worker[w].fd /\ worker'[w].obj = worker[w].obj
        /\ worker'[w].unused = freed
    <3>1. "free" \in Phases
      BY DEF Phases
    <3> QED BY <1>0, <2>1, <3>1, ZenonT(60) DEF ThreadType
  <2> QED BY <1>6, <1>W, <2>2 DEF freed
<1>8. /\ SubSeq(s.bytes, 1, n) \in AnyBytes /\ Len(SubSeq(s.bytes, 1, n)) = n
      /\ Len(s.bytes) \in Nat /\ n \in Nat /\ n <= Len(s.bytes)
  BY <1>1 DEF AnyBytes
<1>9. /\ got[o] \o SubSeq(s.bytes, 1, n) \in AnyBytes /\ Len(got[o]) \in Nat
      /\ Len(got[o] \o SubSeq(s.bytes, 1, n)) = Len(got[o]) + n
  BY <1>1, <1>8, Joins
<1>10. /\ got' \in [Streams -> AnyBytes] /\ got'[o] = got[o] \o SubSeq(s.bytes, 1, n)
       /\ \A p \in Streams : p # o => got'[p] = got[p]
  BY <1>0, <1>9, <1>G DEF SharedTypeOK
<1>11. SharedTypeOK'
  <2>1. slot' \in [Descriptors ->
          [obj : Streams \union {NoStream}, bytes : AnyBytes, offset : 0..BlockBytes - 1]]
    BY <1>0, <1>4, <1>S DEF SharedTypeOK
  <2> QED BY <1>0, <1>7, <1>10, <1>U, <2>1 DEF SharedTypeOK
<1>12. SlotsMatch'
  <2>1. \A f \in Descriptors : slot'[f].obj = slot[f].obj
    BY <1>2, <1>5, <1>S
  <2>2. \A f \in Descriptors : slot'[f].bytes = <<>> => slot'[f].offset = 0
    BY <1>0, <1>3, <1>5 DEF SlotsMatch
  <2>3. \A p \in Streams : stream[p].state = "none" => got'[p] = got[p]
    BY <1>10, <1>O
  <2>4. \A p \in Streams : Listed(p) => stream[p].fd \in Descriptors
    BY <1>0 DEF SlotsMatch, Listed
  <2> QED BY <1>0, <1>U, <2>1, <2>2, <2>3, <2>4 DEF SlotsMatch, Listed
<1>13. OneOwner'
  <2>1. ASSUME NEW p \in Streams, ~Closed(p)' PROVE ~Closed(p)
    BY <1>6, <1>7, <1>U, <1>W, <2>1 DEF Closed, Holds
  <2> QED BY <1>0, <1>U, <2>1 DEF OneOwner
<1>14. ASSUME NEW v \in SharedThread PROVE Handles(v)'
  <2>1. Handles(v)
    BY DEF SharedInv
  <2> QED BY <1>0, <1>6, <1>7, <1>O, <1>U, <2>1 DEF Handles
<1>15. ASSUME NEW p \in Streams \ inherited' PROVE InOrder(p)'
  <2>1. InOrder(p) /\ taken' = taken /\ stream' = stream
    BY <1>U DEF SharedInv
  <2>2. CASE p = o
    <3> DEFINE k == Len(got[o])
    <3>1. /\ k + Len(s.bytes) = taken[o] /\ k \in Nat
          /\ InARow(got[o], o, 0) /\ InARow(s.bytes, o, k)
      BY <1>9, <1>O, <1>S, <2>1, <2>2 DEF InOrder
    <3> HIDE DEF k
    <3>2. InARow(SubSeq(s.bytes, 1, n), o, k) /\ InARow(rest.bytes, o, k + n)
      BY <1>1, <1>2, <3>1, PartsInARow
    <3>3. InARow(got'[o], o, 0)
      <4> DEFINE piece == SubSeq(s.bytes, 1, n)
      <4>1. InARow(piece, o, 0 + Len(got[o]))
        BY <3>1, <3>2 DEF k
      <4>2. got[o] \in AnyBytes /\ piece \in AnyBytes /\ InARow(got[o], o, 0) /\ 0 \in Nat
        BY <1>1, <1>8, <3>1
      <4>3. got'[o] = got[o] \o piece
        BY <1>10
      <4> HIDE DEF piece
      <4>4. InARow(got[o] \o piece, o, 0)
        BY <4>1, <4>2, JoinsInARow, Zenon
      <4> QED BY <4>3, <4>4
    <3>4. Len(got'[o]) = k + n
      BY <1>9, <1>10 DEF k
    <3>5. slot'[stream'[o].fd].bytes = rest.bytes
      BY <1>5, <1>O, <2>1
    <3>6. k + n <= taken[o] /\ k + n + Len(rest.bytes) = taken[o]
      <4>1. Len(rest.bytes) = Len(s.bytes) - n
        BY <1>3
      <4> QED BY <1>8, <3>1, <4>1
    <3> QED BY <2>1, <2>2, <3>2, <3>3, <3>4, <3>5, <3>6 DEF InOrder
  <2>3. CASE p # o
    <3>1. ASSUME Listed(p) PROVE stream[p].fd # fd /\ stream[p].fd \in Descriptors
      BY <1>0, <1>O, <2>3, <3>1 DEF SlotsMatch, Listed
    <3> QED BY <1>5, <1>10, <2>1, <2>3, <3>1 DEF InOrder, Listed
  <2> QED BY <2>2, <2>3
<1>16. NoneStuck'
  <2> SUFFICES ASSUME NEW f \in Descriptors, slot'[f].obj # NoStream, slot'[f].bytes # <<>>,
                      "out" \notin mask[f]
               PROVE  \E v \in SharedThread :
                        \/ worker'[v].fd = f /\ worker'[v].at # "loop"
                        \/ worker'[v].at = "modify" /\ worker'[v].target = slot'[f].obj
    BY <1>U DEF NoneStuck
  <2>1. CASE f = fd
    BY <1>7, <2>1
  <2>2. CASE f # fd
    <3>1. slot'[f] = slot[f]
      BY <1>5, <2>2
    <3>2. PICK v \in SharedThread :
            \/ worker[v].fd = f /\ worker[v].at # "loop"
            \/ worker[v].at = "modify" /\ worker[v].target = slot[f].obj
      BY <1>0, <3>1 DEF NoneStuck
    <3> QED BY <1>6, <1>7, <1>W, <2>2, <3>1, <3>2
  <2> QED BY <2>1, <2>2
<1>17. PoolCounted'
  <2> DEFINE h == [f \in Descriptors |-> Held(slot[f])]
             g == [f \in Descriptors |-> Held(slot'[f])]
             l == [v \in SharedThread |-> worker[v].unused]
             m == [v \in SharedThread |-> worker'[v].unused]
             freed == Held(s) - Held(rest)
  <2>1. h \in [Descriptors -> Nat] /\ g \in [Descriptors -> Nat]
    <3>1. \A f \in Descriptors : Held(slot[f]) \in Nat
      BY <1>0, SharedHeldType DEF SharedTypeOK
    <3>2. \A f \in Descriptors : Held(slot'[f]) \in Nat
      BY <1>11, SharedHeldType DEF SharedTypeOK
    <3> QED BY <3>1, <3>2
  <2>2. h[fd] = Held(s) /\ g[fd] = Held(rest) /\ \A f \in Descriptors : f # fd => g[f] = h[f]
    BY <1>5, <1>S
  <2>3. l \in [SharedThread -> Nat] /\ m \in [SharedThread -> Nat]
    BY <1>0, <1>7 DEF ThreadType
  <2>4. l[w] = 0 /\ m[w] = freed /\ \A v \in SharedThread : v # w => m[v] = l[v]
    BY <1>6, <1>7
  <2>5. /\ Holding = Pairs(Descriptors, h) /\ Holding' = Pairs(Descriptors, g)
        /\ Leaving = Pairs(SharedThread, l) /\ Leaving' = Pairs(SharedThread, m)
    BY DEF Holding, Leaving
  <2>6. IsFiniteSet(Holding) /\ IsFiniteSet(Leaving)
        /\ free_blocks + Cardinality(Holding) + Cardinality(Leaving) = BufferSize
    BY <1>0 DEF PoolCounted
  <2>7. freed \in Nat /\ freed = h[fd] - g[fd] /\ free_blocks \in Nat
    BY <1>0, <1>3, <2>2 DEF SharedTypeOK
  <2> HIDE DEF h, g, l, m, freed
  <2>8. /\ IsFiniteSet(Holding')
        /\ Cardinality(Holding') = Cardinality(Holding) + g[fd] - h[fd]
    BY <2>1, <2>2, <2>5, <2>6, PairsChange
  <2>9. /\ IsFiniteSet(Leaving')
        /\ Cardinality(Leaving') = Cardinality(Leaving) + m[w] - l[w]
    BY <2>3, <2>4, <2>5, <2>6, PairsChange
  <2>10. Cardinality(Holding) \in Nat /\ Cardinality(Leaving) \in Nat /\ h[fd] \in Nat /\ g[fd] \in Nat
    BY <2>1, <2>6, FS_CardinalityType
  <2>11. free_blocks + Cardinality(Holding') + Cardinality(Leaving') = BufferSize
    <3>1. Cardinality(Leaving') = Cardinality(Leaving) + freed
      BY <2>4, <2>7, <2>9, <2>10
    <3>2. Cardinality(Holding') = Cardinality(Holding) - freed
      BY <2>7, <2>8, <2>10
    <3> QED BY <2>6, <2>7, <2>10, <3>1, <3>2
  <2> QED BY <1>U, <2>8, <2>9, <2>11 DEF PoolCounted
<1> QED BY <1>11, <1>12, <1>13, <1>14, <1>15, <1>16, <1>17 DEF SharedInv

(* push() sends a first part of what waits. *)
LEMMA SharedPushInv ==
  ASSUME SharedInv, NEW w \in SharedThread, NEW n \in 0..MaxTaken, SharedPush(w, n)
  PROVE  SharedInv'
<1> DEFINE o == worker[w].obj
           fd == stream[o].fd
           s == slot[fd]
           rest == [s EXCEPT !.bytes = SubSeq(s.bytes, n + 1, Len(s.bytes)),
                             !.offset = IF n = Len(s.bytes) THEN 0 ELSE (s.offset + n) % BlockBytes]
<1>1. /\ worker[w].at = "write" /\ Listed(o) /\ n \in 0..Len(s.bytes)
      /\ slot' = [slot EXCEPT ![fd] = rest]
      /\ got' = [got EXCEPT ![o] = @ \o SubSeq(s.bytes, 1, n)]
      /\ worker' = [worker EXCEPT ![w].at = "free", ![w].unused = Held(s) - Held(rest)]
      /\ UNCHANGED <<free_blocks, mask, stream, taken, inherited>>
  BY Zenon DEF SharedPush
<1>2. o \in Streams /\ fd \in Descriptors
  <2>1. Handles(w) /\ worker[w] \in ThreadType /\ SlotsMatch /\ worker[w].at = "write"
    BY <1>1 DEF SharedInv, SharedTypeOK
  <2>2. worker[w].obj \in Streams /\ stream[worker[w].obj].state # "none"
    BY <2>1 DEF Handles, ThreadType
  <2> QED BY <2>1, <2>2 DEF SlotsMatch
<1>3. PushStep(w, n, o, fd, s, rest)
  BY <1>1, Zenon DEF PushStep
<1>4. rest = [s EXCEPT !.bytes = SubSeq(s.bytes, n + 1, Len(s.bytes)),
                       !.offset = IF n = Len(s.bytes) THEN 0 ELSE (s.offset + n) % BlockBytes]
  OBVIOUS
<1>5. n \in 0..Len(s.bytes)
  BY <1>1, Zenon
<1> HIDE DEF o, fd, s, rest
<1> QED BY <1>2, <1>3, <1>4, <1>5, Pushed, Zenon

(* The blocks that a send has emptied are free again. *)
LEMMA FreeBlocksInv ==
  ASSUME SharedInv, NEW w \in SharedThread, FreeBlocks(w)
  PROVE  SharedInv'
<1> DEFINE next == From(worker[w].events, <<Ending>>)
<1>1. /\ SharedTypeOK /\ SlotsMatch /\ OneOwner /\ NoneStuck /\ PoolCounted /\ Handles(w)
      /\ worker \in [SharedThread -> ThreadType]
  BY DEF SharedInv, SharedTypeOK
<1>2. /\ worker[w].at = "free" /\ free_blocks' = free_blocks + worker[w].unused
      /\ worker' = [worker EXCEPT ![w].at = next, ![w].unused = 0]
  BY DEF FreeBlocks
<1>3. UNCHANGED <<slot, mask, stream, taken, got, inherited>>
  BY DEF FreeBlocks
<1>4. next \in {"down", "reset"}
  BY FromPhases
<1>5. worker[w].unused \in Nat /\ free_blocks \in Nat
  BY <1>1 DEF ThreadType, SharedTypeOK
<1> HIDE DEF next
<1>6. /\ worker' \in [SharedThread -> ThreadType]
      /\ \A v \in SharedThread : v # w => worker'[v] = worker[v]
      /\ worker'[w].at = next /\ worker'[w].target = worker[w].target
      /\ worker'[w].fd = worker[w].fd /\ worker'[w].obj = worker[w].obj /\ worker'[w].unused = 0
  <2>1. next \in Phases
    BY <1>4 DEF Phases
  <2> QED BY <1>1, <1>2, <2>1 DEF ThreadType
<1>7. SharedTypeOK'
  BY <1>1, <1>2, <1>3, <1>5, <1>6 DEF SharedTypeOK
<1>8. SlotsMatch'
  BY <1>1, <1>3 DEF SlotsMatch, Listed
<1>9. OneOwner'
  <2>1. ASSUME NEW o \in Streams, ~Closed(o)' PROVE ~Closed(o)
    BY <1>3, <1>6, <2>1 DEF Closed, Holds
  <2> QED BY <1>1, <1>3, <2>1 DEF OneOwner
<1>10. ASSUME NEW v \in SharedThread PROVE Handles(v)'
  <2>1. Handles(v)
    BY DEF SharedInv
  <2> QED BY <1>1, <1>2, <1>3, <1>4, <1>6, <2>1 DEF Handles
<1>11. ASSUME NEW o \in Streams \ inherited' PROVE InOrder(o)'
  BY <1>3 DEF SharedInv, InOrder, Listed
<1>12. NoneStuck'
  BY <1>2, <1>3, <1>4, <1>6, StillToArm
<1>13. PoolCounted'
  <2> DEFINE l == [v \in SharedThread |-> worker[v].unused]
             m == [v \in SharedThread |-> worker'[v].unused]
  <2>1. l \in [SharedThread -> Nat] /\ m \in [SharedThread -> Nat]
    BY <1>1, <1>6 DEF ThreadType
  <2>2. l[w] = worker[w].unused /\ m[w] = 0 /\ \A v \in SharedThread : v # w => m[v] = l[v]
    BY <1>6
  <2>3. Leaving = Pairs(SharedThread, l) /\ Leaving' = Pairs(SharedThread, m) /\ Holding' = Holding
    BY <1>3 DEF Holding, Leaving
  <2>4. IsFiniteSet(Holding) /\ IsFiniteSet(Leaving)
        /\ free_blocks + Cardinality(Holding) + Cardinality(Leaving) = BufferSize
    BY <1>1 DEF PoolCounted
  <2> HIDE DEF l, m
  <2>5. /\ IsFiniteSet(Leaving')
        /\ Cardinality(Leaving') = Cardinality(Leaving) + m[w] - l[w]
    BY <2>1, <2>2, <2>3, <2>4, PairsChange
  <2>6. Cardinality(Holding) \in Nat /\ Cardinality(Leaving) \in Nat
    BY <2>4, FS_CardinalityType
  <2>7. free_blocks' + Cardinality(Holding) + Cardinality(Leaving') = BufferSize
    BY <1>2, <1>5, <2>2, <2>4, <2>5, <2>6
  <2> QED BY <2>3, <2>4, <2>5, <2>7 DEF PoolCounted
<1> QED BY <1>7, <1>8, <1>9, <1>10, <1>11, <1>12, <1>13 DEF SharedInv

(* Every step keeps the invariant. *)
LEMMA SharedInvNext ==
  ASSUME SharedInv, [SharedNext]_shared_vars
  PROVE  SharedInv'
<1>1. CASE \E o \in Streams, fd \in Descriptors : Accept(o, fd)
  BY <1>1, AcceptInv
<1>2. ASSUME NEW fd \in Descriptors, NEW events \in SUBSET {"in", "out", "hup"}, SomeEvent(fd, events)
      PROVE  SharedInv'
  BY <1>2, TakeSocketInv DEF SomeEvent
<1>3. ASSUME NEW w \in SharedThread, Continue(w)
      PROVE  SharedInv'
  <2>1. CASE FindStream(w)
    BY <2>1, FindStreamInv
  <2>2. CASE EndEvent(w)
    BY <2>2, EndEventInv
  <2>3. CASE ReadNothing(w) \/ PutNoMore(w) \/ NoPush(w)
    BY <2>3, HandlersInv
  <2>4. CASE ReadRemoves(w)
    <3>1. From(worker[w].events, <<Writing, Ending>>) \in {"write", "down", "reset"}
      BY FromPhases
    <3>2. /\ worker[w].at = "read" /\ Listed(worker[w].obj) /\ RemoveStream(worker[w].obj)
          /\ UNCHANGED <<free_blocks, taken, got, inherited>>
      BY <2>4 DEF ReadRemoves
    <3>3. worker' = [worker EXCEPT ![w].at = From(worker[w].events, <<Writing, Ending>>),
                                   ![w].target = NoStream]
      BY <2>4 DEF ReadRemoves, AfterRead
    <3> QED BY <3>1, <3>2, <3>3, RemoveStreamInv
  <2>5. CASE \E o \in Streams : ReadPuts(w, o)
    BY <2>5, ReadPutsInv
  <2>6. CASE \E n \in PutSizes : SharedPut(w, n)
    BY <2>6, SharedPutInv
  <2>7. CASE ModifyStream(w)
    BY <2>7, ModifyStreamInv
  <2>8. CASE \E n \in 0..MaxTaken : SharedPush(w, n)
    BY <2>8, SharedPushInv
  <2>9. CASE FreeBlocks(w)
    BY <2>9, FreeBlocksInv
  <2>10. CASE PeerDown(w)
    <3>1. worker[w].at = "down" /\ Proceed(w, "reset") /\ UNCHANGED <<free_blocks, taken, got, inherited>>
      BY <2>10 DEF PeerDown
    <3>2. CASE Listed(worker[w].obj)
      <4>1. RemoveStream(worker[w].obj)
        BY <2>10, <3>2 DEF PeerDown
      <4> QED BY <3>1, <3>2, <4>1, RemoveStreamInv
    <3>3. CASE ~Listed(worker[w].obj)
      <4>1. UNCHANGED <<stream, slot, mask>>
        BY <2>10, <3>3 DEF PeerDown
      <4> QED BY <3>1, <4>1, HandlerMoves
    <3> QED BY <3>2, <3>3
  <2> QED BY <1>3, <2>1, <2>2, <2>3, <2>4, <2>5, <2>6, <2>7, <2>8, <2>9, <2>10 DEF Continue
<1>4. CASE UNCHANGED shared_vars
  <2>1. /\ SharedTypeOK' /\ SlotsMatch' /\ OneOwner' /\ NoneStuck' /\ PoolCounted'
    BY <1>4 DEF SharedInv, SharedTypeOK, SlotsMatch, OneOwner, NoneStuck, PoolCounted, Holding, Leaving,
                shared_vars, Closed, Holds, Listed
  <2>2. \A w \in SharedThread : Handles(w)'
    BY <1>4 DEF SharedInv, Handles, shared_vars
  <2>3. \A o \in Streams \ inherited' : InOrder(o)'
    BY <1>4 DEF SharedInv, InOrder, Listed, shared_vars
  <2> QED BY <2>1, <2>2, <2>3 DEF SharedInv
<1> QED BY <1>1, <1>2, <1>3, <1>4 DEF SharedNext

(* The invariant implies what the run checks. *)
LEMMA SharedInvSound == SharedInv => SharedSound
<1> SUFFICES ASSUME SharedInv PROVE SharedSound
  OBVIOUS
<1>1. PoolExact
  <2>1. Holding = UNION {{fd} \X (1..Held(slot[fd])) : fd \in Descriptors}
    BY DEF Holding, Pairs
  <2>2. Leaving = UNION {{w} \X (1..worker[w].unused) : w \in SharedThread}
    BY DEF Leaving, Pairs
  <2> QED BY <2>1, <2>2 DEF SharedInv, PoolCounted, PoolExact
<1>2. ASSUME NEW o \in Streams \ inherited
      PROVE  LET waiting == IF Listed(o) THEN slot[stream[o].fd].bytes ELSE <<>>
                 meant == [i \in 1..taken[o] |-> <<o, i>>]
             IN IF Listed(o) THEN got[o] \o waiting = meant
                ELSE got[o] = SubSeq(meant, 1, Len(got[o]))
  <2> DEFINE meant == [i \in 1..taken[o] |-> <<o, i>>]
             k == Len(got[o])
  <2>1. /\ InOrder(o) /\ got[o] \in AnyBytes /\ taken[o] \in Nat /\ k \in Nat
        /\ Listed(o) => slot[stream[o].fd].bytes \in AnyBytes
    BY BytesLen DEF SharedInv, SharedTypeOK, SlotsMatch, Listed
  <2>2. k <= taken[o] /\ InARow(got[o], o, 0)
    BY <2>1 DEF InOrder
  <2>3. ASSUME NEW b, b \in AnyBytes, InARow(b, o, 0) PROVE b = [i \in 1..Len(b) |-> <<o, i>>]
    <3>1. b = [i \in 1..Len(b) |-> b[i]]
      BY <2>3 DEF AnyBytes
    <3>2. \A i \in 1..Len(b) : b[i] = <<o, i>>
      <4>1. \A i \in 1..Len(b) : b[i] = <<o, 0 + i>> /\ 0 + i = i
        BY <2>3, BytesLen DEF InARow
      <4> QED BY <4>1
    <3> QED BY <3>1, <3>2
  <2>4. CASE Listed(o)
    <3> DEFINE waiting == slot[stream[o].fd].bytes
    <3>1. /\ waiting \in AnyBytes /\ k + Len(waiting) = taken[o] /\ InARow(waiting, o, k)
      BY <2>1, <2>4 DEF InOrder
    <3> HIDE DEF waiting
    <3>2. InARow(waiting, o, 0 + Len(got[o]))
      BY <2>1, <3>1
    <3>3. /\ InARow(got[o] \o waiting, o, 0) /\ got[o] \o waiting \in AnyBytes
          /\ Len(got[o] \o waiting) = taken[o]
      BY <2>1, <2>2, <3>1, <3>2, Joins, JoinsInARow
    <3>4. got[o] \o waiting = meant
      BY <2>3, <3>3
    <3> QED BY <2>4, <3>4 DEF waiting
  <2>5. CASE ~Listed(o)
    <3>1. got[o] = [i \in 1..k |-> <<o, i>>]
      BY <2>1, <2>2, <2>3
    <3>2. SubSeq(meant, 1, k) = [i \in 1..k |-> <<o, i>>]
      BY <2>1, <2>2
    <3> QED BY <2>5, <3>1, <3>2
  <2> QED BY <2>4, <2>5
<1>3. OwnBytes
  BY <1>2 DEF OwnBytes
<1> QED BY <1>1, <1>3 DEF SharedInv, SharedSound

(* Every block of v1's pool is free, in a slot or on its way back, the     *)
(* peer of a stream gets what put() took for it, once and in order, and    *)
(* bytes that wait have their socket armed, or a thread that is to arm it: *)
(* whatever the threads, the numbers, the block size, the pool and the     *)
(* quota.                                                                  *)
THEOREM SharedBuffersSound == SharedInit /\ [][SharedNext]_shared_vars => []SharedSound
<1>1. SharedInit => SharedInv
  BY SharedInvInit
<1>2. SharedInv /\ [SharedNext]_shared_vars => SharedInv'
  BY SharedInvNext
<1>3. SharedInv => SharedSound
  BY SharedInvSound
<1> QED BY <1>1, <1>2, <1>3, PTL

-----------------------------------------------------------------------------
(* masterd: its INI file, as it is read and saved. *)

(* Words, and what can be set: a pid as well. *)
Words == STRING \union {"_", "uid", "gid", "pid"}
Values == Words \union Nat

(* What masterd.c sets, and the name of the first section. *)
LEMMA WordsAre ==
  /\ STRING \subseteq Words /\ "_" \in Words
  /\ "uid" \in Words /\ "gid" \in Words /\ "pid" \in Words
BY Zenon DEF Words

Pair(V) == [key : Words, value : V]
Sectioned(V) == [name : Seq(Words), options : Seq(Pair(V))]

Keyed(options) ==
  \A i, j \in 1..Len(options) : options[i].key = options[j].key => i = j

Distinguished(ini) ==
  \A i, j \in 1..Len(ini) : ini[i].name = ini[j].name => i = j

(* What ini_open() makes of a file, and the master of that. *)
IniGood(V, ini) ==
  /\ ini \in Seq(Sectioned(V))
  /\ Distinguished(ini)
  /\ \A i \in 1..Len(ini) :
       /\ Len(ini[i].name) >= 1 /\ Len(ini[i].options) >= 1 /\ Keyed(ini[i].options)
       /\ \A j \in 1..Len(ini) : i < j => Len(ini[i].name) <= Len(ini[j].name)

(* The first section that has the name. *)
LEMMA LookupSectionIs ==
  ASSUME NEW S, NEW ini \in Seq(S), NEW name
  PROVE  /\ LookupSection(ini, name) \in 0..Len(ini)
         /\ LookupSection(ini, name) = 0 <=> \A i \in 1..Len(ini) : ini[i].name # name
         /\ LookupSection(ini, name) # 0 => ini[LookupSection(ini, name)].name = name
<1> DEFINE I == {i \in 1..Len(ini) : ini[i].name = name}
<1>1. LookupSection(ini, name) = IF I # {} THEN Min(I) ELSE 0
  BY DEF LookupSection, SelectInSeq
<1>2. Len(ini) \in Nat
  OBVIOUS
<1>3. CASE I = {}
  BY <1>1, <1>2, <1>3
<1>4. CASE I # {}
  <2>1. I \subseteq Nat
    BY <1>2
  <2>2. \E x \in I : \A y \in I : x <= y
    <3> HIDE DEF I
    <3> QED BY <1>4, <2>1, LeastNumber
  <2>3. Min(I) \in I
    <3> HIDE DEF I
    <3> QED BY <2>2 DEF Min
  <2>4. LookupSection(ini, name) \in I
    BY <1>1, <1>4, <2>3
  <2> QED BY <1>2, <2>4
<1> QED
  BY <1>3, <1>4

(* The first option that has the key. *)
FindKey(options, key) == SelectInSeq(options, LAMBDA option : option.key = key)

(* It is the place of an option with the key, if there is one. *)
LEMMA FindKeyIs ==
  ASSUME NEW S, NEW options \in Seq(S), NEW key
  PROVE  /\ FindKey(options, key) \in 0..Len(options)
         /\ FindKey(options, key) = 0 <=> \A i \in 1..Len(options) : options[i].key # key
         /\ FindKey(options, key) # 0 => options[FindKey(options, key)].key = key
<1> DEFINE I == {i \in 1..Len(options) : options[i].key = key}
<1>1. FindKey(options, key) = IF I # {} THEN Min(I) ELSE 0
  BY DEF FindKey, SelectInSeq
<1>2. Len(options) \in Nat
  OBVIOUS
<1>3. CASE I = {}
  BY <1>1, <1>2, <1>3
<1>4. CASE I # {}
  <2>1. I \subseteq Nat
    BY <1>2
  <2>2. \E x \in I : \A y \in I : x <= y
    <3> HIDE DEF I
    <3> QED BY <1>4, <2>1, LeastNumber
  <2>3. Min(I) \in I
    <3> HIDE DEF I
    <3> QED BY <2>2 DEF Min
  <2>4. FindKey(options, key) \in I
    BY <1>1, <1>4, <2>3
  <2> QED BY <1>2, <2>4
<1> QED
  BY <1>3, <1>4

(* What setting a key makes of a section's options. *)
SetKey(options, key, value) ==
  IF FindKey(options, key) = 0 THEN Append(options, Option(key, value))
  ELSE [options EXCEPT ![FindKey(options, key)] = Option(key, value)]

(* The key is there once, with its value, and the others are as they were. *)
LEMMA SetKeyIs ==
  ASSUME NEW V, NEW options \in Seq(Pair(V)), Keyed(options), NEW key \in Words, NEW value \in V
  PROVE  /\ SetKey(options, key, value) \in Seq(Pair(V))
         /\ Len(SetKey(options, key, value)) >= 1
         /\ Keyed(SetKey(options, key, value))
         /\ FindKey(SetKey(options, key, value), key) # 0
         /\ SetKey(options, key, value)[FindKey(SetKey(options, key, value), key)].value = value
<1> DEFINE o == FindKey(options, key)
           new == Option(key, value)
           n == Len(options)
           r == SetKey(options, key, value)
<1>1. /\ o \in 0..n
      /\ o = 0 <=> \A i \in 1..n : options[i].key # key
      /\ o # 0 => options[o].key = key
  BY FindKeyIs
<1>2. new \in Pair(V) /\ new.key = key /\ new.value = value
  BY DEF Option, Pair
<1>3. n \in Nat
  OBVIOUS
<1>4. r = IF o = 0 THEN Append(options, new) ELSE [options EXCEPT ![o] = new]
  BY DEF SetKey
<1>5. \A i \in 1..n : options[i] \in Pair(V)
  OBVIOUS
<1> HIDE DEF o, new, n
(* Wherever the key is set, it is set there only. *)
<1>6. \E m \in Nat : \E p \in 1..m :
        /\ r \in Seq(Pair(V)) /\ Len(r) = m /\ r[p] = new
        /\ \A i \in 1..m : i # p => r[i].key # key
        /\ Keyed(r)
  <2>1. CASE o = 0
    <3>1. r = Append(options, new)
      BY <1>4, <2>1
    <3> HIDE DEF r
    <3>2. /\ r \in Seq(Pair(V)) /\ Len(r) = n + 1 /\ r[n + 1] = new
          /\ \A i \in 1..n : r[i] = options[i]
      BY <1>2, <3>1 DEF n
    <3>3. n + 1 \in Nat /\ n + 1 \in 1..n + 1 /\ \A i \in 1..n + 1 : i # n + 1 => i \in 1..n
      BY <1>3
    <3>4. \A i \in 1..n + 1 : i # n + 1 => r[i].key # key
      BY <1>1, <2>1, <3>2, <3>3
    <3>5. Keyed(r)
      <4> SUFFICES ASSUME NEW i \in 1..n + 1, NEW j \in 1..n + 1, r[i].key = r[j].key
                   PROVE  i = j
        BY <3>2 DEF Keyed
      <4>1. CASE i \in 1..n /\ j \in 1..n
        BY <3>2, <4>1 DEF Keyed, n
      <4>2. CASE i = n + 1 \/ j = n + 1
        BY <1>2, <3>2, <3>4, <4>2
      <4> QED BY <3>3, <4>1, <4>2
    <3> QED BY <3>2, <3>3, <3>4, <3>5
  <2>2. CASE o # 0
    <3>1. r = [options EXCEPT ![o] = new] /\ o \in 1..n /\ options[o].key = key
      BY <1>1, <1>3, <1>4, <2>2
    <3> HIDE DEF r
    <3>2. /\ r \in Seq(Pair(V)) /\ Len(r) = n /\ r[o] = new
          /\ \A i \in 1..n : i # o => r[i] = options[i]
      BY <1>2, <3>1 DEF n
    <3>3. \A i \in 1..n : i # o => r[i].key # key
      BY <3>1, <3>2 DEF Keyed, n
    <3>4. \A i \in 1..n : r[i].key = options[i].key
      BY <1>2, <3>1, <3>2
    <3>5. Keyed(r)
      BY <3>2, <3>4 DEF Keyed, n
    <3> QED BY <1>3, <3>1, <3>2, <3>3, <3>5
  <2> QED BY <2>1, <2>2
<1> HIDE DEF r
<1>7. PICK m \in Nat : \E p \in 1..m :
        /\ r \in Seq(Pair(V)) /\ Len(r) = m /\ r[p] = new
        /\ \A i \in 1..m : i # p => r[i].key # key
        /\ Keyed(r)
  BY <1>6
<1>p. PICK p \in 1..m :
        /\ r \in Seq(Pair(V)) /\ Len(r) = m /\ r[p] = new
        /\ \A i \in 1..m : i # p => r[i].key # key
        /\ Keyed(r)
  BY <1>7
<1>8. /\ FindKey(r, key) \in 0..m
      /\ FindKey(r, key) = 0 <=> \A i \in 1..m : r[i].key # key
      /\ FindKey(r, key) # 0 => r[FindKey(r, key)].key = key
  BY <1>p, FindKeyIs
<1>9. FindKey(r, key) = p
  BY <1>2, <1>p, <1>8
<1>10. p # 0 /\ m >= 1
  BY <1>p
<1> QED
  BY <1>2, <1>p, <1>9, <1>10 DEF r

(* A section has the key, with the value. *)
Gives(options, key, value) ==
  \E i \in 1..Len(options) : options[i].key = key /\ options[i].value = value

Has(options, key) == \E i \in 1..Len(options) : options[i].key = key

(* The section that ini[s] is after the key is set in it. *)
SetIn(section, key, value) ==
  [name |-> section.name, options |-> SetKey(section.options, key, value)]

(* A section of sections that differ in their names is found by its name. *)
LEMMA LookupAt ==
  ASSUME NEW V, NEW ini \in Seq(Sectioned(V)), Distinguished(ini), NEW s \in 1..Len(ini)
  PROVE  LookupSection(ini, ini[s].name) = s
<1> DEFINE name == ini[s].name
           l == LookupSection(ini, name)
<1>1. /\ l \in 0..Len(ini)
      /\ l = 0 <=> \A i \in 1..Len(ini) : ini[i].name # name
      /\ l # 0 => ini[l].name = name
  BY LookupSectionIs
<1> HIDE DEF l
<1>2. l \in 1..Len(ini) /\ ini[l].name = name
  BY <1>1
<1> QED
  BY <1>2 DEF Distinguished, l

(* ini_set() in a section that there is. *)
LEMMA IniSetAt ==
  ASSUME NEW V, NEW ini \in Seq(Sectioned(V)), Distinguished(ini), NEW s \in 1..Len(ini),
         NEW key \in Words, NEW value \in V
  PROVE  IniSet(ini, ini[s].name, key, value) = [ini EXCEPT ![s] = SetIn(ini[s], key, value)]
<1> DEFINE o == FindKey(ini[s].options, key)
           x == ini[s]
<1>1. LookupSection(ini, ini[s].name) = s /\ s # 0
  BY LookupAt
<1>2. LookupOption(ini[s], key) = o
  BY DEF LookupOption, FindKey
<1>3. IniSet(ini, ini[s].name, key, value) =
        IF o = 0 THEN [ini EXCEPT ![s].options = Append(@, Option(key, value))]
        ELSE [ini EXCEPT ![s].options[o].value = value]
  BY <1>1, <1>2 DEF IniSet
<1>4. x = [name |-> x.name, options |-> x.options] /\ x.options \in Seq(Pair(V))
  <2>1. x \in Sectioned(V)
    OBVIOUS
  <2> HIDE DEF x
  <2> QED BY <2>1 DEF Sectioned
<1>u. ASSUME NEW u PROVE [x EXCEPT !.options = u] = [name |-> x.name, options |-> u]
  <2> HIDE DEF x
  <2>1. PICK n, q : x = [name |-> n, options |-> q]
    BY <1>4
  <2>2. [x EXCEPT !.options = u] = [name |-> n, options |-> u]
    BY <2>1
  <2> QED BY <2>1, <2>2
<1>k. SetKey(x.options, key, value) =
        IF o = 0 THEN Append(x.options, Option(key, value))
        ELSE [x.options EXCEPT ![o] = Option(key, value)]
  BY DEF SetKey
<1>5. o \in 0..Len(x.options) /\ (o # 0 => x.options[o].key = key)
  <2>1. x.options \in Seq(Pair(V))
    BY <1>4
  <2> QED BY <2>1, FindKeyIs
<1> HIDE DEF o, x
<1>6. CASE o = 0
  <2>1. SetIn(x, key, value) = [x EXCEPT !.options = Append(@, Option(key, value))]
    <3>1. SetKey(x.options, key, value) = Append(x.options, Option(key, value))
      BY <1>6, <1>k
    <3> QED BY <1>u, <3>1 DEF SetIn
  <2>2. IniSet(ini, ini[s].name, key, value) = [ini EXCEPT ![s] = [x EXCEPT !.options = Append(@, Option(key, value))]]
    BY <1>3, <1>6 DEF x
  <2> QED BY <2>1, <2>2 DEF x
<1>7. CASE o # 0
  <2>1. o \in 1..Len(x.options)
    BY <1>4, <1>5, <1>7
  <2>2. x.options[o] \in Pair(V)
    BY <1>4, <2>1
  <2>3. x.options[o] = [key |-> key, value |-> x.options[o].value]
    BY <1>5, <1>7, <2>2 DEF Pair
  <2>4. [x.options[o] EXCEPT !.value = value] = Option(key, value)
    BY <2>3 DEF Option
  <2>5. SetIn(x, key, value) = [x EXCEPT !.options = [x.options EXCEPT ![o] = Option(key, value)]]
    <3>1. SetKey(x.options, key, value) = [x.options EXCEPT ![o] = Option(key, value)]
      BY <1>7, <1>k
    <3> QED BY <1>u, <3>1 DEF SetIn
  <2>6. IniSet(ini, ini[s].name, key, value) =
          [ini EXCEPT ![s] = [x EXCEPT !.options = [x.options EXCEPT ![o] = [x.options[o] EXCEPT !.value = value]]]]
    BY <1>3, <1>7 DEF x
  <2> QED BY <2>4, <2>5, <2>6 DEF x
<1> QED
  BY <1>6, <1>7

(* And where there is none of the name. *)
LEMMA IniSetNew ==
  ASSUME NEW S, NEW ini \in Seq(S), NEW name, NEW key, NEW value,
         \A i \in 1..Len(ini) : ini[i].name # name
  PROVE  IniSet(ini, name, key, value) =
           Append(ini, [name |-> name, options |-> <<Option(key, value)>>])
<1>1. LookupSection(ini, name) = 0
  BY LookupSectionIs
<1> QED
  BY <1>1 DEF IniSet

(* ini_geti() in a section that there is. *)
LEMMA IniGetAt ==
  ASSUME NEW V, NEW ini \in Seq(Sectioned(V)), Distinguished(ini), NEW s \in 1..Len(ini),
         Keyed(ini[s].options), NEW key
  PROVE  /\ \A value : Gives(ini[s].options, key, value) => IniGet(ini, ini[s].name, key, 0) = value
         /\ ReadsNothing(ini, ini[s].name, key) <=> ~Has(ini[s].options, key)
<1> DEFINE options == ini[s].options
           o == FindKey(options, key)
<1>1. LookupSection(ini, ini[s].name) = s /\ s # 0
  BY LookupAt
<1>2. LookupOption(ini[s], key) = o
  BY DEF LookupOption, FindKey
<1>3. /\ IniGet(ini, ini[s].name, key, 0) = IF o = 0 THEN 0 ELSE options[o].value
      /\ ReadsNothing(ini, ini[s].name, key) <=> o = 0
  BY <1>1, <1>2 DEF IniGet, ReadsNothing
<1>4. options \in Seq(Pair(V))
  <2>1. ini[s] \in Sectioned(V)
    OBVIOUS
  <2> QED BY <2>1 DEF Sectioned
<1>5. /\ o \in 0..Len(options)
      /\ o = 0 <=> \A i \in 1..Len(options) : options[i].key # key
      /\ o # 0 => options[o].key = key
  BY <1>4, FindKeyIs
<1>6. Keyed(options)
  OBVIOUS
<1> HIDE DEF o, options
<1>7. ASSUME NEW value, Gives(options, key, value)
      PROVE  IniGet(ini, ini[s].name, key, 0) = value
  <2>1. PICK i \in 1..Len(options) : options[i].key = key /\ options[i].value = value
    BY <1>7 DEF Gives
  <2>2. o \in 1..Len(options) /\ options[o].key = key
    BY <1>4, <1>5, <2>1
  <2>3. o = i
    BY <1>6, <2>1, <2>2 DEF Keyed
  <2> QED BY <1>3, <2>1, <2>2, <2>3
<1>8. o = 0 <=> ~Has(options, key)
  BY <1>5 DEF Has
<1> QED
  BY <1>3, <1>7, <1>8 DEF options

(* A sound image r, which is ini but for an option of section s. *)
OptionSet(V, ini, s, key, value, r) ==
  /\ IniGood(V, r) /\ Len(r) = Len(ini)
  /\ \A i \in 1..Len(ini) : r[i].name = ini[i].name /\ (i # s => r[i] = ini[i])
  /\ Gives(r[s].options, key, value)

(* Setting a key of a sound image leaves it sound, with its sections; the  *)
(* others have what they had.                                              *)
LEMMA SetInIs ==
  ASSUME NEW V, NEW ini, IniGood(V, ini), NEW s \in 1..Len(ini),
         NEW key \in Words, NEW value \in V, NEW r,
         r = [ini EXCEPT ![s] = SetIn(ini[s], key, value)]
  PROVE  OptionSet(V, ini, s, key, value, r)
<1> DEFINE x == ini[s]
           y == SetIn(x, key, value)
           n == Len(ini)
           q == SetKey(x.options, key, value)
<1>1. ini \in Seq(Sectioned(V)) /\ n \in Nat
  BY DEF IniGood
<1>2. /\ x \in Sectioned(V) /\ Keyed(x.options) /\ x.options \in Seq(Pair(V))
      /\ x.name \in Seq(Words)
  <2>1. x \in Sectioned(V)
    BY <1>1
  <2>2. x.options \in Seq(Pair(V)) /\ x.name \in Seq(Words)
    <3> HIDE DEF x
    <3> QED BY <2>1 DEF Sectioned
  <2> QED BY <2>1, <2>2 DEF IniGood
<1> HIDE DEF x
<1>3. /\ q \in Seq(Pair(V)) /\ Len(q) >= 1 /\ Keyed(q)
      /\ FindKey(q, key) # 0 /\ q[FindKey(q, key)].value = value
  BY <1>2, SetKeyIs
<1> HIDE DEF q
<1>4. y = [name |-> x.name, options |-> q]
  BY DEF SetIn, q
<1>5. y \in Sectioned(V) /\ y.name = x.name /\ y.options = q
  BY <1>2, <1>3, <1>4 DEF Sectioned
<1> HIDE DEF y
<1>6. r = [ini EXCEPT ![s] = y]
  BY DEF x, y
<1>7. /\ r \in Seq(Sectioned(V)) /\ Len(r) = n /\ r[s] = y
      /\ \A i \in 1..n : i # s => r[i] = ini[i]
  BY <1>1, <1>5, <1>6
<1>8. \A i \in 1..n : r[i].name = ini[i].name
  BY <1>5, <1>7 DEF x
<1>9. \A i \in 1..n : Len(r[i].options) >= 1 /\ Keyed(r[i].options)
  BY <1>3, <1>5, <1>7 DEF IniGood
<1>10. IniGood(V, r)
  <2>1. Distinguished(r)
    BY <1>7, <1>8 DEF IniGood, Distinguished
  <2>2. \A i \in 1..n : /\ Len(r[i].name) >= 1
                        /\ \A j \in 1..n : i < j => Len(r[i].name) <= Len(r[j].name)
    BY <1>8 DEF IniGood
  <2> QED BY <1>7, <1>9, <2>1, <2>2 DEF IniGood
<1>11. Gives(r[s].options, key, value)
  <2>1. /\ FindKey(q, key) \in 0..Len(q)
        /\ FindKey(q, key) # 0 => q[FindKey(q, key)].key = key
    BY <1>3, FindKeyIs
  <2>2. FindKey(q, key) \in 1..Len(q)
    BY <1>3, <2>1
  <2> QED BY <1>3, <1>5, <1>7, <2>1, <2>2 DEF Gives
<1> QED
  BY <1>7, <1>8, <1>10, <1>11 DEF OptionSet

(* ini_set() for a section of a sound image. *)
LEMMA IniSetIs ==
  ASSUME NEW V, NEW ini, IniGood(V, ini), NEW s \in 1..Len(ini),
         NEW key \in Words, NEW value \in V, NEW r,
         r = IniSet(ini, ini[s].name, key, value)
  PROVE  OptionSet(V, ini, s, key, value, r)
<1>1. ini \in Seq(Sectioned(V)) /\ Distinguished(ini)
  BY DEF IniGood
<1>2. r = [ini EXCEPT ![s] = SetIn(ini[s], key, value)]
  BY <1>1, IniSetAt
<1> QED
  BY <1>2, SetInIs

(* A header is as long as its name, or as the one before. *)
LEMMA RenameIs ==
  ASSUME NEW section \in Seq(Words), NEW name \in Seq(Words)
  PROVE  /\ Rename(section, name) \in Seq(Words)
         /\ Len(Rename(section, name)) >= Len(section)
         /\ Len(section) <= Len(name) => Rename(section, name) = name
<1> DEFINE n == Len(name)
           k == Len(section)
           t == SubSeq(section, n + 1, k)
<1>1. n \in Nat /\ k \in Nat
  OBVIOUS
<1>2. t \in Seq(Words)
  <2>1. \A i \in n + 1..k : section[i] \in Words
    BY <1>1
  <2> QED BY <1>1, <2>1
<1>3. Len(t) = IF n + 1 <= k THEN k - n ELSE 0
  BY <1>1
<1>4. Rename(section, name) = name \o t
  BY DEF Rename
<1> HIDE DEF t
<1>5. name \o t \in Seq(Words) /\ Len(name \o t) = n + Len(t)
  BY <1>2
<1>6. ASSUME k <= n PROVE name \o t = name
  <2>1. Len(t) = 0
    BY <1>1, <1>3, <1>6
  <2>2. t = <<>>
    BY <1>2, <2>1
  <2> QED BY <2>2
<1> HIDE DEF n, k
<1>7. n + Len(t) >= k
  BY <1>1, <1>3
<1> QED
  BY <1>4, <1>5, <1>6, <1>7 DEF n, k

(* What ini_open() has after some lines: an image, and the header's name.   *)
StateGood(V, state) ==
  /\ state = [ini |-> state.ini, section |-> state.section]
  /\ IniGood(V, state.ini)
  /\ state.section \in Seq(Words) /\ Len(state.section) >= 1
  /\ \A i \in 1..Len(state.ini) : Len(state.ini[i].name) <= Len(state.section)

(* No section of the image has the name, and none a longer one. *)
Longest(ini, name) ==
  \A i \in 1..Len(ini) : ini[i].name # name /\ Len(ini[i].name) <= Len(name)

(* An image with one section more, of one option. *)
WithSection(ini, name, key, value) ==
  Append(ini, [name |-> name, options |-> <<Option(key, value)>>])

(* It is sound, if the new section's name is the longest. *)
LEMMA SectionAdded ==
  ASSUME NEW V, NEW ini, IniGood(V, ini), NEW name \in Seq(Words), Len(name) >= 1,
         Longest(ini, name), NEW key \in Words, NEW value \in V
  PROVE  /\ IniGood(V, WithSection(ini, name, key, value))
         /\ Len(WithSection(ini, name, key, value)) = Len(ini) + 1
         /\ WithSection(ini, name, key, value)[Len(ini) + 1].name = name
         /\ \A i \in 1..Len(ini) : WithSection(ini, name, key, value)[i] = ini[i]
<1> DEFINE n == Len(ini)
           q == <<Option(key, value)>>
           x == [name |-> name, options |-> q]
           r == WithSection(ini, name, key, value)
<1>1. ini \in Seq(Sectioned(V)) /\ n \in Nat
  BY DEF IniGood
<1>2. q \in Seq(Pair(V)) /\ Len(q) = 1
  <2>1. PICK w \in Pair(V) : w = Option(key, value)
    BY DEF Option, Pair
  <2>2. <<w>> \in Seq(Pair(V)) /\ Len(<<w>>) = 1
    OBVIOUS
  <2> QED BY <2>1, <2>2
<1>3. Keyed(q)
  BY <1>2 DEF Keyed
<1> HIDE DEF q
<1>4. x \in Sectioned(V) /\ x.name = name /\ x.options = q
  BY <1>2 DEF Sectioned
<1> HIDE DEF x
<1>5. r = Append(ini, x)
  BY DEF WithSection, x, q
<1> HIDE DEF r
<1>6. /\ r \in Seq(Sectioned(V)) /\ Len(r) = n + 1 /\ r[n + 1] = x
      /\ \A i \in 1..n : r[i] = ini[i]
  BY <1>1, <1>4, <1>5
<1>7. \A i \in 1..n + 1 : i \in 1..n \/ i = n + 1
  BY <1>1
<1>8. Distinguished(r)
  <2> SUFFICES ASSUME NEW i \in 1..n + 1, NEW j \in 1..n + 1, r[i].name = r[j].name
               PROVE  i = j
    BY <1>6 DEF Distinguished
  <2>1. CASE i \in 1..n /\ j \in 1..n
    BY <1>6, <2>1 DEF IniGood, Distinguished
  <2>2. CASE i = n + 1 \/ j = n + 1
    BY <1>4, <1>6, <1>7, <2>2 DEF Longest
  <2> QED BY <1>7, <2>1, <2>2
<1>9. ASSUME NEW i \in 1..n + 1
      PROVE  /\ Len(r[i].name) >= 1 /\ Len(r[i].options) >= 1 /\ Keyed(r[i].options)
             /\ \A j \in 1..n + 1 : i < j => Len(r[i].name) <= Len(r[j].name)
  <2>1. CASE i \in 1..n
    <3>1. /\ Len(r[i].name) >= 1 /\ Len(r[i].options) >= 1 /\ Keyed(r[i].options)
          /\ \A j \in 1..n : i < j => Len(r[i].name) <= Len(r[j].name)
      BY <1>6, <2>1 DEF IniGood
    <3>2. Len(r[i].name) <= Len(r[n + 1].name)
      BY <1>4, <1>6, <2>1 DEF Longest
    <3> QED BY <1>7, <3>1, <3>2
  <2>2. CASE i = n + 1
    <3>1. r[i] = x
      BY <1>6, <2>2
    <3>2. \A j \in 1..n + 1 : ~(i < j)
      BY <1>1, <2>2
    <3>3. Len(x.name) >= 1 /\ Keyed(x.options)
      BY <1>3, <1>4
    <3>4. Len(x.options) >= 1
      <4>1. Len(q) >= 1
        BY <1>2
      <4> QED BY <1>4, <4>1
    <3> QED BY <3>1, <3>2, <3>3, <3>4
  <2> QED BY <1>7, <2>1, <2>2
<1>10. IniGood(V, r)
  BY <1>6, <1>8, <1>9 DEF IniGood
<1> QED
  BY <1>4, <1>6, <1>10 DEF r

(* Every line leaves it so. *)
LEMMA ReadLineGood ==
  ASSUME NEW V, Words \subseteq V, NEW state, StateGood(V, state), NEW line \in Lines(Words)
  PROVE  StateGood(V, ReadLine(state, line))
<1> DEFINE ini == state.ini
           section == state.section
           r == ReadLine(state, line)
<1>1. /\ state = [ini |-> ini, section |-> section]
      /\ IniGood(V, ini) /\ section \in Seq(Words) /\ Len(section) >= 1
      /\ \A i \in 1..Len(ini) : Len(ini[i].name) <= Len(section)
  BY DEF StateGood
<1> HIDE DEF ini, section
<1>2. CASE line.type = "header"
  <2>1. line.name \in Seq(Words)
    BY <1>2 DEF Lines
  <2> DEFINE name == Rename(section, line.name)
  <2>2. name \in Seq(Words) /\ Len(name) >= Len(section)
    BY <1>1, <2>1, RenameIs
  <2>3. r = [state EXCEPT !.section = name]
    BY <1>2 DEF ReadLine, section
  <2> HIDE DEF name, r
  <2>4. r = [ini |-> ini, section |-> name]
    BY <1>1, <2>3
  <2>5. r.ini = ini /\ r.section = name
    BY <2>4
  <2>6. Len(name) >= 1 /\ \A i \in 1..Len(ini) : Len(ini[i].name) <= Len(name)
    <3> SUFFICES ASSUME NEW i \in 1..Len(ini) PROVE Len(name) >= 1 /\ Len(ini[i].name) <= Len(name)
      BY <1>1, <2>2
    <3>1. Len(ini[i].name) \in Nat
      <4>1. ini \in Seq(Sectioned(V))
        BY <1>1 DEF IniGood
      <4>2. ini[i] \in Sectioned(V)
        BY <4>1
      <4>3. ini[i].name \in Seq(Words)
        BY <4>2 DEF Sectioned
      <4> QED BY <4>3
    <3> QED BY <1>1, <2>2, <3>1
  <2>7. StateGood(V, r)
    BY <1>1, <2>2, <2>4, <2>5, <2>6 DEF StateGood
  <2> QED BY <2>7 DEF r
<1>3. CASE line.type # "header"
  <2>1. line.key \in Words /\ line.value \in Words
    BY <1>3 DEF Lines
  <2>k. PICK key \in Words, value \in V : key = line.key /\ value = line.value
    BY <2>1
  <2> DEFINE set == IniSet(ini, section, key, value)
  <2>2. r = [state EXCEPT !.ini = set]
    BY <1>3, <2>k DEF ReadLine, ini, section
  <2> HIDE DEF set, r
  <2>3. r = [ini |-> set, section |-> section]
    BY <1>1, <2>2
  <2>4. r.ini = set /\ r.section = section
    BY <2>3
  <2>5. IniGood(V, set) /\ \A i \in 1..Len(set) : Len(set[i].name) <= Len(section)
    <3>1. CASE \E s \in 1..Len(ini) : ini[s].name = section
      <4>1. PICK s \in 1..Len(ini) : ini[s].name = section
        BY <3>1
      <4>2. set = IniSet(ini, ini[s].name, key, value)
        BY <4>1 DEF set
      <4> HIDE DEF set
      <4>3. IniGood(V, set) /\ Len(set) = Len(ini) /\ \A i \in 1..Len(ini) : set[i].name = ini[i].name
        <5>1. IniGood(V, ini)
          BY <1>1
        <5>2. OptionSet(V, ini, s, key, value, set)
          BY <4>2, <5>1, IniSetIs
        <5> QED BY <5>2 DEF OptionSet
      <4> QED BY <1>1, <4>3
    <3>2. CASE \A s \in 1..Len(ini) : ini[s].name # section
      <4>1. ini \in Seq(Sectioned(V)) /\ Len(ini) \in Nat
        BY <1>1 DEF IniGood
      <4>2. set = WithSection(ini, section, key, value)
        BY <3>2, <4>1, IniSetNew DEF set, WithSection
      <4> HIDE DEF set
      <4>3. /\ IniGood(V, set) /\ Len(set) = Len(ini) + 1 /\ set[Len(ini) + 1].name = section
            /\ \A i \in 1..Len(ini) : set[i] = ini[i]
        <5>1. /\ IniGood(V, ini) /\ section \in Seq(Words) /\ Len(section) >= 1
              /\ Longest(ini, section)
          BY <1>1, <3>2 DEF Longest
        <5> QED BY <4>2, <5>1, SectionAdded
      <4>5. \A i \in 1..Len(ini) + 1 : i \in 1..Len(ini) \/ i = Len(ini) + 1
        BY <4>1
      <4>6. Len(section) <= Len(section)
        BY <1>1
      <4> QED BY <1>1, <4>3, <4>5, <4>6
    <3> QED BY <3>1, <3>2
  <2>6. StateGood(V, r)
    BY <1>1, <2>3, <2>4, <2>5 DEF StateGood
  <2> QED BY <2>6 DEF r
<1> QED
  BY <1>2, <1>3

(* What ini_open() has at first. *)
Unread == [ini |-> <<>>, section |-> <<"_">>]

(* ini_open()'s loop is defined. *)
LEMMA ReadExists ==
  ASSUME NEW lines, NEW k \in Nat
  PROVE  \E f : f = [n \in 0..k |-> IF n = 0 THEN Unread ELSE ReadLine(f[n - 1], lines[n])]
<1> DEFINE Made(j) == \E f : f = [n \in 0..j |-> IF n = 0 THEN Unread ELSE ReadLine(f[n - 1], lines[n])]
           bad == {j \in Nat : ~Made(j)}
<1>1. SUFFICES ASSUME bad # {} PROVE FALSE
  OBVIOUS
<1>2. PICK j \in bad : \A y \in bad : j <= y
  <2>1. bad \subseteq Nat
    OBVIOUS
  <2> HIDE DEF bad
  <2> QED BY <2>1, <1>1, LeastNumber
<1>3. j \in Nat /\ ~Made(j)
  BY <1>2
<1>4. Made(0)
  <2> DEFINE f == [n \in 0..0 |-> Unread]
  <2>1. f = [n \in 0..0 |-> IF n = 0 THEN Unread ELSE ReadLine(f[n - 1], lines[n])]
    OBVIOUS
  <2> HIDE DEF f
  <2> QED BY <2>1
<1>5. j - 1 \in Nat
  <2> HIDE DEF Made
  <2>1. j # 0
    BY <1>3, <1>4
  <2> QED BY <1>3, <2>1
<1>6. Made(j - 1)
  <2> HIDE DEF Made
  <2>1. j - 1 \notin bad
    <3>1. ~(j <= j - 1)
      BY <1>3
    <3> HIDE DEF bad
    <3> QED BY <1>2, <3>1
  <2> QED BY <1>5, <2>1
<1>7. PICK f : f = [n \in 0..j - 1 |-> IF n = 0 THEN Unread ELSE ReadLine(f[n - 1], lines[n])]
  BY <1>6
<1> DEFINE last == ReadLine(f[j - 1], lines[j])
           g == [n \in 0..j |-> IF n \in 0..j - 1 THEN f[n] ELSE last]
<1>8. g = [n \in 0..j |-> IF n = 0 THEN Unread ELSE ReadLine(g[n - 1], lines[n])]
  <2>1. ASSUME NEW n \in 0..j PROVE g[n] = IF n = 0 THEN Unread ELSE ReadLine(g[n - 1], lines[n])
    <3>1. CASE n \in 0..j - 1
      <4>1. f[n] = IF n = 0 THEN Unread ELSE ReadLine(f[n - 1], lines[n])
        BY <1>7, <3>1
      <4>2. g[n] = f[n] /\ (n # 0 => g[n - 1] = f[n - 1])
        BY <1>5, <3>1
      <4> QED BY <4>1, <4>2
    <3>2. CASE n = j
      <4>1. g[n] = last /\ g[n - 1] = f[n - 1] /\ n # 0
        BY <1>3, <1>5, <3>2
      <4> HIDE DEF g
      <4> QED BY <4>1, <3>2
    <3> QED BY <1>5, <3>1, <3>2
  <2>2. g = [n \in 0..j |-> g[n]]
    OBVIOUS
  <2> HIDE DEF g
  <2> QED BY <2>1, <2>2
<1> HIDE DEF g
<1>9. Made(j)
  BY <1>8
<1> QED
  BY <1>3, <1>9

(* The turns of its loop. *)
Turns(lines, read) ==
  /\ read[0] = Unread
  /\ \A n \in 1..Len(lines) : read[n] = ReadLine(read[n - 1], lines[n])
  /\ IniOpen(lines) = read[Len(lines)].ini

(* They are what the file is read by. *)
LEMMA IniOpenTurns ==
  ASSUME NEW S, NEW lines \in Seq(S)
  PROVE  \E read : Turns(lines, read)
<1> DEFINE k == Len(lines)
           f == CHOOSE f : f = [n \in 0..k |-> IF n = 0 THEN Unread ELSE ReadLine(f[n - 1], lines[n])]
<1>1. k \in Nat
  OBVIOUS
<1>2. IniOpen(lines) = f[k].ini
  BY DEF IniOpen, Unread
<1>3. f = [n \in 0..k |-> IF n = 0 THEN Unread ELSE ReadLine(f[n - 1], lines[n])]
  <2> HIDE DEF k
  <2> QED BY <1>1, ReadExists, Zenon
<1> HIDE DEF f
<1>4. f[0] = Unread /\ \A n \in 1..k : f[n] = ReadLine(f[n - 1], lines[n])
  <2> HIDE DEF k
  <2> QED BY <1>1, <1>3
<1> QED
  BY <1>2, <1>4 DEF Turns

(* Nothing is read: no sections. *)
LEMMA UnreadGood == \A V : StateGood(V, Unread)
<1> TAKE V
<1> DEFINE u == <<"_">>
<1>1. <<>> \in Seq(Sectioned(V)) /\ Len(<<>>) = 0
  OBVIOUS
<1>2. IniGood(V, <<>>)
  BY <1>1 DEF IniGood, Distinguished
<1>3. u \in Seq(Words) /\ Len(u) = 1
  <2>1. \A z \in Words : <<z>> \in Seq(Words) /\ Len(<<z>>) = 1
    OBVIOUS
  <2> QED BY <2>1, WordsAre, Zenon
<1>4. Unread = [ini |-> <<>>, section |-> u]
  BY Zenon DEF Unread
<1> HIDE DEF u
<1>5. Unread.ini = <<>> /\ Unread.section = u
  BY <1>4
<1>6. Unread = [ini |-> Unread.ini, section |-> Unread.section]
  BY <1>4, <1>5
<1>7. IniGood(V, Unread.ini)
  BY <1>2, <1>5
<1>8. Unread.section \in Seq(Words) /\ Len(Unread.section) >= 1
  BY <1>3, <1>5
<1>9. \A i \in 1..Len(Unread.ini) : Len(Unread.ini[i].name) <= Len(Unread.section)
  BY <1>1, <1>5
<1> QED
  BY <1>6, <1>7, <1>8, <1>9 DEF StateGood

(* Whatever the file, its image is sound. *)
LEMMA IniOpenGood ==
  ASSUME NEW V, Words \subseteq V, NEW lines \in Seq(Lines(Words))
  PROVE  IniGood(V, IniOpen(lines))
<1>1. PICK read : Turns(lines, read)
  BY IniOpenTurns
<1> DEFINE k == Len(lines)
           bad == {n \in 0..k : ~StateGood(V, read[n])}
<1>2. /\ k \in Nat /\ read[0] = Unread
      /\ \A n \in 1..k : read[n] = ReadLine(read[n - 1], lines[n]) /\ lines[n] \in Lines(Words)
      /\ IniOpen(lines) = read[k].ini
  BY <1>1 DEF Turns
<1> HIDE DEF k
<1>3. bad = {}
  <2> SUFFICES ASSUME bad # {} PROVE FALSE
    OBVIOUS
  <2>1. PICK n \in bad : \A y \in bad : n <= y
    <3>1. bad \subseteq Nat
      BY <1>2
    <3> HIDE DEF bad
    <3> QED BY <3>1, LeastNumber
  <2>2. n \in 0..k /\ ~StateGood(V, read[n])
    BY <2>1
  <2>3. n \in 1..k
    BY <1>2, <2>2, UnreadGood
  <2>4. n - 1 \in 0..k /\ ~(n <= n - 1)
    BY <1>2, <2>3
  <2>5. n - 1 \notin bad
    <3> HIDE DEF bad
    <3> QED BY <2>1, <2>4
  <2>6. StateGood(V, read[n - 1])
    BY <2>4, <2>5
  <2> QED BY <1>2, <2>2, <2>3, <2>6, ReadLineGood
<1>4. StateGood(V, read[k])
  BY <1>2, <1>3
<1> QED
  BY <1>2, <1>4 DEF StateGood

(* The lines that are saved: a header, and a setting for every option. *)
LEMMA SectionSaveIs ==
  ASSUME NEW V, NEW section \in Sectioned(V)
  PROVE  /\ \E S : SectionSave(section) \in Seq(S)
         /\ Len(SectionSave(section)) = Len(section.options) + 1
         /\ SectionSave(section)[1] = Header(section.name)
         /\ \A o \in 1..Len(section.options) :
              SectionSave(section)[o + 1] =
                Setting(section.options[o].key, section.options[o].value)
<1> DEFINE h == Header(section.name)
           n == Len(section.options)
           Line(i) == Setting(section.options[i].key, section.options[i].value)
           q == [i \in 1..n |-> Line(i)]
           S == {h} \union {Line(i) : i \in 1..n}
<1>1. section.options \in Seq(Pair(V))
  BY DEF Sectioned
<1>2. n \in Nat /\ DOMAIN section.options = 1..n
  BY <1>1
<1>3. SectionSave(section) = <<h>> \o q
  BY <1>2 DEF SectionSave
<1> HIDE DEF h, Line, n
<1>4. <<h>> \in Seq(S) /\ q \in Seq(S)
  BY <1>2
<1>5. Len(q) = n /\ \A i \in 1..n : q[i] = Line(i)
  BY <1>2
<1>6. Len(<<h>>) = 1 /\ <<h>>[1] = h
  OBVIOUS
<1> HIDE DEF q, S
<1>7. <<h>> \o q \in Seq(S) /\ Len(<<h>> \o q) = Len(<<h>>) + Len(q)
  BY <1>4
<1>8. /\ \A i \in 1..Len(<<h>>) : (<<h>> \o q)[i] = <<h>>[i]
      /\ \A i \in 1..Len(q) : (<<h>> \o q)[Len(<<h>>) + i] = q[i]
  BY <1>4, ConcatElements
<1>9. (<<h>> \o q)[1] = h
  BY <1>6, <1>8
<1>10. \A i \in 1..n : (<<h>> \o q)[i + 1] = Line(i)
  <2> TAKE i \in 1..n
  <2>1. (<<h>> \o q)[Len(<<h>>) + i] = q[i]
    BY <1>5, <1>8
  <2>2. Len(<<h>>) + i = i + 1
    BY <1>2, <1>6
  <2> QED BY <1>5, <2>1, <2>2
<1>11. Len(<<h>> \o q) = n + 1
  BY <1>2, <1>5, <1>6, <1>7
<1> QED
  BY <1>3, <1>7, <1>9, <1>10, <1>11 DEF h, Line, n

(* Of the l-th section of an image the header and o options have been read. *)
HasRead(state, ini, l, o) ==
  /\ state = [ini |-> state.ini, section |-> ini[l].name]
  /\ \E S : state.ini \in Seq(S)
  /\ Len(state.ini) = IF o = 0 THEN l - 1 ELSE l
  /\ \A i \in 1..l - 1 : state.ini[i] = ini[i]
  /\ o # 0 => state.ini[l] = [name |-> ini[l].name, options |-> SubSeq(ini[l].options, 1, o)]

(* An option that follows is read. *)
LEMMA OptionRead ==
  ASSUME NEW V, NEW ini, IniGood(V, ini), NEW l \in 1..Len(ini), NEW o \in 0..Len(ini[l].options) - 1,
         NEW state, HasRead(state, ini, l, o)
  PROVE  HasRead(ReadLine(state, Setting(ini[l].options[o + 1].key, ini[l].options[o + 1].value)),
               ini, l, o + 1)
<1> DEFINE x == ini[l]
           options == x.options
           name == x.name
           key == options[o + 1].key
           value == options[o + 1].value
           r == ReadLine(state, Setting(key, value))
           t == state.ini
           n == Len(options)
<1>1. /\ ini \in Seq(Sectioned(V)) /\ Distinguished(ini) /\ x \in Sectioned(V) /\ Keyed(options)
  <2>1. ini \in Seq(Sectioned(V)) /\ Distinguished(ini) /\ Keyed(options)
    BY DEF IniGood
  <2> QED BY <2>1
<1>2. options \in Seq(Pair(V)) /\ x = [name |-> name, options |-> options]
  <2> HIDE DEF x
  <2> QED BY <1>1 DEF Sectioned
<1>3. n \in Nat /\ o \in Nat /\ o + 1 \in 1..n /\ o < n /\ l \in 1..Len(ini) /\ Len(ini) \in Nat
  BY <1>1, <1>2
<1>4. options[o + 1] = Option(key, value)
  <2>1. options[o + 1] \in Pair(V)
    BY <1>2, <1>3
  <2> QED BY <2>1 DEF Pair, Option
<1>5. /\ state = [ini |-> t, section |-> name]
      /\ Len(t) = IF o = 0 THEN l - 1 ELSE l
      /\ \A i \in 1..l - 1 : t[i] = ini[i]
      /\ o # 0 => t[l] = [name |-> name, options |-> SubSeq(options, 1, o)]
  BY DEF HasRead
<1>6. PICK S : t \in Seq(S)
  BY DEF HasRead
<1> DEFINE set == IniSet(t, name, key, value)
<1>7. r = [ini |-> set, section |-> name]
  <2>1. state.section = name
    BY <1>5
  <2>2. r = [state EXCEPT !.ini = IniSet(@, state.section, key, value)]
    BY DEF ReadLine, Setting
  <2>3. r = [state EXCEPT !.ini = set]
    BY <2>1, <2>2
  <2>4. state = [ini |-> t, section |-> name]
    BY <1>5
  <2> HIDE DEF set, r, t, name
  <2> QED BY <2>3, <2>4, SMTT(30)
<1> DEFINE head == SubSeq(options, 1, o + 1)
           y == [name |-> name, options |-> head]
<1>8. ASSUME NEW i \in 1..l - 1
      PROVE  t[i].name # name
  <2>1. t[i] = ini[i]
    BY <1>5
  <2>2. i \in 1..Len(ini) /\ i # l
    BY <1>3
  <2> HIDE DEF options, t
  <2>3. ini[i].name # ini[l].name
    <3>1. Distinguished(ini)
      BY <1>1
    <3>2. l \in 1..Len(ini)
      OBVIOUS
    <3> QED BY <2>2, <3>1, <3>2 DEF Distinguished
  <2> QED BY <2>1, <2>3
<1>9. (\E T : set \in Seq(T)) /\ Len(set) = l /\ (\A i \in 1..l - 1 : set[i] = ini[i]) /\ set[l] = y
  <2>1. CASE o = 0
    <3> DEFINE z == [name |-> name, options |-> <<Option(key, value)>>]
    <3>1. \A i \in 1..Len(t) : t[i].name # name
      BY <1>5, <1>8, <2>1
    <3>2. set = Append(t, z)
      BY <1>6, <3>1, IniSetNew
    <3>3. head = <<options[1]>>
      <4>1. o + 1 = 1 /\ 1 \in 1..n
        BY <1>3, <2>1
      <4>2. head \in Seq(Pair(V)) /\ Len(head) = 1 /\ head[1] = options[1]
        BY <1>2, <1>3, <4>1
      <4> HIDE DEF head, options
      <4>3. head = [i \in 1..1 |-> options[1]]
        BY <4>2
      <4> QED BY <4>3
    <3>4. z = y
      BY <1>4, <2>1, <3>3
    <3> HIDE DEF z, set, y
    <3>5. z \in S \union {z} /\ t \in Seq(S \union {z})
      BY <1>6
    <3>6. Append(t, z) \in Seq(S \union {z}) /\ Len(Append(t, z)) = Len(t) + 1
      BY <3>5
    <3>7. Append(t, z)[Len(t) + 1] = z /\ \A i \in 1..Len(t) : Append(t, z)[i] = t[i]
      BY <3>5
    <3>8. Len(t) = l - 1 /\ Len(t) + 1 = l
      BY <1>3, <1>5, <2>1
    <3> QED BY <1>5, <3>2, <3>4, <3>6, <3>7, <3>8
  <2>2. CASE o # 0
    <3> DEFINE u == SubSeq(options, 1, o)
               w == [name |-> name, options |-> u]
    <3>1. Len(t) = l /\ t[l] = w
      BY <1>5, <2>2
    <3>2. u \in Seq(Pair(V)) /\ Len(u) = o /\ \A i \in 1..o : u[i] = options[i]
      BY <1>2, <1>3
    <3>3. w.name = name /\ w.options = u
      OBVIOUS
    <3> HIDE DEF u
    <3>4. LookupSection(t, name) = l /\ l # 0
      <4>1. /\ LookupSection(t, name) \in 0..Len(t)
            /\ LookupSection(t, name) = 0 <=> \A i \in 1..Len(t) : t[i].name # name
            /\ LookupSection(t, name) # 0 => t[LookupSection(t, name)].name = name
        BY <1>6, LookupSectionIs
      <4> QED BY <1>3, <1>8, <3>1, <3>3, <4>1
    <3>5. LookupOption(t[l], key) = 0
      <4>1. LookupOption(t[l], key) = FindKey(u, key)
        BY <3>1 DEF LookupOption, FindKey
      <4>2. \A i \in 1..o : u[i].key # key
        BY <1>1, <1>3, <3>2 DEF Keyed
      <4>3. FindKey(u, key) = 0
        BY <3>2, <4>2, FindKeyIs
      <4> QED BY <4>1, <4>3
    <3>6. set = [t EXCEPT ![l].options = Append(@, Option(key, value))]
      BY <3>4, <3>5 DEF IniSet
    <3>7. set = [t EXCEPT ![l] = [w EXCEPT !.options = Append(u, Option(key, value))]]
      BY <3>1, <3>3, <3>6
    <3>8. Append(u, Option(key, value)) = head
      BY <1>2, <1>3, <1>4 DEF u
    <3>9. [w EXCEPT !.options = head] = y
      <4> HIDE DEF name, head
      <4> QED OBVIOUS
    <3>10. set = [t EXCEPT ![l] = y]
      BY <3>7, <3>8, <3>9
    <3> HIDE DEF set, y, w
    <3>11. y \in S \union {y} /\ t \in Seq(S \union {y})
      BY <1>6
    <3>12. l \in 1..Len(t)
      BY <1>3, <3>1
    <3>13. /\ set \in Seq(S \union {y}) /\ Len(set) = Len(t) /\ set[l] = y
           /\ \A i \in 1..Len(t) : i # l => set[i] = t[i]
      BY <3>10, <3>11, <3>12
    <3>14. \A i \in 1..l - 1 : i \in 1..Len(t) /\ i # l
      BY <1>3, <3>1
    <3> QED BY <1>5, <3>1, <3>13, <3>14
  <2> QED BY <2>1, <2>2
<1> HIDE DEF set, r
<1>10. r.ini = set /\ r = [ini |-> r.ini, section |-> name]
  BY <1>7
<1>11. o + 1 # 0 /\ Len(r.ini) = IF o + 1 = 0 THEN l - 1 ELSE l
  BY <1>3, <1>9, <1>10
<1>12. HasRead(r, ini, l, o + 1)
  BY <1>9, <1>10, <1>11 DEF HasRead
<1> QED
  BY <1>12 DEF r

(* When all its options have been read the image has the section whole. *)
LEMMA SectionRead ==
  ASSUME NEW V, NEW ini, IniGood(V, ini), NEW l \in 1..Len(ini),
         NEW state, HasRead(state, ini, l, Len(ini[l].options))
  PROVE  /\ \E S : state.ini \in Seq(S)
         /\ Len(state.ini) = l /\ \A i \in 1..l : state.ini[i] = ini[i]
<1> DEFINE x == ini[l]
           options == x.options
           n == Len(options)
           head == SubSeq(options, 1, n)
<1>1. ini \in Seq(Sectioned(V)) /\ n >= 1 /\ Len(ini) \in Nat
  BY DEF IniGood
<1>2. x \in Sectioned(V)
  BY <1>1
<1>3. options \in Seq(Pair(V)) /\ x = [name |-> x.name, options |-> options]
  <2> HIDE DEF x
  <2> QED BY <1>2 DEF Sectioned
<1>4. n \in Nat /\ n # 0
  BY <1>1, <1>3
<1>5. /\ \E S : state.ini \in Seq(S)
      /\ Len(state.ini) = l
      /\ \A i \in 1..l - 1 : state.ini[i] = ini[i]
      /\ state.ini[l] = [name |-> x.name, options |-> head]
  BY <1>4 DEF HasRead
<1>6. head = options
  <2>1. head \in Seq(Pair(V)) /\ Len(head) = n /\ \A i \in 1..n : head[i] = options[i]
    BY <1>3, <1>4
  <2> HIDE DEF head, x
  <2> QED BY <1>3, <2>1
<1>7. state.ini[l] = x
  <2> HIDE DEF head, x
  <2> QED BY <1>3, <1>5, <1>6
<1>8. \A i \in 1..l : i \in 1..l - 1 \/ i = l
  BY <1>1
<1> QED
  BY <1>5, <1>7, <1>8

(* A header that follows is read, after sections or after none. *)
LEMMA HeaderRead ==
  ASSUME NEW V, NEW ini, IniGood(V, ini), NEW l \in 0..Len(ini) - 1, NEW state,
         l = 0 => state = Unread,
         l # 0 => HasRead(state, ini, l, Len(ini[l].options))
  PROVE  HasRead(ReadLine(state, Header(ini[l + 1].name)), ini, l + 1, 0)
<1> DEFINE name == ini[l + 1].name
           r == ReadLine(state, Header(name))
<1>1. ini \in Seq(Sectioned(V)) /\ Len(ini) \in Nat /\ l \in Nat /\ l + 1 \in 1..Len(ini)
  BY DEF IniGood
<1>2. ini[l + 1] \in Sectioned(V)
  BY <1>1
<1>3. name \in Seq(Words) /\ Len(name) >= 1
  BY <1>1, <1>2 DEF Sectioned, IniGood
<1> HIDE DEF name
<1>4. /\ state = [ini |-> state.ini, section |-> state.section]
      /\ state.section \in Seq(Words) /\ Len(state.section) <= Len(name)
      /\ \E S : state.ini \in Seq(S)
      /\ Len(state.ini) = l /\ \A i \in 1..l : state.ini[i] = ini[i]
  <2>1. CASE l = 0
    <3> DEFINE u == <<"_">>
    <3>1. u \in Seq(Words) /\ Len(u) = 1
      <4>1. \A z \in Words : <<z>> \in Seq(Words) /\ Len(<<z>>) = 1
        OBVIOUS
      <4> QED BY <4>1, WordsAre, Zenon
    <3>2. state = [ini |-> <<>>, section |-> u]
      BY <2>1, Zenon DEF Unread
    <3> HIDE DEF u
    <3>3. state.ini = <<>> /\ state.section = u
      BY <3>2
    <3>4. state = [ini |-> state.ini, section |-> state.section]
      BY <3>2, <3>3
    <3>5. <<>> \in Seq({}) /\ Len(<<>>) = 0 /\ \A i \in 1..0 : FALSE
      OBVIOUS
    <3>6. \E S : state.ini \in Seq(S)
      BY <3>3, <3>5
    <3> QED BY <1>3, <2>1, <3>1, <3>3, <3>4, <3>5, <3>6
  <2>2. CASE l # 0
    <3>1. l \in 1..Len(ini) /\ l < l + 1
      BY <1>1, <2>2
    <3>2. /\ \E S : state.ini \in Seq(S)
          /\ Len(state.ini) = l /\ \A i \in 1..l : state.ini[i] = ini[i]
      BY <2>2, <3>1, SectionRead
    <3>3. state = [ini |-> state.ini, section |-> ini[l].name]
      BY <2>2 DEF HasRead
    <3>4. state.section = ini[l].name
      BY <3>3
    <3>5. ini[l] \in Sectioned(V)
      BY <1>1, <3>1
    <3>6. ini[l].name \in Seq(Words)
      BY <3>5 DEF Sectioned
    <3>7. Len(ini[l].name) <= Len(name)
      BY <1>1, <3>1 DEF IniGood, name
    <3> QED BY <3>2, <3>3, <3>4, <3>6, <3>7
  <2> QED BY <2>1, <2>2
<1>5. Rename(state.section, name) = name
  BY <1>3, <1>4, RenameIs
<1>6. r = [state EXCEPT !.section = name]
  BY <1>5 DEF ReadLine, Header
<1> HIDE DEF r
<1>7. r = [ini |-> state.ini, section |-> name]
  BY <1>4, <1>6
<1>8. r.ini = state.ini /\ r = [ini |-> r.ini, section |-> name]
  BY <1>7
<1>9. (l + 1) - 1 = l
  BY <1>1
<1>10. HasRead(r, ini, l + 1, 0)
  BY <1>4, <1>8, <1>9 DEF HasRead, name
<1> QED
  BY <1>10 DEF r, name

(* What is saved of a sound image is read as it was. *)
LEMMA SavedImageIsRead ==
  ASSUME NEW V, NEW ini, IniGood(V, ini)
  PROVE  IniOpen(IniSave(ini)) = ini
<1> DEFINE k == Len(ini)
           lines == [l \in 1..k |-> SectionSave(ini[l])]
           Opts(l) == ini[l].options
<1>1. ini \in Seq(Sectioned(V)) /\ k \in Nat /\ DOMAIN ini = 1..k
  BY DEF IniGood
<1>2. \A l \in 1..k : ini[l] \in Sectioned(V)
  BY <1>1
<1>3. \A l \in 1..k : Opts(l) \in Seq(Pair(V)) /\ Len(Opts(l)) \in Nat
  <2> TAKE l \in 1..k
  <2>1. ini[l] \in Sectioned(V)
    BY <1>2
  <2>2. Opts(l) \in Seq(Pair(V))
    BY <2>1 DEF Sectioned
  <2> QED BY <2>2
<1>4. IniSave(ini) = FlattenSeq(lines)
  BY <1>1 DEF IniSave
<1>5. \E S : lines \in Seq(Seq(S))
  <2> DEFINE S == UNION {Range(SectionSave(ini[l])) : l \in 1..k}
  <2>1. ASSUME NEW l \in 1..k PROVE SectionSave(ini[l]) \in Seq(S)
    <3>1. PICK R : SectionSave(ini[l]) \in Seq(R)
      BY <1>2, SectionSaveIs
    <3> DEFINE q == SectionSave(ini[l])
    <3>2. Range(q) \subseteq S
      OBVIOUS
    <3> HIDE DEF q, S
    <3>3. \A i \in 1..Len(q) : q[i] \in Range(q)
      BY <3>1 DEF Range, q
    <3>4. q \in Seq(S)
      BY <3>1, <3>2, <3>3 DEF q
    <3> QED BY <3>4 DEF q
  <2> HIDE DEF S
  <2>2. lines \in [1..k -> Seq(S)]
    BY <2>1
  <2> HIDE DEF lines, k
  <2>3. lines \in Seq(Seq(S))
    BY <1>1, <2>2
  <2> QED BY <2>3
<1>6. /\ Len(lines) = k
      /\ \A l \in 1..k : lines[l] = SectionSave(ini[l])
  BY <1>1
<1>7. PICK S : lines \in Seq(Seq(S))
  BY <1>5
<1> DEFINE tokens == FlattenSeq(lines)
           N == Len(tokens)
<1> HIDE DEF lines
<1>8. tokens \in Seq(S) /\ \E e : LineEnds(lines, tokens, e)
  BY <1>7, FlatPlaces
<1>9. PICK e : LineEnds(lines, tokens, e)
  BY <1>8
<1>10. PICK read : Turns(tokens, read)
  BY <1>8, IniOpenTurns
<1> HIDE DEF tokens, k
<1>11. /\ N \in Nat /\ e[0] = 0 /\ e[k] = N
       /\ \A l \in 0..k : e[l] \in Nat
  <2>1. N \in Nat
    <3>1. tokens \in Seq(S)
      BY <1>8
    <3> QED BY <3>1
  <2>2. e[0] = 0 /\ e[k] = N /\ e \in [0..k -> Nat]
    BY <1>6, <1>9 DEF LineEnds
  <2> HIDE DEF N
  <2> QED BY <2>1, <2>2
<1>12. ASSUME NEW l \in 1..k
       PROVE  /\ e[l] = e[l - 1] + (Len(Opts(l)) + 1) /\ e[l] <= N
              /\ tokens[e[l - 1] + 1] = Header(ini[l].name)
              /\ \A o \in 1..Len(Opts(l)) :
                   tokens[e[l - 1] + (o + 1)] = Setting(Opts(l)[o].key, Opts(l)[o].value)
  <2> DEFINE q == lines[l]
             n == Len(Opts(l))
  <2>1. /\ Len(q) = n + 1 /\ q[1] = Header(ini[l].name)
        /\ \A o \in 1..n : q[o + 1] = Setting(Opts(l)[o].key, Opts(l)[o].value)
    BY <1>2, <1>6, SectionSaveIs
  <2>2. /\ e[l] = e[l - 1] + Len(q) /\ e[l] <= N
        /\ \A i \in 1..Len(q) : tokens[e[l - 1] + i] = q[i]
    BY <1>6, <1>9, <1>11 DEF LineEnds
  <2>3. n \in Nat
    BY <1>3
  <2> HIDE DEF q, n
  <2>4. 1 \in 1..n + 1 /\ \A o \in 1..n : o + 1 \in 1..n + 1
    BY <2>3
  <2> QED BY <2>1, <2>2, <2>4 DEF n
<1> DEFINE At(j) == \/ j = 0 /\ read[j] = Unread
                    \/ \E l \in 1..k : \E o \in 0..Len(Opts(l)) :
                         j = e[l - 1] + 1 + o /\ HasRead(read[j], ini, l, o)
           bad == {j \in 0..N : ~At(j)}
<1>13. At(0)
  BY <1>10 DEF Turns
<1>14. ASSUME NEW j \in 1..N, At(j - 1)
       PROVE  At(j)
  <2>1. read[j] = ReadLine(read[j - 1], tokens[j])
    BY <1>10 DEF Turns
  <2>j. j \in Nat /\ j - 1 \in Nat /\ j - 1 < N
    BY <1>11
  <2>2. CASE j - 1 = 0 /\ read[j - 1] = Unread
    <3>1. k # 0
      BY <1>11, <2>2, <2>j
    <3>2. 0 \in 0..k - 1 /\ 1 \in 1..k /\ j = 1
      BY <1>1, <2>2, <2>j, <3>1
    <3>3. tokens[j] = Header(ini[0 + 1].name)
      BY <1>11, <1>12, <3>2
    <3>4. HasRead(ReadLine(read[j - 1], Header(ini[0 + 1].name)), ini, 0 + 1, 0)
      BY <2>2, <3>2, HeaderRead DEF k
    <3>5. HasRead(read[j], ini, 1, 0)
      BY <2>1, <3>3, <3>4
    <3>6. 0 \in 0..Len(Opts(1)) /\ j = e[1 - 1] + 1 + 0
      BY <1>3, <1>11, <3>2
    <3> HIDE DEF Opts
    <3> QED BY <3>2, <3>5, <3>6
  <2>3. CASE \E l \in 1..k : \E o \in 0..Len(Opts(l)) :
               j - 1 = e[l - 1] + 1 + o /\ HasRead(read[j - 1], ini, l, o)
    <3>1. PICK l \in 1..k : \E o \in 0..Len(Opts(l)) :
               j - 1 = e[l - 1] + 1 + o /\ HasRead(read[j - 1], ini, l, o)
      BY <2>3
    <3>2. PICK o \in 0..Len(Opts(l)) : j - 1 = e[l - 1] + 1 + o /\ HasRead(read[j - 1], ini, l, o)
      BY <3>1
    <3> DEFINE n == Len(Opts(l))
               a == e[l - 1]
    <3>3. n \in Nat /\ o \in 0..n /\ a \in Nat /\ j - 1 = a + 1 + o /\ e[l] = a + (n + 1) /\ e[l] <= N
      <4>1. l - 1 \in 0..k
        BY <1>1
      <4> QED BY <1>3, <1>11, <1>12, <3>2, <4>1
    <3> HIDE DEF n, a
    <3>4. CASE o < n
      <4>1. o \in 0..n - 1 /\ o + 1 \in 1..n /\ j = a + ((o + 1) + 1) /\ j = a + 1 + (o + 1)
        BY <2>j, <3>3, <3>4
      <4> DEFINE line == Setting(Opts(l)[o + 1].key, Opts(l)[o + 1].value)
      <4>2. tokens[j] = line
        BY <1>12, <4>1 DEF n, a
      <4>3. HasRead(ReadLine(read[j - 1], line), ini, l, o + 1)
        BY <3>2, <4>1, OptionRead DEF n, k
      <4> HIDE DEF line
      <4>4. HasRead(read[j], ini, l, o + 1) /\ o + 1 \in 0..n
        BY <2>1, <3>3, <4>1, <4>2, <4>3
      <4> QED BY <4>1, <4>4 DEF n, a
    <3>5. CASE o = n
      <4>1. j - 1 = e[l] /\ j = e[l] + 1
        BY <2>j, <3>3, <3>5
      <4>2. l # k
        BY <1>11, <2>j, <4>1
      <4>3. l \in 0..k - 1 /\ l + 1 \in 1..k /\ (l + 1) - 1 = l /\ l # 0
        BY <1>1, <4>2
      <4>4. tokens[j] = Header(ini[l + 1].name)
        BY <1>12, <4>1, <4>3
      <4>5. HasRead(read[j - 1], ini, l, Len(ini[l].options))
        BY <3>2, <3>5 DEF n
      <4>6. HasRead(ReadLine(read[j - 1], Header(ini[l + 1].name)), ini, l + 1, 0)
        BY <4>3, <4>5, HeaderRead DEF k
      <4>7. HasRead(read[j], ini, l + 1, 0)
        BY <2>1, <4>4, <4>6
      <4>8. 0 \in 0..Len(Opts(l + 1)) /\ j = e[(l + 1) - 1] + 1 + 0
        BY <1>3, <2>j, <4>1, <4>3
      <4> HIDE DEF Opts
      <4> QED BY <4>3, <4>7, <4>8
    <3> QED BY <3>3, <3>4, <3>5
  <2> QED BY <1>14, <2>2, <2>3
<1>15. bad = {}
  <2> HIDE DEF At
  <2> SUFFICES ASSUME bad # {} PROVE FALSE
    OBVIOUS
  <2>1. PICK j \in bad : \A y \in bad : j <= y
    <3>1. bad \subseteq Nat
      BY <1>11
    <3> HIDE DEF bad
    <3> QED BY <3>1, LeastNumber
  <2>2. j \in 0..N /\ ~At(j)
    BY <2>1
  <2>3. j \in 1..N
    BY <1>11, <1>13, <2>2
  <2>4. j - 1 \in 0..N /\ ~(j <= j - 1)
    BY <1>11, <2>3
  <2>5. j - 1 \notin bad
    <3> HIDE DEF bad
    <3> QED BY <2>1, <2>4
  <2> QED BY <1>14, <2>2, <2>3, <2>4, <2>5
<1>16. At(N)
  <2> HIDE DEF At
  <2> QED BY <1>11, <1>15
<1>17. read[N].ini = ini
  <2>1. CASE N = 0 /\ read[N] = Unread
    <3>1. k = 0
      <4> SUFFICES ASSUME k # 0 PROVE FALSE
        OBVIOUS
      <4>1. 1 \in 1..k /\ 1 - 1 = 0
        BY <1>1
      <4>2. e[1] = 0 + (Len(Opts(1)) + 1) /\ e[1] <= N /\ Len(Opts(1)) \in Nat
        BY <1>3, <1>11, <1>12, <4>1
      <4> QED BY <2>1, <4>2
    <3>2. ini = <<>>
      BY <1>1, <3>1 DEF k
    <3>3. Unread.ini = <<>>
      BY Zenon DEF Unread
    <3> QED BY <2>1, <3>2, <3>3
  <2>2. CASE \E l \in 1..k : \E o \in 0..Len(Opts(l)) :
               N = e[l - 1] + 1 + o /\ HasRead(read[N], ini, l, o)
    <3>1. PICK l \in 1..k : \E o \in 0..Len(Opts(l)) :
               N = e[l - 1] + 1 + o /\ HasRead(read[N], ini, l, o)
      BY <2>2
    <3>2. PICK o \in 0..Len(Opts(l)) : N = e[l - 1] + 1 + o /\ HasRead(read[N], ini, l, o)
      BY <3>1
    <3> DEFINE n == Len(Opts(l))
               a == e[l - 1]
    <3>3. n \in Nat /\ o \in 0..n /\ a \in Nat /\ N = a + 1 + o /\ e[l] = a + (n + 1) /\ e[l] <= N
      <4>1. l - 1 \in 0..k
        BY <1>1
      <4> QED BY <1>3, <1>11, <1>12, <3>2, <4>1
    <3> HIDE DEF n, a
    <3>4. o = n /\ e[l] = N
      BY <1>11, <3>3
    <3>5. l = k
      <4> SUFFICES ASSUME l # k PROVE FALSE
        OBVIOUS
      <4>1. l + 1 \in 1..k /\ (l + 1) - 1 = l
        BY <1>1
      <4>2. e[l + 1] = e[l] + (Len(Opts(l + 1)) + 1) /\ e[l + 1] <= N /\ Len(Opts(l + 1)) \in Nat
        BY <1>3, <1>12, <4>1
      <4> QED BY <1>11, <3>4, <4>2
    <3>6. HasRead(read[N], ini, l, Len(ini[l].options))
      BY <3>2, <3>4 DEF n
    <3> DEFINE t == read[N].ini
    <3>7. /\ \E R : t \in Seq(R)
          /\ Len(t) = l /\ \A i \in 1..l : t[i] = ini[i]
      <4>1. l \in 1..Len(ini)
        BY DEF k
      <4> HIDE DEF t
      <4> QED BY <3>6, <4>1, SectionRead DEF t
    <3> HIDE DEF t
    <3>8. t = ini
      BY <1>1, <3>5, <3>7 DEF k
    <3> QED BY <3>8 DEF t
  <2> QED BY <1>16, <2>1, <2>2
<1>18. IniOpen(tokens) = read[N].ini
  BY <1>10 DEF Turns
<1> QED
  BY <1>4, <1>17, <1>18 DEF tokens

-----------------------------------------------------------------------------
(* masterd: what it has in memory, and its workers. *)

Pids == Children \union {First}

(* What a master has of the file whose image is home: pids may be in it. *)
ImageOf(home, m) ==
  /\ m = [mode |-> m.mode, ini |-> m.ini, at |-> m.at, pid |-> m.pid]
  /\ m.mode \in {"start", "restart", "wait"}
  /\ IniGood(Values, m.ini)
  /\ Len(m.ini) = Len(home)
  /\ m.mode # "wait" => m.at \in 1..Len(m.ini)

MasterdOK ==
  /\ memory = [p \in Pids |-> memory[p]]
  /\ \A p \in Pids : memory[p] = Nothing \/ ImageOf(IniOpen(file), memory[p])
  /\ process = [c \in Children |-> process[c]]
  /\ \A c \in Children :
       /\ process[c] = [state |-> process[c].state, parent |-> process[c].parent,
                        section |-> process[c].section]
       /\ process[c].state # "free" => Len(IniOpen(file)) >= 1
       /\ process[c].state = "forked" => memory[c] # Nothing
  /\ \E S : faults \in Seq(S)

(* The image is m's, but for what is set in the section it is at. *)
Kept(m, ini) ==
  /\ IniGood(Values, ini) /\ Len(ini) = Len(m.ini)
  /\ \A i \in 1..Len(m.ini) : ini[i].name = m.ini[i].name /\ (i # m.at => ini[i] = m.ini[i])

With(m, ini) == [m EXCEPT !.ini = ini]

(* m's section is at its place. *)
LEMMA KeptIs ==
  ASSUME NEW home, NEW m, ImageOf(home, m), NEW ini, Kept(m, ini)
  PROVE  /\ ImageOf(home, With(m, ini)) /\ With(m, ini).ini = ini
         /\ With(m, ini).mode = m.mode /\ With(m, ini).at = m.at /\ With(m, ini).pid = m.pid
         /\ m.mode # "wait" => Section(With(m, ini)) = Section(m)
<1>1. m = [mode |-> m.mode, ini |-> m.ini, at |-> m.at, pid |-> m.pid]
  BY DEF ImageOf
<1>2. With(m, ini) = [mode |-> m.mode, ini |-> ini, at |-> m.at, pid |-> m.pid]
  BY <1>1 DEF With
<1> DEFINE x == With(m, ini)
<1> HIDE DEF x
<1>3. x.mode = m.mode /\ x.ini = ini /\ x.at = m.at /\ x.pid = m.pid
  BY <1>2 DEF x
<1>4. x = [mode |-> x.mode, ini |-> x.ini, at |-> x.at, pid |-> x.pid]
  BY <1>2, <1>3 DEF x
<1>5. ImageOf(home, x)
  BY <1>3, <1>4 DEF ImageOf, Kept
<1>6. m.mode # "wait" => Section(x) = Section(m)
  BY <1>3 DEF Section, ImageOf, Kept
<1> QED
  BY <1>3, <1>5, <1>6 DEF x

(* What is set in the section that m is at. *)
LEMMA IniSetKept ==
  ASSUME NEW home, NEW m, ImageOf(home, m), m.mode # "wait", NEW ini, Kept(m, ini),
         NEW key \in Words, NEW value \in Values
  PROVE  /\ Kept(m, IniSet(ini, Section(m), key, value))
         /\ Gives(IniSet(ini, Section(m), key, value)[m.at].options, key, value)
<1> DEFINE r == IniSet(ini, Section(m), key, value)
           s == m.at
<1>1. /\ IniGood(Values, ini) /\ Len(ini) = Len(m.ini) /\ s \in 1..Len(ini)
      /\ \A i \in 1..Len(ini) : ini[i].name = m.ini[i].name /\ (i # s => ini[i] = m.ini[i])
  BY DEF ImageOf, Kept
<1>2. Section(m) = ini[s].name
  BY <1>1 DEF Section
<1>3. r = IniSet(ini, ini[s].name, key, value)
  BY <1>2
<1> HIDE DEF r, s
<1>4. OptionSet(Values, ini, s, key, value, r)
  BY <1>1, <1>3, IniSetIs
<1>5. Kept(m, r)
  BY <1>1, <1>4 DEF Kept, OptionSet, s
<1> QED
  BY <1>4, <1>5 DEF OptionSet, r, s

(* ini_map() goes on, or has done. *)
LEMMA AdvanceIs ==
  ASSUME NEW home, NEW m, ImageOf(home, m)
  PROVE  /\ ImageOf(home, Advance(m)) /\ Advance(m).ini = m.ini /\ Advance(m).pid = m.pid
         /\ m.mode # "wait" =>
              \/ Advance(m).mode = m.mode /\ Advance(m).at = m.at + 1
              \/ Advance(m).mode = "wait" /\ m.at = Len(m.ini)
<1> DEFINE x == Advance(m)
<1>1. /\ m = [mode |-> m.mode, ini |-> m.ini, at |-> m.at, pid |-> m.pid]
      /\ m.mode \in {"start", "restart", "wait"}
      /\ m.mode # "wait" => m.at \in 1..Len(m.ini)
      /\ IniGood(Values, m.ini) /\ Len(m.ini) = Len(home)
  BY DEF ImageOf
<1>2. Len(m.ini) \in Nat
  <2>1. m.ini \in Seq(Sectioned(Values))
    BY <1>1 DEF IniGood
  <2> QED BY <2>1
<1>3. CASE m.at < Len(m.ini)
  <2>1. x = [m EXCEPT !.at = m.at + 1]
    BY <1>3 DEF Advance
  <2> HIDE DEF x
  <2>2. x = [mode |-> m.mode, ini |-> m.ini, at |-> m.at + 1, pid |-> m.pid]
    BY <1>1, <2>1
  <2>3. x.mode = m.mode /\ x.ini = m.ini /\ x.at = m.at + 1 /\ x.pid = m.pid
    BY <2>2
  <2>4. x.mode # "wait" => x.at \in 1..Len(x.ini)
    BY <1>1, <1>2, <1>3, <2>3
  <2>5. ImageOf(home, x)
    BY <1>1, <2>2, <2>3, <2>4 DEF ImageOf
  <2> QED BY <2>3, <2>5 DEF x
<1>4. CASE ~(m.at < Len(m.ini))
  <2>1. x = [m EXCEPT !.mode = "wait"]
    BY <1>4 DEF Advance
  <2> HIDE DEF x
  <2>2. x = [mode |-> "wait", ini |-> m.ini, at |-> m.at, pid |-> m.pid]
    BY <1>1, <2>1
  <2>3. x.mode = "wait" /\ x.ini = m.ini /\ x.at = m.at /\ x.pid = m.pid
    BY <2>2
  <2>4. m.mode # "wait" => m.at = Len(m.ini)
    BY <1>1, <1>2, <1>4
  <2>5. ImageOf(home, x)
    BY <1>1, <2>2, <2>3 DEF ImageOf
  <2> QED BY <2>3, <2>4, <2>5 DEF x
<1> QED
  BY <1>3, <1>4

(* fork() fails; the section is left as it is. *)
ForkFails(p, m, ini) ==
  /\ Kept(m, ini)
  /\ memory' = [memory EXCEPT ![p] = Advance(With(m, ini))]
  /\ process' = process
  /\ faults' = Append(faults, IF m.mode = "start" THEN "first_fork" ELSE "fork")

(* It does not: the child has a copy, and p has the child's pid. *)
Forks(p, m, child, copy, ini) ==
  /\ process[child].state = "free"
  /\ Kept(m, copy) /\ Kept(m, ini) /\ Gives(ini[m.at].options, "pid", child)
  /\ memory' = [memory EXCEPT ![child] = With(m, copy), ![p] = Advance(With(m, ini))]
  /\ process' = [process EXCEPT ![child] =
                   [state |-> "forked", parent |-> p, section |-> Section(m)]]
  /\ faults' = faults

(* run_worker() does the one or the other. *)
LEMMA RunWorkerIs ==
  ASSUME NEW home, NEW m, ImageOf(home, m), m.mode # "wait", NEW copy, Kept(m, copy),
         NEW p, RunWorker(p, With(m, copy))
  PROVE  \/ ForkFails(p, m, copy)
         \/ \E child \in Children : \E ini : Forks(p, m, child, copy, ini)
<1> DEFINE x == With(m, copy)
<1>1. x.ini = copy /\ x.mode = m.mode /\ Section(x) = Section(m)
  BY KeptIs
<1> HIDE DEF x
<1>2. CASE /\ memory' = [memory EXCEPT ![p] = Advance(x)]
           /\ faults' = Append(faults, IF x.mode = "start" THEN "first_fork" ELSE "fork")
           /\ UNCHANGED process
  BY <1>1, <1>2 DEF ForkFails, x
<1>3. CASE \E child \in {c \in Children : process[c].state = "free"} :
             \E ini \in {IniSet(x.ini, Section(x), "pid", child)} :
               /\ process' = [process EXCEPT ![child] =
                                [state |-> "forked", parent |-> p, section |-> Section(x)]]
               /\ memory' = [memory EXCEPT ![child] = x, ![p] = Advance([x EXCEPT !.ini = ini])]
               /\ UNCHANGED faults
  <2>1. PICK child \in Children : \E ini :
               /\ process[child].state = "free"
               /\ ini = IniSet(copy, Section(m), "pid", child)
               /\ process' = [process EXCEPT ![child] =
                                [state |-> "forked", parent |-> p, section |-> Section(m)]]
               /\ memory' = [memory EXCEPT ![child] = x, ![p] = Advance([x EXCEPT !.ini = ini])]
               /\ UNCHANGED faults
    BY <1>1, <1>3
  <2>2. PICK ini :
               /\ process[child].state = "free"
               /\ ini = IniSet(copy, Section(m), "pid", child)
               /\ process' = [process EXCEPT ![child] =
                                [state |-> "forked", parent |-> p, section |-> Section(m)]]
               /\ memory' = [memory EXCEPT ![child] = x, ![p] = Advance([x EXCEPT !.ini = ini])]
               /\ UNCHANGED faults
    BY <2>1
  <2>3. child \in Values /\ "pid" \in Words
    <3>1. child \in Nat
      BY MasterdAssumption DEF Children
    <3> QED BY <3>1, WordsAre, Zenon DEF Values
  <2>4. PICK key \in Words : key = "pid"
    BY <2>3
  <2>5. Kept(m, ini) /\ Gives(ini[m.at].options, "pid", child)
    <3>1. /\ Kept(m, IniSet(copy, Section(m), key, child))
          /\ Gives(IniSet(copy, Section(m), key, child)[m.at].options, key, child)
      BY <2>3, IniSetKept
    <3> QED BY <2>2, <2>4, <3>1
  <2>6. [x EXCEPT !.ini = ini] = With(m, ini)
    <3>1. m = [mode |-> m.mode, ini |-> m.ini, at |-> m.at, pid |-> m.pid]
      BY DEF ImageOf
    <3> QED BY <3>1 DEF With, x
  <2> QED BY <2>2, <2>5, <2>6 DEF Forks, x
<1> QED
  BY <1>2, <1>3 DEF RunWorker, x

(* An image is not nothing. *)
LEMMA ImageIsSomething ==
  ASSUME NEW home, NEW m, ImageOf(home, m)
  PROVE  m # Nothing
BY DEF ImageOf, Nothing

(* One process's memory is another image, or nothing. *)
LEMMA MemoryIs ==
  ASSUME MasterdOK, file' = file, NEW p \in Pids, NEW x, x = Nothing \/ ImageOf(IniOpen(file), x),
         memory' = [memory EXCEPT ![p] = x]
  PROVE  /\ memory' = [q \in Pids |-> memory'[q]]
         /\ memory'[p] = x /\ \A q \in Pids : q # p => memory'[q] = memory[q]
         /\ \A q \in Pids : memory'[q] = Nothing \/ ImageOf(IniOpen(file'), memory'[q])
<1>1. memory = [q \in Pids |-> memory[q]]
  BY DEF MasterdOK
<1>2. /\ memory' = [q \in Pids |-> memory'[q]]
      /\ memory'[p] = x /\ \A q \in Pids : q # p => memory'[q] = memory[q]
  BY <1>1
<1>3. \A q \in Pids : memory[q] = Nothing \/ ImageOf(IniOpen(file'), memory[q])
  BY DEF MasterdOK
<1>4. x = Nothing \/ ImageOf(IniOpen(file'), x)
  OBVIOUS
<1> QED
  BY <1>2, <1>3, <1>4

Process(y) == y = [state |-> y.state, parent |-> y.parent, section |-> y.section]

(* One pid has become another process's, or its process goes on. *)
LEMMA ProcessIs ==
  ASSUME MasterdOK, file' = file, NEW c \in Children, NEW y, Process(y),
         y.state # "free" => Len(IniOpen(file)) >= 1,
         process' = [process EXCEPT ![c] = y]
  PROVE  /\ process' = [d \in Children |-> process'[d]]
         /\ process'[c] = y /\ \A d \in Children : d # c => process'[d] = process[d]
         /\ \A d \in Children :
              /\ process'[d] = [state |-> process'[d].state, parent |-> process'[d].parent,
                                section |-> process'[d].section]
              /\ process'[d].state # "free" => Len(IniOpen(file')) >= 1
<1>1. process = [d \in Children |-> process[d]]
  BY DEF MasterdOK
<1>2. /\ process' = [d \in Children |-> process'[d]]
      /\ process'[c] = y /\ \A d \in Children : d # c => process'[d] = process[d]
  BY <1>1
<1>3. \A d \in Children : Process(process[d]) /\ (process[d].state # "free" => Len(IniOpen(file')) >= 1)
  BY DEF MasterdOK, Process
<1>4. \A d \in Children : Process(process'[d]) /\ (process'[d].state # "free" => Len(IniOpen(file')) >= 1)
  BY <1>2, <1>3
<1> QED
  BY <1>2, <1>4 DEF Process

(* A process whose state alone changes. *)
LEMMA StateIs ==
  ASSUME MasterdOK, file' = file, NEW c \in Children, process[c].state # "free", NEW s, s # "forked",
         process' = [process EXCEPT ![c].state = s]
  PROVE  /\ process' = [d \in Children |-> process'[d]]
         /\ process'[c].state = s /\ process'[c].section = process[c].section
         /\ \A d \in Children : d # c => process'[d] = process[d]
         /\ \A d \in Children :
              /\ process'[d] = [state |-> process'[d].state, parent |-> process'[d].parent,
                                section |-> process'[d].section]
              /\ process'[d].state # "free" => Len(IniOpen(file')) >= 1
<1> DEFINE z == process[c]
           y == [state |-> s, parent |-> z.parent, section |-> z.section]
<1>1. z = [state |-> z.state, parent |-> z.parent, section |-> z.section]
  BY DEF MasterdOK
<1>2. process' = [process EXCEPT ![c] = [z EXCEPT !.state = s]]
  OBVIOUS
<1>3. Len(IniOpen(file)) >= 1
  BY DEF MasterdOK
<1> HIDE DEF z
<1>4. [z EXCEPT !.state = s] = y
  BY <1>1
<1>5. y.state = s /\ y.section = z.section /\ Process(y)
  BY DEF Process
<1> HIDE DEF y
<1>6. process' = [process EXCEPT ![c] = y]
  BY <1>2, <1>4
<1>7. /\ process' = [d \in Children |-> process'[d]]
      /\ process'[c] = y /\ \A d \in Children : d # c => process'[d] = process[d]
      /\ \A d \in Children :
           /\ process'[d] = [state |-> process'[d].state, parent |-> process'[d].parent,
                             section |-> process'[d].section]
           /\ process'[d].state # "free" => Len(IniOpen(file')) >= 1
  BY <1>3, <1>5, <1>6, ProcessIs
<1> QED
  BY <1>5, <1>7 DEF z

(* A call more has failed. *)
LEMMA FaultsAre ==
  ASSUME NEW S, faults \in Seq(S), NEW call, faults' = Append(faults, call)
  PROVE  /\ \E T : faults' \in Seq(T)
         /\ \A x : (\E i \in DOMAIN faults' : faults'[i] = x) <=>
                     x = call \/ \E i \in DOMAIN faults : faults[i] = x
<1> DEFINE n == Len(faults)
           T == S \union {call}
<1>1. faults \in Seq(T) /\ call \in T /\ n \in Nat
  OBVIOUS
<1> HIDE DEF T
<1>2. /\ faults' \in Seq(T) /\ Len(faults') = n + 1 /\ faults'[n + 1] = call
      /\ \A i \in 1..n : faults'[i] = faults[i]
  BY <1>1
<1>3. DOMAIN faults' = 1..n + 1 /\ DOMAIN faults = 1..n
  BY <1>2
<1> HIDE DEF n
<1>4. \A i : i \in 1..n + 1 <=> i \in 1..n \/ i = n + 1
  BY <1>1 DEF n
<1> QED
  BY <1>2, <1>3, <1>4

(* start_worker() sets the user and the group, and runs the worker. *)
LEMMA StartIs ==
  ASSUME MasterdOK, NEW p \in Pids, StartWorker(p)
  PROVE  /\ file' = file /\ ImageOf(IniOpen(file), memory[p]) /\ memory[p].mode = "start"
         /\ \/ \E ini : ForkFails(p, memory[p], ini)
            \/ \E child \in Children : \E copy, ini : Forks(p, memory[p], child, copy, ini)
<1> DEFINE m == memory[p]
           home == IniOpen(file)
           name == Section(m)
           first == IniSet(m.ini, name, "uid", 0)
           copy == IniSet(first, name, "gid", 0)
<1>1. m.mode = "start" /\ file' = file /\ RunWorker(p, With(m, copy))
  BY DEF StartWorker, With
<1>2. ImageOf(home, m)
  <2>1. m # Nothing
    BY <1>1 DEF Nothing
  <2> QED BY <2>1 DEF MasterdOK
<1> HIDE DEF m, home
<1>3. Kept(m, m.ini)
  BY <1>2 DEF Kept, ImageOf
<1>u. PICK uid \in Words : uid = "uid"
  BY WordsAre, Zenon
<1>g. PICK gid \in Words : gid = "gid"
  BY WordsAre, Zenon
<1>4. uid = "uid" /\ gid = "gid"
  BY <1>u, <1>g
<1>5. 0 \in Values
  BY DEF Values
<1>6. Kept(m, first)
  <2>1. first = IniSet(m.ini, name, uid, 0)
    BY <1>4
  <2> HIDE DEF first, name
  <2>2. Kept(m, IniSet(m.ini, Section(m), uid, 0))
    BY <1>1, <1>2, <1>3, <1>5, IniSetKept
  <2> QED BY <2>1, <2>2 DEF name
<1> HIDE DEF first
<1>7. Kept(m, copy)
  <2>1. copy = IniSet(first, name, gid, 0)
    BY <1>4
  <2> HIDE DEF copy, name
  <2>2. Kept(m, IniSet(first, Section(m), gid, 0))
    BY <1>1, <1>2, <1>5, <1>6, IniSetKept
  <2> QED BY <2>1, <2>2 DEF name
<1> HIDE DEF copy
<1>8. \/ ForkFails(p, m, copy)
      \/ \E child \in Children : \E ini : Forks(p, m, child, copy, ini)
  BY <1>1, <1>2, <1>7, RunWorkerIs
<1> QED
  BY <1>1, <1>2, <1>8 DEF m, home

(* The pid that the section has is the one that has ended. *)
Fits(m) == \A i \in Children : Gives(m.ini[m.at].options, "pid", i) => i = m.pid

(* restart_worker() crashes, goes on, or runs the section's worker. *)
LEMMA RestartIs ==
  ASSUME MasterdOK, NEW p \in Pids, RestartWorker(p)
  PROVE  /\ file' = file /\ ImageOf(IniOpen(file), memory[p]) /\ memory[p].mode = "restart"
         /\ \/ /\ ~Has(memory[p].ini[memory[p].at].options, "pid")
               /\ memory' = [memory EXCEPT ![p] = Nothing]
               /\ process' = process /\ faults' = faults
            \/ /\ memory' = [memory EXCEPT ![p] = Advance(memory[p])]
               /\ process' = process /\ faults' = faults
            \/ /\ Fits(memory[p])
               /\ \/ ForkFails(p, memory[p], memory[p].ini)
                  \/ \E child \in Children : \E copy, ini : Forks(p, memory[p], child, copy, ini)
<1> DEFINE m == memory[p]
           home == IniOpen(file)
           name == Section(m)
           s == m.at
<1>1. /\ m.mode = "restart" /\ file' = file
      /\ \/ /\ ReadsNothing(m.ini, name, "pid")
            /\ memory' = [memory EXCEPT ![p] = Nothing]
            /\ process' = process /\ faults' = faults
         \/ IniGet(m.ini, name, "pid", 0) = m.pid /\ RunWorker(p, m)
         \/ /\ memory' = [memory EXCEPT ![p] = Advance(m)]
            /\ process' = process /\ faults' = faults
  BY DEF RestartWorker
<1>2. ImageOf(home, m)
  <2>1. m # Nothing
    BY <1>1 DEF Nothing
  <2> QED BY <2>1 DEF MasterdOK
<1> HIDE DEF m, home
<1>3. Kept(m, m.ini) /\ With(m, m.ini) = m
  <2>1. m = [mode |-> m.mode, ini |-> m.ini, at |-> m.at, pid |-> m.pid]
    BY <1>2 DEF ImageOf
  <2> QED BY <1>2, <2>1 DEF Kept, ImageOf, With
<1>4. /\ \A value : Gives(m.ini[s].options, "pid", value) => IniGet(m.ini, name, "pid", 0) = value
      /\ ReadsNothing(m.ini, name, "pid") <=> ~Has(m.ini[s].options, "pid")
  <2>1. /\ m.ini \in Seq(Sectioned(Values)) /\ Distinguished(m.ini) /\ s \in 1..Len(m.ini)
        /\ Keyed(m.ini[s].options) /\ name = m.ini[s].name
    BY <1>1, <1>2 DEF ImageOf, IniGood, Section
  <2> HIDE DEF s, name
  <2> QED BY <2>1, IniGetAt
<1>5. CASE IniGet(m.ini, name, "pid", 0) = m.pid /\ RunWorker(p, m)
  <2>1. Fits(m)
    BY <1>4, <1>5 DEF Fits
  <2>2. \/ ForkFails(p, m, m.ini)
        \/ \E child \in Children : \E ini : Forks(p, m, child, m.ini, ini)
    <3>1. m.mode # "wait" /\ RunWorker(p, With(m, m.ini))
      BY <1>1, <1>3, <1>5
    <3> QED BY <1>2, <1>3, <3>1, RunWorkerIs
  <2> QED BY <1>1, <1>2, <2>1, <2>2 DEF m, home
<1> QED
  BY <1>1, <1>2, <1>4, <1>5 DEF m, home

(* After fork() has failed everything is in order. *)
LEMMA ForkFailsOK ==
  ASSUME MasterdOK, file' = file, NEW p \in Pids, NEW m, m = memory[p],
         ImageOf(IniOpen(file), m), NEW ini, ForkFails(p, m, ini)
  PROVE  MasterdOK'
<1> DEFINE x == Advance(With(m, ini))
<1>1. /\ Kept(m, ini) /\ memory' = [memory EXCEPT ![p] = x] /\ process' = process
      /\ \E call : faults' = Append(faults, call)
  BY DEF ForkFails
<1>2. ImageOf(IniOpen(file), x)
  BY <1>1, KeptIs, AdvanceIs
<1> HIDE DEF x
<1>3. /\ memory' = [q \in Pids |-> memory'[q]]
      /\ memory'[p] = x /\ \A q \in Pids : q # p => memory'[q] = memory[q]
      /\ \A q \in Pids : memory'[q] = Nothing \/ ImageOf(IniOpen(file'), memory'[q])
  BY <1>1, <1>2, MemoryIs
<1>4. x # Nothing
  BY <1>2, ImageIsSomething
<1>5. \E T : faults' \in Seq(T)
  BY <1>1, FaultsAre DEF MasterdOK
<1>6. \A c \in Children : process'[c].state = "forked" => memory'[c] # Nothing
  BY <1>1, <1>3, <1>4 DEF MasterdOK, Pids
<1>7. /\ process' = [c \in Children |-> process'[c]]
      /\ \A c \in Children :
           /\ process'[c] = [state |-> process'[c].state, parent |-> process'[c].parent,
                             section |-> process'[c].section]
           /\ process'[c].state # "free" => Len(IniOpen(file')) >= 1
  BY <1>1 DEF MasterdOK
<1> QED
  BY <1>3, <1>5, <1>6, <1>7 DEF MasterdOK

(* And after it has not. *)
LEMMA ForksOK ==
  ASSUME MasterdOK, file' = file, NEW p \in Pids, NEW m, m = memory[p],
         ImageOf(IniOpen(file), m), m.mode # "wait",
         NEW child \in Children, child # p, NEW copy, NEW ini, Forks(p, m, child, copy, ini)
  PROVE  MasterdOK'
<1> DEFINE home == IniOpen(file)
           x == Advance(With(m, ini))
           y == With(m, copy)
           z == [state |-> "forked", parent |-> p, section |-> Section(m)]
<1>1. /\ Kept(m, copy) /\ Kept(m, ini)
      /\ memory' = [memory EXCEPT ![child] = y, ![p] = x]
      /\ process' = [process EXCEPT ![child] = z] /\ faults' = faults
  BY DEF Forks
<1>2. ImageOf(home, x) /\ ImageOf(home, y)
  BY <1>1, KeptIs, AdvanceIs
<1>3. Len(home) >= 1
  <2>1. m.at \in 1..Len(home)
    BY DEF ImageOf
  <2>2. Len(home) \in Nat
    <3>1. m.ini \in Seq(Sectioned(Values)) /\ Len(home) = Len(m.ini)
      BY DEF ImageOf, IniGood
    <3> QED BY <3>1
  <2> QED BY <2>1, <2>2
<1>4. z.state = "forked" /\ Process(z)
  BY DEF Process
<1> HIDE DEF x, y, z
<1>5. memory = [q \in Pids |-> memory[q]] /\ child \in Pids
  BY DEF MasterdOK, Pids
<1>6. /\ memory' = [q \in Pids |-> memory'[q]]
      /\ memory'[p] = x /\ memory'[child] = y
      /\ \A q \in Pids : q # p /\ q # child => memory'[q] = memory[q]
  BY <1>1, <1>5
<1>7. \A q \in Pids : memory'[q] = Nothing \/ ImageOf(IniOpen(file'), memory'[q])
  BY <1>2, <1>6 DEF MasterdOK
<1>8. x # Nothing /\ y # Nothing
  BY <1>2, ImageIsSomething
<1>9. /\ process' = [d \in Children |-> process'[d]]
      /\ process'[child] = z /\ \A d \in Children : d # child => process'[d] = process[d]
      /\ \A d \in Children :
           /\ process'[d] = [state |-> process'[d].state, parent |-> process'[d].parent,
                             section |-> process'[d].section]
           /\ process'[d].state # "free" => Len(IniOpen(file')) >= 1
  BY <1>1, <1>3, <1>4, ProcessIs
<1>10. \A c \in Children : process'[c].state = "forked" => memory'[c] # Nothing
  BY <1>6, <1>8, <1>9 DEF MasterdOK, Pids
<1>11. \E T : faults' \in Seq(T)
  BY <1>1 DEF MasterdOK
<1> QED
  BY <1>6, <1>7, <1>9, <1>10, <1>11 DEF MasterdOK

(* Every step keeps what is in memory in order. *)
LEMMA MasterdOKNext ==
  ASSUME MasterdOK, [MasterdNext]_masterd_vars
  PROVE  MasterdOK'
<1> DEFINE home == IniOpen(file)
<1>1. CASE Step
  <2>1. PICK p \in Pids : /\ p # First => process[p].state = "master"
                          /\ StartWorker(p) \/ RestartWorker(p) \/ Wait(p)
    BY <1>1 DEF Step, Pids
  <2>2. \A c \in Children : c # p \/ (process[c].state # "forked" /\ process[c].state # "free")
    <3>1. First \notin Children
      BY DEF First, Children
    <3> QED BY <2>1, <3>1
  <2> DEFINE m == memory[p]
  <2>3. ASSUME file' = file, ImageOf(home, m), m.mode # "wait",
               \/ \E ini : ForkFails(p, m, ini)
               \/ \E child \in Children : \E copy, ini : Forks(p, m, child, copy, ini)
        PROVE  MasterdOK'
    <3>1. ASSUME NEW ini, ForkFails(p, m, ini) PROVE MasterdOK'
      BY <2>3, <3>1, ForkFailsOK
    <3>2. ASSUME NEW child \in Children, NEW copy, NEW ini, Forks(p, m, child, copy, ini)
          PROVE  MasterdOK'
      <4>1. child # p
        BY <2>2, <3>2 DEF Forks
      <4> QED BY <2>3, <3>2, <4>1, ForksOK
    <3> QED BY <2>3, <3>1, <3>2
  <2>4. ASSUME NEW x, x = Nothing \/ ImageOf(home, x), file' = file,
               memory' = [memory EXCEPT ![p] = x], process' = process, faults' = faults
        PROVE  MasterdOK'
    <3>1. /\ memory' = [q \in Pids |-> memory'[q]]
          /\ memory'[p] = x /\ \A q \in Pids : q # p => memory'[q] = memory[q]
          /\ \A q \in Pids : memory'[q] = Nothing \/ ImageOf(IniOpen(file'), memory'[q])
      BY <2>4, MemoryIs
    <3>2. \A c \in Children : process'[c].state = "forked" => memory'[c] # Nothing
      BY <2>2, <2>4, <3>1 DEF MasterdOK, Pids
    <3> QED BY <2>4, <3>1, <3>2 DEF MasterdOK
  <2> HIDE DEF m, home
  <2>5. CASE StartWorker(p)
    <3>1. /\ file' = file /\ ImageOf(home, m) /\ m.mode = "start"
          /\ \/ \E ini : ForkFails(p, m, ini)
             \/ \E child \in Children : \E copy, ini : Forks(p, m, child, copy, ini)
      BY <2>5, StartIs DEF m, home
    <3> QED BY <2>3, <3>1
  <2>6. CASE RestartWorker(p)
    <3>1. /\ file' = file /\ ImageOf(home, m) /\ m.mode = "restart"
          /\ \/ /\ memory' = [memory EXCEPT ![p] = Nothing]
                /\ process' = process /\ faults' = faults
             \/ /\ memory' = [memory EXCEPT ![p] = Advance(m)]
                /\ process' = process /\ faults' = faults
             \/ \/ \E ini : ForkFails(p, m, ini)
                \/ \E child \in Children : \E copy, ini : Forks(p, m, child, copy, ini)
      BY <2>6, RestartIs DEF m, home
    <3>2. ImageOf(home, Advance(m))
      BY <3>1, AdvanceIs
    <3> QED BY <2>3, <2>4, <3>1, <3>2
  <2>7. CASE Wait(p)
    <3>1. PICK child \in Children :
            /\ m.mode = "wait" /\ process[child].state = "ended"
            /\ process' = [process EXCEPT ![child] = Free]
            /\ memory' = [memory EXCEPT ![p] = [m EXCEPT !.mode = "restart", !.at = 1, !.pid = child]]
            /\ file' = file /\ faults' = faults
      BY <2>7, Zenon DEF Wait, m
    <3> DEFINE x == [m EXCEPT !.mode = "restart", !.at = 1, !.pid = child]
    <3>2. ImageOf(home, m)
      <4>1. m # Nothing
        BY <3>1 DEF Nothing
      <4> QED BY <4>1 DEF MasterdOK, m, home
    <3>3. Len(home) >= 1
      BY <3>1 DEF MasterdOK, home
    <3>4. m = [mode |-> m.mode, ini |-> m.ini, at |-> m.at, pid |-> m.pid]
      BY <3>2 DEF ImageOf
    <3>5. x = [mode |-> "restart", ini |-> m.ini, at |-> 1, pid |-> child]
      <4> DEFINE y == [m EXCEPT !.mode = "restart"]
                 z == [y EXCEPT !.at = 1]
      <4>1. y = [mode |-> "restart", ini |-> m.ini, at |-> m.at, pid |-> m.pid]
        BY <3>4
      <4>2. x = [z EXCEPT !.pid = child]
        BY Zenon
      <4> HIDE DEF x, y
      <4>3. z = [mode |-> "restart", ini |-> m.ini, at |-> 1, pid |-> m.pid]
        BY <4>1
      <4> HIDE DEF z
      <4> QED BY <4>2, <4>3
    <3> HIDE DEF x
    <3>6. x.mode = "restart" /\ x.ini = m.ini /\ x.at = 1 /\ x.pid = child
      BY <3>5
    <3>7. 1 \in 1..Len(m.ini)
      <4>1. Len(m.ini) \in Nat /\ Len(m.ini) = Len(home)
        <5>1. m.ini \in Seq(Sectioned(Values)) /\ Len(m.ini) = Len(home)
          BY <3>2 DEF ImageOf, IniGood
        <5> QED BY <5>1
      <4> QED BY <3>3, <4>1
    <3>8. ImageOf(home, x)
      BY <3>2, <3>5, <3>6, <3>7 DEF ImageOf
    <3>9. /\ memory' = [q \in Pids |-> memory'[q]]
          /\ memory'[p] = x /\ \A q \in Pids : q # p => memory'[q] = memory[q]
          /\ \A q \in Pids : memory'[q] = Nothing \/ ImageOf(IniOpen(file'), memory'[q])
      <4>1. memory' = [memory EXCEPT ![p] = x]
        BY <3>1 DEF x
      <4> QED BY <3>1, <3>8, <4>1, MemoryIs DEF home
    <3>10. Process(Free) /\ Free.state = "free"
      BY DEF Process, Free
    <3>11. /\ process' = [d \in Children |-> process'[d]]
           /\ process'[child] = Free /\ \A d \in Children : d # child => process'[d] = process[d]
           /\ \A d \in Children :
                /\ process'[d] = [state |-> process'[d].state, parent |-> process'[d].parent,
                                  section |-> process'[d].section]
                /\ process'[d].state # "free" => Len(IniOpen(file')) >= 1
      BY <3>1, <3>10, ProcessIs
    <3>12. \A c \in Children : process'[c].state = "forked" => memory'[c] # Nothing
      <4>1. x # Nothing
        BY <3>8, ImageIsSomething
      <4> QED BY <3>9, <3>10, <3>11, <4>1 DEF MasterdOK, Pids
    <3> QED BY <3>1, <3>9, <3>11, <3>12 DEF MasterdOK
  <2> QED BY <2>1, <2>5, <2>6, <2>7
<1>2. ASSUME NEW p \in Children, Exec(p) \/ ExecFault(p)
      PROVE  MasterdOK'
  <2>1. PICK s, x :
          /\ process[p].state = "forked" /\ s # "forked" /\ process' = [process EXCEPT ![p].state = s]
          /\ memory' = [memory EXCEPT ![p] = x] /\ (x = Nothing \/ x = Advance(memory[p]))
          /\ file' = file /\ (faults' = faults \/ faults' = Append(faults, "exec"))
    BY <1>2 DEF Exec, ExecFault
  <2>2. p \in Pids /\ ImageOf(home, memory[p])
    BY <2>1 DEF MasterdOK, Pids
  <2>3. x = Nothing \/ ImageOf(home, x)
    BY <2>1, <2>2, AdvanceIs
  <2>4. /\ memory' = [q \in Pids |-> memory'[q]]
        /\ memory'[p] = x /\ \A q \in Pids : q # p => memory'[q] = memory[q]
        /\ \A q \in Pids : memory'[q] = Nothing \/ ImageOf(IniOpen(file'), memory'[q])
    BY <2>1, <2>2, <2>3, MemoryIs
  <2>5. /\ process' = [d \in Children |-> process'[d]]
        /\ process'[p].state = s
        /\ \A d \in Children : d # p => process'[d] = process[d]
        /\ \A d \in Children :
             /\ process'[d] = [state |-> process'[d].state, parent |-> process'[d].parent,
                               section |-> process'[d].section]
             /\ process'[d].state # "free" => Len(IniOpen(file')) >= 1
    BY <2>1, StateIs
  <2>6. \A c \in Children : process'[c].state = "forked" => memory'[c] # Nothing
    BY <2>1, <2>4, <2>5 DEF MasterdOK, Pids
  <2>7. \E T : faults' \in Seq(T)
    BY <2>1, FaultsAre DEF MasterdOK
  <2> QED BY <2>4, <2>5, <2>6, <2>7 DEF MasterdOK
<1>3. ASSUME NEW p \in Children, Exits(p)
      PROVE  MasterdOK'
  <2>1. /\ process[p].state = "running" /\ process' = [process EXCEPT ![p].state = "ended"]
        /\ memory' = memory /\ file' = file /\ faults' = faults
    BY <1>3 DEF Exits
  <2>2. /\ process' = [d \in Children |-> process'[d]]
        /\ process'[p].state = "ended"
        /\ \A d \in Children : d # p => process'[d] = process[d]
        /\ \A d \in Children :
             /\ process'[d] = [state |-> process'[d].state, parent |-> process'[d].parent,
                               section |-> process'[d].section]
             /\ process'[d].state # "free" => Len(IniOpen(file')) >= 1
    BY <2>1, StateIs
  <2>3. \A c \in Children : process'[c].state = "forked" => memory'[c] # Nothing
    BY <2>1, <2>2 DEF MasterdOK
  <2> QED BY <2>1, <2>2, <2>3 DEF MasterdOK
<1>4. CASE UNCHANGED masterd_vars
  BY <1>4 DEF MasterdOK, masterd_vars
<1> QED
  BY <1>1, <1>2, <1>3, <1>4 DEF MasterdNext

(* A line of some words is one of more of them. *)
LEMMA LinesOfMore ==
  ASSUME NEW Word, NEW More, Word \subseteq More, NEW lines \in Seq(Lines(Word))
  PROVE  lines \in Seq(Lines(More))
<1>1. Seq(Word) \subseteq Seq(More)
  OBVIOUS
<1>2. Lines(Word) \subseteq Lines(More)
  BY <1>1 DEF Lines
<1> QED
  BY <1>2

(* At first there is the master, and the image it has made of its file. *)
LEMMA MasterdOKInit ==
  ASSUME NEW lines \in Files, MasterdInit(lines)
  PROVE  /\ MasterdOK
         /\ ImageOf(IniOpen(file), memory[First]) /\ memory[First].mode \in {"start", "wait"}
         /\ memory[First].at = 1 /\ (memory[First].mode = "wait" => IniOpen(file) = <<>>)
         /\ \A c \in Children : process[c] = Free
<1> DEFINE ini == IniOpen(lines)
           x == Read(lines)
<1>1. IniGood(Values, ini)
  <2>1. lines \in Seq(Lines(Words))
    <3>1. lines \in Seq(Lines(STRING))
      BY MasterdAssumption
    <3> DEFINE Word == STRING
    <3>2. lines \in Seq(Lines(Word)) /\ Word \subseteq Words
      BY <3>1, WordsAre, Zenon
    <3> HIDE DEF Word
    <3> QED BY <3>2, LinesOfMore
  <2>2. Words \subseteq Values
    BY DEF Values
  <2> QED BY <2>1, <2>2, IniOpenGood
<1>2. x = [mode |-> IF ini = <<>> THEN "wait" ELSE "start", ini |-> ini, at |-> 1, pid |-> 0]
  BY DEF Read
<1> HIDE DEF x, ini
<1>3. x.ini = ini /\ x.at = 1 /\ x.pid = 0 /\ x.mode = IF ini = <<>> THEN "wait" ELSE "start"
  BY <1>2
<1>4. ini # <<>> => 1 \in 1..Len(ini)
  BY <1>1 DEF IniGood
<1>5. ImageOf(ini, x)
  BY <1>1, <1>2, <1>3, <1>4 DEF ImageOf
<1>6. /\ file = lines /\ IniOpen(file) = ini
      /\ memory = [p \in Pids |-> IF p = First THEN x ELSE Nothing]
      /\ process = [c \in Children |-> Free] /\ faults = <<>>
  BY DEF MasterdInit, Pids, x, ini
<1>7. memory = [p \in Pids |-> memory[p]] /\ memory[First] = x /\ \A p \in Pids : p # First => memory[p] = Nothing
  BY <1>6 DEF Pids
<1>8. \A p \in Pids : memory[p] = Nothing \/ ImageOf(IniOpen(file), memory[p])
  BY <1>5, <1>6, <1>7
<1>9. process = [c \in Children |-> process[c]] /\ \A c \in Children : process[c] = Free
  BY <1>6
<1>10. Process(Free) /\ Free.state = "free"
  BY DEF Process, Free
<1>11. faults \in Seq({})
  BY <1>6
<1>12. MasterdOK
  BY <1>7, <1>8, <1>9, <1>10, <1>11 DEF MasterdOK, Process
<1> QED
  BY <1>3, <1>5, <1>6, <1>7, <1>9, <1>12

(* What is in memory can be saved and read. *)
LEMMA OKIsRead == MasterdOK => SavedIsRead
<1> SUFFICES ASSUME MasterdOK, NEW p \in DOMAIN memory, memory[p] # Nothing
             PROVE  IniOpen(IniSave(memory[p].ini)) = memory[p].ini
  BY DEF SavedIsRead
<1>1. p \in Pids
  BY DEF MasterdOK
<1>2. IniGood(Values, memory[p].ini)
  BY <1>1 DEF MasterdOK, ImageOf
<1> QED
  BY <1>2, SavedImageIsRead

-----------------------------------------------------------------------------
(* masterd: a section's worker. *)

Failed(call) == \E i \in DOMAIN faults : faults[i] = call

Works(c) == process[c].state \in {"forked", "running"}

(* The image has the pid c in the section of that name; a master that goes *)
(* through its sections has not come to it, or does not look for the pid.  *)
Known(m, name, c) ==
  \E i \in 1..Len(m.ini) :
    /\ m.ini[i].name = name /\ Gives(m.ini[i].options, "pid", c)
    /\ m.mode = "start" => i < m.at
    /\ m.mode = "restart" /\ m.at <= i => c # m.pid

(* There is a pid in every section that the master has started. *)
AllHave(m) ==
  \A i \in 1..Len(m.ini) : (m.mode = "start" => i < m.at) => Has(m.ini[i].options, "pid")

OneInv ==
  ~Failed("exec") =>
    /\ \A c \in Children : process[c].state # "master"
    /\ \A c, d \in Children :
         Works(c) /\ Works(d) /\ process[c].section = process[d].section => c = d
    /\ memory[First] = Nothing => Failed("first_fork")
    /\ memory[First] # Nothing =>
         /\ \A c \in Children : Works(c) => Known(memory[First], process[c].section, c)
         /\ ~Failed("first_fork") => AllHave(memory[First])

(* So it is at first. *)
LEMMA OneInvInit ==
  ASSUME NEW lines \in Files, MasterdInit(lines)
  PROVE  OneInv
<1>1. /\ MasterdOK
      /\ ImageOf(IniOpen(file), memory[First]) /\ memory[First].mode \in {"start", "wait"}
      /\ memory[First].at = 1 /\ (memory[First].mode = "wait" => IniOpen(file) = <<>>)
      /\ \A c \in Children : process[c] = Free
  BY MasterdOKInit
<1>2. Free.state = "free"
  BY DEF Free
<1>3. memory[First] # Nothing
  BY <1>1, ImageIsSomething
<1>4. AllHave(memory[First])
  <2>1. Len(memory[First].ini) = Len(IniOpen(file))
    BY <1>1 DEF ImageOf
  <2>2. CASE memory[First].mode = "start"
    <3>1. \A i \in 1..Len(memory[First].ini) : ~(i < 1)
      OBVIOUS
    <3> QED BY <1>1, <2>2, <3>1 DEF AllHave
  <2>3. CASE memory[First].mode = "wait"
    <3>1. Len(memory[First].ini) = 0
      BY <1>1, <2>1, <2>3
    <3> QED BY <3>1 DEF AllHave
  <2> QED BY <1>1, <2>2, <2>3
<1> QED
  BY <1>1, <1>2, <1>3, <1>4 DEF OneInv, Works

(* The master has gone on to the next section: no pid is less known. *)
LEMMA KnownAfter ==
  ASSUME NEW home, NEW m, ImageOf(home, m), m.mode # "wait", NEW ini, Kept(m, ini),
         NEW name, NEW c, Known(m, name, c), name # Section(m)
  PROVE  Known(Advance(With(m, ini)), name, c)
<1> DEFINE w == With(m, ini)
           x == Advance(w)
<1>1. /\ ImageOf(home, w) /\ w.ini = ini /\ w.mode = m.mode /\ w.at = m.at /\ w.pid = m.pid
  BY KeptIs
<1> HIDE DEF w
<1>2. /\ ImageOf(home, x) /\ x.ini = ini /\ x.pid = m.pid
      /\ \/ x.mode = m.mode /\ x.at = m.at + 1
         \/ x.mode = "wait"
  BY <1>1, AdvanceIs
<1> HIDE DEF x
<1>3. PICK i \in 1..Len(m.ini) :
        /\ m.ini[i].name = name /\ Gives(m.ini[i].options, "pid", c)
        /\ m.mode = "start" => i < m.at
        /\ m.mode = "restart" /\ m.at <= i => c # m.pid
  BY DEF Known
<1>4. i # m.at
  BY <1>3 DEF Section
<1>5. i \in 1..Len(ini) /\ ini[i] = m.ini[i]
  BY <1>3, <1>4 DEF Kept
<1>6. m.at \in Nat /\ i \in Nat
  BY DEF ImageOf
<1>7. (x.mode = "start" => i < x.at) /\ (x.mode = "restart" /\ x.at <= i => c # x.pid)
  BY <1>2, <1>3, <1>6
<1>8. Known(x, name, c)
  BY <1>2, <1>3, <1>5, <1>7 DEF Known
<1> QED
  BY <1>8 DEF x, w

(* Nor is one that has been kept in the section it was at. *)
LEMMA KnownNow ==
  ASSUME NEW home, NEW m, ImageOf(home, m), m.mode # "wait", NEW ini, Kept(m, ini),
         NEW c, Gives(ini[m.at].options, "pid", c)
  PROVE  Known(Advance(With(m, ini)), Section(m), c)
<1> DEFINE w == With(m, ini)
           x == Advance(w)
<1>1. /\ ImageOf(home, w) /\ w.ini = ini /\ w.mode = m.mode /\ w.at = m.at /\ w.pid = m.pid
  BY KeptIs
<1> HIDE DEF w
<1>2. /\ ImageOf(home, x) /\ x.ini = ini /\ x.pid = m.pid
      /\ \/ x.mode = m.mode /\ x.at = m.at + 1
         \/ x.mode = "wait"
  BY <1>1, AdvanceIs
<1> HIDE DEF x
<1>3. m.at \in 1..Len(ini) /\ m.at \in Nat /\ ini[m.at].name = Section(m)
  BY DEF ImageOf, Kept, Section
<1>4. (x.mode = "start" => m.at < x.at) /\ (x.mode = "restart" /\ x.at <= m.at => c # x.pid)
  BY <1>2, <1>3
<1>5. Known(x, Section(m), c)
  BY <1>2, <1>3, <1>4 DEF Known
<1> QED
  BY <1>5 DEF x, w

(* A section more has a pid, if it had one or has been given it. *)
LEMMA HaveAfter ==
  ASSUME NEW home, NEW m, ImageOf(home, m), m.mode # "wait", NEW ini, Kept(m, ini),
         AllHave(m), Has(ini[m.at].options, "pid")
  PROVE  AllHave(Advance(With(m, ini)))
<1> DEFINE w == With(m, ini)
           x == Advance(w)
<1>1. /\ ImageOf(home, w) /\ w.ini = ini /\ w.mode = m.mode /\ w.at = m.at /\ w.pid = m.pid
  BY KeptIs
<1> HIDE DEF w
<1>2. /\ ImageOf(home, x) /\ x.ini = ini
      /\ \/ x.mode = m.mode /\ x.at = m.at + 1
         \/ x.mode = "wait" /\ m.at = Len(ini)
  BY <1>1, AdvanceIs
<1> HIDE DEF x
<1>3. m.at \in 1..Len(ini) /\ Len(ini) = Len(m.ini)
  BY DEF ImageOf, Kept
<1>4. ASSUME NEW i \in 1..Len(ini), x.mode = "start" => i < x.at
      PROVE  Has(ini[i].options, "pid")
  <2>1. CASE i = m.at
    BY <2>1
  <2>2. CASE i # m.at
    <3>1. m.mode = "start" => i < m.at
      BY <1>2, <1>3, <1>4, <2>2
    <3>2. Has(m.ini[i].options, "pid")
      BY <1>3, <3>1 DEF AllHave
    <3>3. ini[i] = m.ini[i]
      BY <1>3, <2>2 DEF Kept
    <3> QED BY <3>2, <3>3
  <2> QED BY <2>1, <2>2
<1>5. AllHave(x)
  BY <1>2, <1>4 DEF AllHave
<1> QED
  BY <1>5 DEF x, w

(* A master that is to run a worker has none in the section it is at. *)
NoneAt(m) == \A c \in Children : Works(c) => process[c].section # Section(m)

(* For the one it had has ended, or it has started none. *)
LEMMA NoneAtIs ==
  ASSUME MasterdOK, NEW m, ImageOf(IniOpen(file), m),
         \A c \in Children : Works(c) => Known(m, process[c].section, c),
         m.mode = "start" \/ (m.mode = "restart" /\ Fits(m))
  PROVE  NoneAt(m)
<1> SUFFICES ASSUME NEW c \in Children, Works(c), process[c].section = Section(m)
             PROVE  FALSE
  BY DEF NoneAt
<1>1. Known(m, Section(m), c)
  OBVIOUS
<1>2. PICK i \in 1..Len(m.ini) :
        /\ m.ini[i].name = Section(m) /\ Gives(m.ini[i].options, "pid", c)
        /\ m.mode = "start" => i < m.at
        /\ m.mode = "restart" /\ m.at <= i => c # m.pid
  BY <1>1 DEF Known
<1>3. m.at \in 1..Len(m.ini) /\ Distinguished(m.ini)
  BY DEF ImageOf, IniGood
<1>4. i = m.at
  BY <1>2, <1>3 DEF Section, Distinguished
<1>5. ~(i < m.at) /\ m.at <= i
  BY <1>3, <1>4
<1> QED
  BY <1>2, <1>4, <1>5 DEF Fits

(* fork() fails: there are no more workers than there were. *)
LEMMA ForkFailsOne ==
  ASSUME MasterdOK, OneInv, file' = file, NEW m, m = memory[First],
         ImageOf(IniOpen(file), m), NEW ini, ForkFails(First, m, ini),
         m.mode = "start" \/ (m.mode = "restart" /\ ini = m.ini), NoneAt(m)
  PROVE  OneInv'
<1> DEFINE x == Advance(With(m, ini))
           call == IF m.mode = "start" THEN "first_fork" ELSE "fork"
<1>1. /\ Kept(m, ini) /\ memory' = [memory EXCEPT ![First] = x] /\ process' = process
      /\ faults' = Append(faults, call)
  BY DEF ForkFails
<1>2. ImageOf(IniOpen(file), x)
  BY <1>1, KeptIs, AdvanceIs
<1>3. call # "exec" /\ (call # "first_fork" => m.mode = "restart")
  OBVIOUS
<1>4. m.mode # "wait" /\ m # Nothing
  BY ImageIsSomething
<1> HIDE DEF x, call
<1>5. memory'[First] = x
  BY <1>1 DEF MasterdOK, Pids
<1>6. x # Nothing
  BY <1>2, ImageIsSomething
<1>7. \A z : (\E i \in DOMAIN faults' : faults'[i] = z) <=> z = call \/ Failed(z)
  BY <1>1, FaultsAre DEF MasterdOK, Failed
<1>8. (\E i \in DOMAIN faults' : faults'[i] = "exec") <=> Failed("exec")
  BY <1>3, <1>7
<1>9. (\E i \in DOMAIN faults' : faults'[i] = "first_fork") <=> call = "first_fork" \/ Failed("first_fork")
  BY <1>7
<1>10. ASSUME ~Failed("exec"), NEW c \in Children, Works(c)
       PROVE  Known(x, process[c].section, c)
  <2>1. Known(m, process[c].section, c) /\ process[c].section # Section(m)
    BY <1>4, <1>10 DEF OneInv, NoneAt
  <2> QED BY <1>1, <1>4, <2>1, KnownAfter DEF x
<1>11. ASSUME ~Failed("exec"), ~Failed("first_fork"), call # "first_fork"
       PROVE  AllHave(x)
  <2>1. AllHave(m) /\ m.mode = "restart" /\ ini = m.ini
    BY <1>3, <1>4, <1>11 DEF OneInv
  <2>2. Has(ini[m.at].options, "pid")
    BY <2>1 DEF AllHave, ImageOf
  <2> QED BY <1>1, <1>4, <2>1, <2>2, HaveAfter DEF x
<1> QED
  BY <1>1, <1>5, <1>6, <1>8, <1>9, <1>10, <1>11 DEF OneInv, Failed, Works

(* It does not: the section that had no worker has one. *)
LEMMA ForksOne ==
  ASSUME MasterdOK, OneInv, file' = file, NEW m, m = memory[First],
         ImageOf(IniOpen(file), m), m.mode # "wait", NoneAt(m),
         NEW child \in Children, NEW copy, NEW ini, Forks(First, m, child, copy, ini)
  PROVE  OneInv'
<1> DEFINE x == Advance(With(m, ini))
           y == With(m, copy)
           name == Section(m)
           z == [state |-> "forked", parent |-> First, section |-> name]
<1>1. /\ Kept(m, ini) /\ Gives(ini[m.at].options, "pid", child)
      /\ memory' = [memory EXCEPT ![child] = y, ![First] = x]
      /\ process[child].state = "free"
      /\ process' = [process EXCEPT ![child] = z] /\ faults' = faults
  BY DEF Forks
<1>2. ImageOf(IniOpen(file), x)
  BY <1>1, KeptIs, AdvanceIs
<1>3. z.state = "forked" /\ z.section = name
  OBVIOUS
<1>4. m # Nothing
  BY ImageIsSomething
<1>5. child \in Pids /\ First \in Pids /\ child # First
  BY DEF Pids, Children, First
<1> HIDE DEF x, y, z, name
<1>6. memory = [q \in Pids |-> memory[q]] /\ process = [c \in Children |-> process[c]]
  BY DEF MasterdOK
<1>7. memory'[First] = x
  BY <1>1, <1>5, <1>6
<1>8. process'[child] = z /\ \A c \in Children : c # child => process'[c] = process[c]
  BY <1>1, <1>6
<1>9. x # Nothing
  BY <1>2, ImageIsSomething
<1>10. \A c \in Children : c # child /\ Works(c) => process[c].section # name
  BY DEF NoneAt, name
<1>11. ASSUME ~Failed("exec")
       PROVE  /\ \A c \in Children : process'[c].state # "master"
              /\ \A c, d \in Children :
                   /\ process'[c].state \in {"forked", "running"}
                   /\ process'[d].state \in {"forked", "running"}
                   /\ process'[c].section = process'[d].section
                   => c = d
  BY <1>3, <1>8, <1>10, <1>11 DEF OneInv, Works
<1>12. ASSUME ~Failed("exec"), NEW c \in Children, process'[c].state \in {"forked", "running"}
       PROVE  Known(x, process'[c].section, c)
  <2>1. CASE c = child
    <3>1. process'[c].section = name
      BY <1>3, <1>8, <2>1
    <3> QED BY <1>1, <2>1, <3>1, KnownNow DEF x, name
  <2>2. CASE c # child
    <3>1. Works(c) /\ process'[c] = process[c]
      BY <1>8, <1>12, <2>2 DEF Works
    <3>2. Known(m, process[c].section, c) /\ process[c].section # Section(m)
      BY <1>4, <1>12, <3>1 DEF OneInv, NoneAt
    <3>3. Known(x, process[c].section, c)
      BY <1>1, <3>2, KnownAfter DEF x
    <3> QED BY <3>1, <3>3
  <2> QED BY <2>1, <2>2
<1>13. ASSUME ~Failed("exec"), ~Failed("first_fork")
       PROVE  AllHave(x)
  <2>1. AllHave(m)
    BY <1>4, <1>13 DEF OneInv
  <2>2. Has(ini[m.at].options, "pid")
    BY <1>1 DEF Gives, Has
  <2> QED BY <1>1, <2>1, <2>2, HaveAfter DEF x
<1> QED
  BY <1>1, <1>7, <1>9, <1>11, <1>12, <1>13 DEF OneInv, Failed, Works

(* A call that has failed is not forgotten. *)
LEMMA FailedForGood ==
  ASSUME MasterdOK, NEW p \in Pids, StartWorker(p) \/ RestartWorker(p) \/ Wait(p), NEW call, Failed(call)
  PROVE  \E i \in DOMAIN faults' : faults'[i] = call
<1>1. ASSUME NEW m, NEW ini, ForkFails(p, m, ini)
      PROVE  \E failed : faults' = Append(faults, failed)
  BY <1>1 DEF ForkFails
<1>2. ASSUME NEW m, NEW child, NEW copy, NEW ini, Forks(p, m, child, copy, ini)
      PROVE  faults' = faults
  BY <1>2 DEF Forks
<1>3. faults' = faults \/ \E failed : faults' = Append(faults, failed)
  <2>1. CASE StartWorker(p)
    BY <1>1, <1>2, <2>1, StartIs
  <2>2. CASE RestartWorker(p)
    <3>1. \/ faults' = faults \/ \E ini : ForkFails(p, memory[p], ini)
          \/ \E child \in Children : \E copy, ini : Forks(p, memory[p], child, copy, ini)
      <4>1. \/ faults' = faults \/ ForkFails(p, memory[p], memory[p].ini)
            \/ \E child \in Children : \E copy, ini : Forks(p, memory[p], child, copy, ini)
        BY <2>2, RestartIs, Zenon
      <4> QED BY <4>1
    <3> QED BY <1>1, <1>2, <3>1
  <2>3. CASE Wait(p)
    BY <2>3 DEF Wait
  <2> QED BY <2>1, <2>2, <2>3
<1>4. CASE faults' = faults
  BY <1>4 DEF Failed
<1>5. CASE \E failed : faults' = Append(faults, failed)
  BY <1>5, FaultsAre DEF Failed, MasterdOK
<1> QED
  BY <1>3, <1>4, <1>5

(* One worker for a section, whatever is done next. *)
LEMMA OneInvNext ==
  ASSUME MasterdOK, OneInv, [MasterdNext]_masterd_vars
  PROVE  OneInv'
<1> DEFINE home == IniOpen(file)
           m == memory[First]
<1>1. /\ memory = [q \in Pids |-> memory[q]] /\ process = [c \in Children |-> process[c]]
      /\ First \in Pids /\ \A c \in Children : c # First /\ c \in Pids
  BY DEF MasterdOK, Pids, Children, First
<1>2. CASE Step
  <2>1. PICK p \in Pids : /\ p # First => process[p].state = "master"
                          /\ StartWorker(p) \/ RestartWorker(p) \/ Wait(p)
    BY <1>2 DEF Step, Pids
  <2>2. CASE p # First
    <3>1. p \in Children /\ process[p].state = "master"
      BY <2>1, <2>2 DEF Pids
    <3>2. Failed("exec")
      BY <3>1 DEF OneInv
    <3>3. \E i \in DOMAIN faults' : faults'[i] = "exec"
      BY <2>1, <3>2, FailedForGood
    <3> QED BY <3>3 DEF OneInv, Failed
  <2>3. CASE p = First /\ ~Failed("exec")
    <3> DEFINE Knows == \A c \in Children : Works(c) => Known(m, process[c].section, c)
    <3>1. m # Nothing => Knows /\ (~Failed("first_fork") => AllHave(m))
      BY <2>3 DEF OneInv
    <3>2. ASSUME file' = file, ImageOf(home, m), NoneAt(m), m.mode = "start" \/ m.mode = "restart",
                 \/ \E ini : ForkFails(p, m, ini) /\ (m.mode = "restart" => ini = m.ini)
                 \/ \E child \in Children : \E copy, ini : Forks(p, m, child, copy, ini)
          PROVE  OneInv'
      <4>1. ASSUME NEW ini, ForkFails(p, m, ini), m.mode = "restart" => ini = m.ini
            PROVE  OneInv'
        BY <2>3, <3>2, <4>1, ForkFailsOne
      <4>2. ASSUME NEW child \in Children, NEW copy, NEW ini, Forks(p, m, child, copy, ini)
            PROVE  OneInv'
        BY <2>3, <3>2, <4>2, ForksOne
      <4> QED BY <3>2, <4>1, <4>2
    <3> HIDE DEF Knows
    <3>3. CASE StartWorker(p)
      <4>1. /\ file' = file /\ ImageOf(home, m) /\ m.mode = "start"
            /\ \/ \E ini : ForkFails(p, m, ini)
               \/ \E child \in Children : \E copy, ini : Forks(p, m, child, copy, ini)
        BY <2>3, <3>3, StartIs
      <4>2. m # Nothing
        BY <4>1, ImageIsSomething
      <4>3. NoneAt(m)
        BY <3>1, <4>1, <4>2, NoneAtIs DEF Knows
      <4> QED BY <3>2, <4>1, <4>3
    <3>4. CASE RestartWorker(p)
      <4>1. /\ file' = file /\ ImageOf(home, m) /\ m.mode = "restart"
            /\ \/ /\ ~Has(m.ini[m.at].options, "pid")
                  /\ memory' = [memory EXCEPT ![p] = Nothing]
                  /\ process' = process /\ faults' = faults
               \/ /\ memory' = [memory EXCEPT ![p] = Advance(m)]
                  /\ process' = process /\ faults' = faults
               \/ /\ Fits(m)
                  /\ \/ ForkFails(p, m, m.ini)
                     \/ \E child \in Children : \E copy, ini : Forks(p, m, child, copy, ini)
        BY <2>3, <3>4, RestartIs
      <4>2. m # Nothing
        BY <4>1, ImageIsSomething
      <4>3. CASE /\ ~Has(m.ini[m.at].options, "pid")
                 /\ memory' = [memory EXCEPT ![p] = Nothing]
                 /\ process' = process /\ faults' = faults
        <5>1. memory'[First] = Nothing
          BY <1>1, <2>3, <4>3
        <5>2. ~AllHave(m)
          BY <4>1, <4>3 DEF AllHave, ImageOf
        <5>3. Failed("first_fork")
          BY <3>1, <4>2, <5>2
        <5> QED BY <2>3, <4>3, <5>1, <5>3 DEF OneInv, Failed, Works
      <4>4. CASE /\ memory' = [memory EXCEPT ![p] = Advance(m)]
                 /\ process' = process /\ faults' = faults
        <5> DEFINE x == Advance(m)
        <5>1. Kept(m, m.ini) /\ With(m, m.ini) = m
          <6>1. m = [mode |-> m.mode, ini |-> m.ini, at |-> m.at, pid |-> m.pid]
            BY <4>1 DEF ImageOf
          <6> HIDE DEF m
          <6> QED BY <4>1, <6>1 DEF Kept, ImageOf, With
        <5>2. memory'[First] = x
          BY <1>1, <2>3, <4>4
        <5>3. ImageOf(home, x)
          BY <4>1, AdvanceIs
        <5>4. x # Nothing
          BY <5>3, ImageIsSomething
        <5>5. ASSUME NEW c \in Children, Works(c)
              PROVE  Known(x, process[c].section, c)
          <6>1. Known(m, process[c].section, c)
            BY <3>1, <4>2, <5>5 DEF Knows
          <6>2. CASE process[c].section = Section(m)
            <7>1. PICK i \in 1..Len(m.ini) :
                    m.ini[i].name = Section(m) /\ Gives(m.ini[i].options, "pid", c)
              BY <6>1, <6>2 DEF Known
            <7>2. i = m.at
              BY <4>1, <7>1 DEF Section, ImageOf, IniGood, Distinguished
            <7>3. Known(Advance(With(m, m.ini)), Section(m), c)
              BY <4>1, <5>1, <7>1, <7>2, KnownNow
            <7> QED BY <5>1, <6>2, <7>3
          <6>3. CASE process[c].section # Section(m)
            <7>1. Known(Advance(With(m, m.ini)), process[c].section, c)
              BY <4>1, <5>1, <6>1, <6>3, KnownAfter
            <7> QED BY <5>1, <7>1
          <6> QED BY <6>2, <6>3
        <5>6. ASSUME ~Failed("first_fork") PROVE AllHave(x)
          <6>1. AllHave(m)
            BY <3>1, <4>2, <5>6
          <6>2. Has(m.ini[m.at].options, "pid")
            BY <4>1, <6>1 DEF AllHave, ImageOf
          <6>3. AllHave(Advance(With(m, m.ini)))
            BY <4>1, <5>1, <6>1, <6>2, HaveAfter
          <6> QED BY <5>1, <6>3
        <5> HIDE DEF x
        <5> QED BY <2>3, <4>4, <5>2, <5>4, <5>5, <5>6 DEF OneInv, Failed, Works
      <4>5. CASE /\ Fits(m)
                 /\ \/ ForkFails(p, m, m.ini)
                    \/ \E child \in Children : \E copy, ini : Forks(p, m, child, copy, ini)
        <5>1. NoneAt(m)
          BY <3>1, <4>1, <4>2, <4>5, NoneAtIs DEF Knows
        <5> QED BY <3>2, <4>1, <4>5, <5>1
      <4> QED BY <4>1, <4>3, <4>4, <4>5
    <3>5. CASE Wait(p)
      <4>1. PICK child \in Children :
              /\ m.mode = "wait" /\ process[child].state = "ended"
              /\ process' = [process EXCEPT ![child] = Free]
              /\ memory' = [memory EXCEPT ![First] = [m EXCEPT !.mode = "restart", !.at = 1, !.pid = child]]
              /\ faults' = faults
        BY <2>3, <3>5, Zenon DEF Wait
      <4> DEFINE x == [m EXCEPT !.mode = "restart", !.at = 1, !.pid = child]
      <4>2. m # Nothing /\ First \in Pids
        BY <1>1, <4>1 DEF Nothing
      <4>3. memory'[First] = x
        BY <1>1, <4>1
      <4>4. m = [mode |-> m.mode, ini |-> m.ini, at |-> m.at, pid |-> m.pid]
        BY <4>2 DEF MasterdOK, ImageOf
      <4>5. x.mode = "restart" /\ x.ini = m.ini /\ x.pid = child /\ x.at = 1
        <5> DEFINE y == [m EXCEPT !.mode = "restart"]
                   z == [y EXCEPT !.at = 1]
        <5> HIDE DEF m
        <5>1. y = [mode |-> "restart", ini |-> m.ini, at |-> m.at, pid |-> m.pid]
          BY <4>4
        <5>2. x = [z EXCEPT !.pid = child]
          BY Zenon
        <5> HIDE DEF x, y
        <5>3. z = [mode |-> "restart", ini |-> m.ini, at |-> 1, pid |-> m.pid]
          BY <5>1
        <5> HIDE DEF z
        <5>4. x = [mode |-> "restart", ini |-> m.ini, at |-> 1, pid |-> child]
          BY <5>2, <5>3
        <5> QED BY <5>4
      <4>6. x # Nothing
        BY <4>5 DEF Nothing
      <4> HIDE DEF x
      <4>7. process'[child] = Free /\ \A c \in Children : c # child => process'[c] = process[c]
        BY <1>1, <4>1
      <4>8. Free.state = "free"
        BY DEF Free
      <4>9. \A c \in Children : process'[c].state # "free" => c # child /\ process'[c] = process[c]
        BY <4>7, <4>8
      <4>10. ASSUME NEW c \in Children, process'[c].state \in {"forked", "running"}
             PROVE  Known(x, process'[c].section, c)
        <5>1. c # child /\ process'[c] = process[c] /\ Works(c)
          BY <4>9, <4>10 DEF Works
        <5>2. Known(m, process[c].section, c)
          BY <3>1, <4>2, <5>1 DEF Knows
        <5>3. PICK i \in 1..Len(m.ini) :
                m.ini[i].name = process[c].section /\ Gives(m.ini[i].options, "pid", c)
          BY <5>2 DEF Known
        <5>4. Known(x, process[c].section, c)
          BY <4>5, <5>1, <5>3 DEF Known
        <5> QED BY <5>1, <5>4
      <4>11. ASSUME ~Failed("first_fork") PROVE AllHave(x)
        <5>1. AllHave(m)
          BY <3>1, <4>2, <4>11
        <5> HIDE DEF m
        <5> QED BY <4>1, <4>5, <5>1 DEF AllHave
      <4>12. /\ \A c \in Children : process'[c].state # "master"
             /\ \A c, d \in Children :
                  /\ process'[c].state \in {"forked", "running"}
                  /\ process'[d].state \in {"forked", "running"}
                  /\ process'[c].section = process'[d].section
                  => c = d
        BY <2>3, <4>7, <4>8, <4>9 DEF OneInv, Works
      <4> QED BY <4>1, <4>3, <4>6, <4>10, <4>11, <4>12 DEF OneInv, Failed, Works
    <3> QED BY <2>1, <3>3, <3>4, <3>5
  <2>4. CASE p = First /\ Failed("exec")
    <3>1. \E i \in DOMAIN faults' : faults'[i] = "exec"
      BY <2>1, <2>4, FailedForGood
    <3> QED BY <3>1 DEF OneInv, Failed
  <2> QED BY <2>2, <2>3, <2>4
<1>3. ASSUME NEW p \in Children, Exec(p)
      PROVE  OneInv'
  <2>1. /\ process[p].state = "forked" /\ process' = [process EXCEPT ![p].state = "running"]
        /\ memory' = [memory EXCEPT ![p] = Nothing] /\ file' = file /\ faults' = faults
    BY <1>3 DEF Exec
  <2>2. /\ process'[p].state = "running" /\ process'[p].section = process[p].section
        /\ \A d \in Children : d # p => process'[d] = process[d]
    BY <2>1, StateIs
  <2>3. memory'[First] = m
    BY <1>1, <2>1
  <2>4. \A c \in Children : /\ process'[c].section = process[c].section
                            /\ process'[c].state \in {"forked", "running"} <=> Works(c)
                            /\ process'[c].state = "master" => process[c].state = "master"
    BY <2>1, <2>2 DEF Works
  <2> QED BY <2>1, <2>3, <2>4 DEF OneInv, Failed, Works
<1>4. ASSUME NEW p \in Children, ExecFault(p)
      PROVE  OneInv'
  <2>1. faults' = Append(faults, "exec")
    BY <1>4 DEF ExecFault
  <2>2. \E i \in DOMAIN faults' : faults'[i] = "exec"
    BY <2>1, FaultsAre DEF MasterdOK
  <2> QED BY <2>2 DEF OneInv, Failed
<1>5. ASSUME NEW p \in Children, Exits(p)
      PROVE  OneInv'
  <2>1. /\ process[p].state = "running" /\ process' = [process EXCEPT ![p].state = "ended"]
        /\ memory' = memory /\ file' = file /\ faults' = faults
    BY <1>5 DEF Exits
  <2>2. /\ process'[p].state = "ended" /\ process'[p].section = process[p].section
        /\ \A d \in Children : d # p => process'[d] = process[d]
    BY <2>1, StateIs
  <2>3. \A c \in Children : /\ process'[c].section = process[c].section
                            /\ process'[c].state \in {"forked", "running"} => Works(c)
                            /\ process'[c].state = "master" => process[c].state = "master"
    BY <2>1, <2>2 DEF Works
  <2> QED BY <2>1, <2>3 DEF OneInv, Failed, Works
<1>6. CASE UNCHANGED masterd_vars
  BY <1>6 DEF OneInv, Failed, Works, masterd_vars
<1> QED
  BY <1>2, <1>3, <1>4, <1>5, <1>6 DEF MasterdNext

(* The workers of a section, and the pid it has, are as they should be. *)
LEMMA InvIsOneEach == MasterdOK /\ OneInv => OneEach
<1> SUFFICES ASSUME MasterdOK, OneInv, ~Failed("exec")
             PROVE  OneEach
  BY DEF OneEach, Failed
<1>1. ~Failed("exec")
  OBVIOUS
<1>2. ASSUME NEW name
      PROVE  Cardinality(Workers(name)) <= 1
  <2>1. Workers(name) = {} \/ \E c \in Children : Workers(name) = {c}
    BY <1>1 DEF OneInv, Works, Workers
  <2>2. CASE Workers(name) = {}
    BY <2>2, FS_EmptySet
  <2>3. CASE \E c \in Children : Workers(name) = {c}
    <3>1. PICK c \in Children : Workers(name) = {c}
      BY <2>3
    <3>2. Cardinality({c}) = 1
      BY FS_Singleton
    <3> QED BY <3>1, <3>2
  <2> QED BY <2>1, <2>2, <2>3
<1>3. ASSUME NEW name, memory[First] # Nothing, NEW c \in Workers(name)
      PROVE  IniGet(memory[First].ini, name, "pid", 0) = c
  <2> DEFINE m == memory[First]
  <2>1. c \in Children /\ Works(c) /\ process[c].section = name
    BY DEF Workers, Works
  <2>2. Known(m, name, c)
    BY <1>1, <1>3, <2>1 DEF OneInv
  <2>3. PICK i \in 1..Len(m.ini) : m.ini[i].name = name /\ Gives(m.ini[i].options, "pid", c)
    BY <2>2 DEF Known
  <2>4. IniGood(Values, m.ini)
    BY <1>3 DEF MasterdOK, ImageOf, Pids
  <2> HIDE DEF m
  <2>5. /\ m.ini \in Seq(Sectioned(Values)) /\ Distinguished(m.ini) /\ Keyed(m.ini[i].options)
    BY <2>4 DEF IniGood
  <2>6. IniGet(m.ini, m.ini[i].name, "pid", 0) = c
    BY <2>3, <2>5, IniGetAt
  <2> QED BY <2>3, <2>6 DEF m
<1>4. memory[First] = Nothing => "first_fork" \in {faults[i] : i \in DOMAIN faults}
  BY <1>1 DEF OneInv, Failed
<1> QED
  BY <1>2, <1>3, <1>4, Zenon DEF OneEach

(* masterd: however pids are used again a section has one worker at most,  *)
(* and the master has its pid, as long as no execve() fails; and what a    *)
(* master keeps of its file is saved so that it is read as it was.         *)
THEOREM SectionsAreSound == MasterdSpec => []SectionsSound
<1>1. (\E lines \in Files : MasterdInit(lines)) => MasterdOK /\ OneInv
  BY MasterdOKInit, OneInvInit
<1>2. MasterdOK /\ OneInv /\ [MasterdNext]_masterd_vars => (MasterdOK /\ OneInv)'
  BY MasterdOKNext, OneInvNext
<1>3. MasterdOK /\ OneInv => SectionsSound
  BY OKIsRead, InvIsOneEach DEF SectionsSound
<1> QED
  BY <1>1, <1>2, <1>3, PTL DEF MasterdSpec
==============================================================================
