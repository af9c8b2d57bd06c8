-------------------------- MODULE InterpreterLock --------------------------
(***************************************************************************)
(* The global interpreter lock of JyNI: a JyLock (JyLock.java), the current *)
(* thread state, and the ways in which threads pass between Java code,     *)
(* native code that holds the lock and native code that does not:          *)
(* ENTER_JyNI and RE_ENTER_JyNI (JyNI.h 67-91), Py_BEGIN_ALLOW_THREADS     *)
(* (ceval.c), PyGILState_Ensure (pystate.c), clearPyCPeer (JyNI.c 105).    *)
(*                                                                         *)
(* A thread's nested calls are its frames.  Each thread has one thread     *)
(* state, named like the thread.                                           *)
(***************************************************************************)
EXTENDS Naturals, Sequences, FiniteSets

CONSTANTS
    JavaThreads,     \* threads of the JVM: Jython's, finalizers, the reaper
    NativeThreads,   \* threads started by native libraries
    NoState,         \* the value NULL of _PyThreadState_Current
    MaxFrames,       \* bound on the nesting of calls in a thread
    DeallocYields    \* does tp_dealloc of some type release the GIL?

ASSUME InterpreterLockAssumption ==
    /\ JavaThreads \cap NativeThreads = {}
    /\ NoState \notin JavaThreads \cup NativeThreads
    /\ MaxFrames \in Nat
    /\ DeallocYields \in BOOLEAN

Threads == JavaThreads \cup NativeThreads

VARIABLES
    locked, waiting,     \* JyLock: the flag, and the threads in wait()
    current,             \* _PyThreadState_Current
    frames,              \* nested calls of each thread, innermost last
    want,                \* the call a thread in JyLock.acquire is making
    life,                \* what became of each thread state
    counter,             \* JyNI_gilstate_counter
    attached,            \* threads attached to the JVM
    nativelyAttached,    \* JyNI_natively_attached
    fatal                \* Py_FatalError was called

lock == <<locked, waiting>>
states == <<life, counter, attached, nativelyAttached>>
vars == <<locked, waiting, current, frames, want, life, counter, attached,
          nativelyAttached, fatal>>

\* Native code that holds the GIL: in a method called from Java, first or
\* again, between PyGILState_Ensure and PyGILState_Release, or between
\* Py_BLOCK_THREADS and Py_UNBLOCK_THREADS.
NativeCode == {"enter", "reenter", "ensured", "nested", "block"}
\* "clear": inside clearPyCPeer; "delegate": Java code called with the GIL.
Holding == NativeCode \cup {"clear", "delegate"}
\* "allow": after Py_BEGIN_ALLOW_THREADS; "callback": Java code called there.
Released == {"allow", "callback"}

TypeOK ==
    /\ locked \in BOOLEAN
    /\ waiting \subseteq Threads
    /\ current \in Threads \cup {NoState}
    /\ frames \in [Threads -> Seq(Holding \cup Released)]
    /\ want \in [Threads -> {"no", "enter", "reenter", "clear", "ensured", "block", "resume"}]
    /\ life \in [Threads -> {"none", "live", "freed"}]
    /\ counter \in [Threads -> Nat]
    /\ attached \subseteq Threads
    /\ nativelyAttached \subseteq Threads
    /\ fatal \in BOOLEAN

Init ==
    /\ locked = FALSE /\ waiting = {}
    /\ current = NoState
    /\ frames = [t \in Threads |-> <<>>]
    /\ want = [t \in Threads |-> "no"]
    /\ life = [t \in Threads |-> "none"]
    /\ counter = [t \in Threads |-> 0]
    /\ attached = JavaThreads
    /\ nativelyAttached = {}
    /\ fatal = FALSE

-----------------------------------------------------------------------------
(* Frames.                                                                 *)

Top(t) == IF frames[t] = <<>> THEN "none" ELSE frames[t][Len(frames[t])]

Push(t, call) == frames' = [frames EXCEPT ![t] = Append(@, call)]
Pop(t) == frames' = [frames EXCEPT ![t] = SubSeq(@, 1, Len(@) - 1)]

Running(t) == ~fatal /\ want[t] = "no"
MayCall(t) == Running(t) /\ Len(frames[t]) < MaxFrames

InNativeCode(t) == Top(t) \in NativeCode
InJava(t) == \/ Top(t) \in {"callback", "delegate"}
             \/ Top(t) = "none" /\ t \in JavaThreads /\ life[t] # "freed"

-----------------------------------------------------------------------------
(* JyLock.                                                                 *)

\* Mutant: notify instead of notifyAll.
ReleaseOne ==
    /\ locked' = FALSE
    /\ IF waiting = {} THEN UNCHANGED waiting
       ELSE \E t \in waiting : waiting' = waiting \ {t}

\* release; PyThread_release_lock clears the exception if it was not locked.
Release ==
    /\ locked' = FALSE
    /\ waiting' = IF locked THEN {} ELSE waiting

\* acquire, when the lock is free.
Acquire(t, call) ==
    /\ ~fatal
    /\ want[t] = call /\ t \notin waiting
    /\ ~locked
    /\ locked' = TRUE
    /\ want' = [want EXCEPT ![t] = "no"]
    /\ UNCHANGED waiting

\* acquire, when it is not.
AcquireWaits(t) ==
    /\ ~fatal
    /\ want[t] # "no" /\ t \notin waiting
    /\ locked
    /\ waiting' = waiting \cup {t}
    /\ UNCHANGED <<locked, current, frames, want, states, fatal>>

\* wait() ends by an interrupt, and the loop goes on.
Interrupt(t) ==
    /\ ~fatal
    /\ t \in waiting
    /\ waiting' = waiting \ {t}
    /\ UNCHANGED <<locked, current, frames, want, states, fatal>>

-----------------------------------------------------------------------------
(* Thread states.                                                          *)

\* JyTState.prepareNativeThreadState: a new thread state starts with a count
\* of one, which stands for the JyTState object.
Prepare(t) ==
    IF life[t] = "none"
    THEN /\ life' = [life EXCEPT ![t] = "live"]
         /\ counter' = [counter EXCEPT ![t] = 1]
    ELSE UNCHANGED <<life, counter>>

\* JyTState.finalize after the end of a thread of the JVM.
ThreadEnds(t) ==
    /\ Running(t)
    /\ t \in JavaThreads /\ frames[t] = <<>> /\ life[t] = "live"
    /\ counter' = [counter EXCEPT ![t] = @ - 1]
    /\ life' = [life EXCEPT ![t] = IF counter'[t] = 0 THEN "freed" ELSE @]
    /\ UNCHANGED <<lock, current, frames, want, attached, nativelyAttached, fatal>>

-----------------------------------------------------------------------------
(* Methods called from Java.                                               *)

\* Mutant: a method that may be re-entered is treated like any other.
CallReEnterBlindly(t) ==
    /\ MayCall(t) /\ InJava(t)
    /\ Prepare(t)
    /\ want' = [want EXCEPT ![t] = "reenter"]
    /\ UNCHANGED <<lock, current, frames, attached, nativelyAttached, fatal>>

\* A method with ENTER_JyNI, also called by Java code that was called with the
\* GIL: PyObject_Call runs any __call__ so.
CallEnter(t) ==
    /\ MayCall(t) /\ InJava(t)
    /\ Prepare(t)
    /\ want' = [want EXCEPT ![t] = "enter"]
    /\ UNCHANGED <<lock, current, frames, attached, nativelyAttached, fatal>>

\* A method with RE_ENTER_JyNI.
CallReEnter(t) ==
    /\ MayCall(t) /\ InJava(t)
    /\ Prepare(t)
    /\ IF current = t
       THEN Push(t, "reenter") /\ UNCHANGED want
       ELSE want' = [want EXCEPT ![t] = "reenter"] /\ UNCHANGED frames
    /\ UNCHANGED <<lock, current, attached, nativelyAttached, fatal>>

\* ENTER_JyNI, once it has the lock.
Enter(t) ==
    /\ \E call \in {"enter", "reenter"} : Acquire(t, call)
    /\ fatal' = (current # NoState)
    /\ current' = t
    /\ Push(t, "enter")
    /\ UNCHANGED states

\* Mutant: the current thread state is not reset.
LeaveCurrent(t) ==
    /\ Running(t) /\ Top(t) = "enter"
    /\ Release
    /\ Pop(t)
    /\ UNCHANGED <<current, want, states, fatal>>

\* LEAVE_JyNI.
Leave(t) ==
    /\ Running(t) /\ Top(t) = "enter"
    /\ current' = NoState
    /\ Release
    /\ Pop(t)
    /\ UNCHANGED <<want, states, fatal>>

\* Mutant: RE_LEAVE_JyNI always leaves.
ReLeaveAlways(t) ==
    /\ Running(t) /\ Top(t) = "reenter"
    /\ current' = NoState
    /\ Release
    /\ Pop(t)
    /\ UNCHANGED <<want, states, fatal>>

\* RE_LEAVE_JyNI of a method that was re-entered.
ReLeave(t) ==
    /\ Running(t) /\ Top(t) = "reenter"
    /\ Pop(t)
    /\ UNCHANGED <<lock, current, want, states, fatal>>

\* clearPyCPeer, which finalizers of peers call, takes the lock without a
\* thread state.
CallClear(t) ==
    /\ MayCall(t) /\ InJava(t) /\ Top(t) # "delegate"
    /\ want' = [want EXCEPT ![t] = "clear"]
    /\ UNCHANGED <<lock, current, frames, states, fatal>>

ClearPyCPeer(t) ==
    /\ Acquire(t, "clear")
    /\ Push(t, "clear")
    /\ UNCHANGED <<current, states, fatal>>

ClearReturns(t) ==
    /\ Running(t) /\ Top(t) = "clear"
    /\ Release
    /\ Pop(t)
    /\ UNCHANGED <<current, want, states, fatal>>

-----------------------------------------------------------------------------
(* Native code calls Java code, with or without the GIL.                   *)

CallDelegate(t) ==
    /\ MayCall(t) /\ InNativeCode(t)
    /\ Push(t, "delegate")
    /\ UNCHANGED <<lock, current, want, states, fatal>>

CallFunction(t) ==
    /\ MayCall(t) /\ Top(t) = "allow"
    /\ Push(t, "callback")
    /\ UNCHANGED <<lock, current, want, states, fatal>>

JavaReturns(t) ==
    /\ Running(t) /\ Top(t) \in {"callback", "delegate"}
    /\ Pop(t)
    /\ UNCHANGED <<lock, current, want, states, fatal>>

-----------------------------------------------------------------------------
(* Native code releases the GIL and takes it again.                        *)

\* PyEval_SaveThread.
SaveThread ==
    Release /\ fatal' = (current = NoState) /\ current' = NoState

\* Py_BEGIN_ALLOW_THREADS.
BeginAllow(t) ==
    /\ MayCall(t)
    /\ InNativeCode(t) \/ (DeallocYields /\ Top(t) = "clear")
    /\ SaveThread
    /\ Push(t, "allow")
    /\ UNCHANGED <<want, states>>

\* Py_END_ALLOW_THREADS, Py_BLOCK_THREADS.
WantBack(t) ==
    /\ Running(t) /\ Top(t) = "allow"
    /\ \/ want' = [want EXCEPT ![t] = "resume"]
       \/ Len(frames[t]) < MaxFrames /\ want' = [want EXCEPT ![t] = "block"]
    /\ UNCHANGED <<lock, current, frames, states, fatal>>

\* PyEval_RestoreThread.
RestoreThread(t, call) == Acquire(t, call) /\ current' = t /\ UNCHANGED fatal

EndAllow(t) ==
    /\ RestoreThread(t, "resume")
    /\ Pop(t)
    /\ UNCHANGED states

BlockThreads(t) ==
    /\ RestoreThread(t, "block")
    /\ Push(t, "block")
    /\ UNCHANGED states

UnblockThreads(t) ==
    /\ Running(t) /\ Top(t) = "block"
    /\ SaveThread
    /\ Pop(t)
    /\ UNCHANGED <<want, states>>

-----------------------------------------------------------------------------
(* PyGILState.                                                             *)

\* PyGILState_Ensure: attach to the JVM, find the thread state, and take the
\* GIL unless that state is current.
Ensure(t) ==
    /\ MayCall(t)
    /\ \/ InNativeCode(t)
       \/ Top(t) = "allow"
       \/ Top(t) = "none" /\ t \in NativeThreads
    /\ attached' = attached \cup {t}
    /\ nativelyAttached' = IF t \in attached THEN nativelyAttached \ {t}
                           ELSE nativelyAttached \cup {t}
    /\ IF current = t
       THEN /\ Push(t, "nested")
            /\ counter' = [counter EXCEPT ![t] = @ + 1]
            /\ UNCHANGED <<life, want>>
       ELSE /\ Prepare(t)
            /\ want' = [want EXCEPT ![t] = "ensured"]
            /\ UNCHANGED frames
    /\ UNCHANGED <<lock, current, fatal>>

Ensured(t) ==
    /\ RestoreThread(t, "ensured")
    /\ counter' = [counter EXCEPT ![t] = @ + 1]
    /\ Push(t, "ensured")
    /\ UNCHANGED <<life, attached, nativelyAttached>>

\* Mutant: the counter is not decremented.
DecrementNothing(t) == UNCHANGED counter

DecrementCounter(t) == counter' = [counter EXCEPT ![t] = @ - 1]

\* PyGILState_Release.  At zero the thread state is deleted, the GIL released
\* and the thread detached if the last PyGILState_Ensure had attached it.
EnsureReleased(t) ==
    /\ Running(t) /\ Top(t) \in {"ensured", "nested"}
    /\ DecrementCounter(t)
    /\ Pop(t)
    /\ IF counter'[t] = 0
       THEN /\ life' = [life EXCEPT ![t] = "freed"]
            /\ attached' = attached \ ({t} \cap nativelyAttached)
            /\ current' = NoState /\ fatal' = (current # t)
            /\ Release
       ELSE /\ IF Top(t) = "ensured" /\ current = t THEN SaveThread
               ELSE fatal' = (current # t) /\ UNCHANGED <<lock, current>>
            /\ UNCHANGED <<life, attached>>
    /\ UNCHANGED <<want, nativelyAttached>>

-----------------------------------------------------------------------------

LockStep(t) ==
    \/ AcquireWaits(t) \/ Interrupt(t)
    \/ Enter(t) \/ ClearPyCPeer(t)
    \/ EndAllow(t) \/ BlockThreads(t) \/ Ensured(t)

CallStep(t) ==
    \/ CallEnter(t) \/ CallReEnter(t) \/ CallClear(t)
    \/ CallDelegate(t) \/ CallFunction(t)
    \/ BeginAllow(t) \/ WantBack(t) \/ Ensure(t)

ReturnStep(t) ==
    \/ Leave(t) \/ ReLeave(t) \/ ClearReturns(t) \/ JavaReturns(t)
    \/ UnblockThreads(t) \/ EnsureReleased(t) \/ ThreadEnds(t)

Next == \E t \in Threads : LockStep(t) \/ CallStep(t) \/ ReturnStep(t)

Spec == Init /\ [][Next]_vars

-----------------------------------------------------------------------------
(* Properties.                                                             *)

Holds(t) == Top(t) \in Holding

\* However calls nest, at most one thread is inside code that needs the GIL;
\* the lock is taken exactly while there is one; and the current thread state
\* is its own, or NULL inside clearPyCPeer (JyNI.h 67-91, ceval.c 370-395).
GilExclusive ==
    /\ \A t, u \in Threads : Holds(t) /\ Holds(u) => t = u
    /\ locked <=> \E t \in Threads : Holds(t)
    /\ current # NoState => Holds(current) /\ Top(current) # "clear"
    /\ \A t \in Threads : Holds(t) /\ Top(t) # "clear" => current = t

\* No sequence of calls makes ENTER_JyNI overwrite a thread state, saves a
\* NULL one, or releases one that is not current; and "no code is executed"
\* in clearPyCPeer "that might contain Py_BEGIN_ALLOW_THREADS" (JyNI.c 107).
NoFatalError == ~fatal

WaitsForItself(t) == want[t] # "no" /\ Holds(t)

\* "GIL must be released, since the code might enter JyNI again causing a
\* deadlock" (funcobject.c 640): PyObject_Call does not release it, so Java
\* code that it calls and that enters by ENTER_JyNI waits for its own thread
\* forever.  In no other way does a thread: not by RE_ENTER_JyNI, nor by
\* clearPyCPeer, PyGILState_Ensure, Py_BLOCK_THREADS or Py_END_ALLOW_THREADS,
\* however they nest.
OnlyDelegatesDeadlock ==
    \A t \in Threads :
        WaitsForItself(t) => want[t] = "enter" /\ Top(t) = "delegate"

\* Nobody is left waiting for a lock that is free (JyLock.java 70-77).
NoLostWakeup == waiting # {} => locked

\* The counter is one for the JyTState plus one for each PyGILState_Ensure
\* that is not released: "tcur will remain valid as we hold the GIL", and a
\* thread state is freed only when its thread is through (pystate.c 671-676).
GilstateExact ==
    \A t \in Threads :
        counter[t] = (IF life[t] = "live" THEN 1 ELSE 0)
                     + Cardinality({i \in DOMAIN frames[t] :
                                       frames[t][i] \in {"ensured", "nested"}})
=============================================================================
