----------------------------- MODULE RtSemaphore -----------------------------
(***************************************************************************)
(* The kernel's semaphore (rt-thread/src/ipc.c) as a value and functions   *)
(* on it.  Every function is one section that ipc.c runs with interrupts   *)
(* disabled; what the calling thread does next is left to the module that  *)
(* uses it.                                                                *)
(***************************************************************************)
EXTENDS RtIpc

CONSTANT SemMax     \* RT_SEM_VALUE_MAX, 65535

ASSUME SemMaxAssumption == SemMax \in Nat \ {0}

\* The semaphores that only the given thread ever takes.
SemOf(thread) == [value : 0 .. SemMax, susp : {<< >>, <<thread>>}]

\* What a release would do if it never resumed a suspended thread (a mistake
\* the code does not make).
SemReleaseNoResume(sem) ==
    IF sem.value < SemMax THEN [sem EXCEPT !.value = @ + 1] ELSE sem

\* What a release would do without the check against RT_SEM_VALUE_MAX.
SemReleaseUnbounded(sem) ==
    IF sem.susp # << >> THEN [sem EXCEPT !.susp = Resumed(@)]
    ELSE [sem EXCEPT !.value = @ + 1]

\* rt_sem_init
SemInit(value) == [value |-> value, susp |-> << >>]

\* rt_sem_take(sem, RT_WAITING_FOREVER), up to the call of rt_schedule
SemTake(sem, thread) ==
    IF sem.value > 0
    THEN [sem EXCEPT !.value = @ - 1]
    ELSE [sem EXCEPT !.susp = Suspended(@, thread)]

\* rt_sem_release: a suspended thread gets the unit and value stays as it is;
\* at SemMax the unit is lost (-RT_EFULL)
SemRelease(sem) ==
    IF sem.susp # << >> THEN [sem EXCEPT !.susp = Resumed(@)]
    ELSE IF sem.value < SemMax THEN [sem EXCEPT !.value = @ + 1]
    ELSE sem

\* rt_sem_control(sem, RT_IPC_CMD_RESET, value): resumes every thread
SemReset(sem, value) == [sem EXCEPT !.value = value, !.susp = << >>]
=============================================================================
