-------------------------------- MODULE Timer --------------------------------
(***************************************************************************)
(* The scheduler behind the timer interrupt once the system runs:          *)
(* timer_handler of kernel/src/arch/x86_64/interrupts/idt.rs and           *)
(* Tick::tick_handler of kernel/src/arch/x86_64/tick.rs after calibration  *)
(* (module Boot has what comes before).                                    *)
(*                                                                         *)
(* The local APIC delivers no further timer interrupt while one is in      *)
(* service, that is, until end_interrupt.  preempt returns only when it    *)
(* does not switch: context_switch ends in the iretq of the next thread,   *)
(* so that the guard of TICKS is not dropped and end_interrupt not called. *)
(* The other methods are called from system calls, with interrupts masked, *)
(* and do not touch either.                                                *)
(***************************************************************************)
EXTENDS Executor

VARIABLES
    in_service,    \* the interrupt has been delivered and not acknowledged
    ticks_locked   \* TICKS is locked

timerVars == <<execVars, in_service, ticks_locked>>

\* preempt comes back to tick_handler.
PreemptReturns == ~ should_preempt

\* timer_handler: TICKS.lock().tick_handler(); APIC.lock().end_interrupt().
TimerTick ==
    /\ ~ in_service /\ ~ ticks_locked
    /\ Preempt
    /\ in_service' = ~ PreemptReturns
    /\ ticks_locked' = ~ PreemptReturns

TimerInit == ExecInit /\ in_service = FALSE /\ ticks_locked = FALSE

\* A call of the kernel that is not the timer.
Call == /\ \/ \E t \in Tcb : Prepare(t) \/ SetIdle(t) \/ Enqueue(t) \/ Wake(t)
           \/ YieldCurrent
           \/ \E s \in Blocked : BlockCurrent(s)
           \/ Run
        /\ UNCHANGED <<in_service, ticks_locked>>

TimerNext == TimerTick \/ Call

TimerSpec == TimerInit /\ [][TimerNext]_timerVars

\* The local APIC is in periodic mode: while no tick is in service, the next
\* one comes.
TimerFairSpec == TimerSpec /\ WF_timerVars(TimerTick)

(***************************************************************************)
(* Properties.                                                             *)
(***************************************************************************)
\* t has the earliest deadline of the ready threads, the lowest address among
\* equals, and an earlier deadline than the thread on the CPU.
Urgent(t) == \E e \in DOMAIN ready :
                /\ e.tcb = t
                /\ current # None => e.deadline < current.deadline
                /\ \A f \in DOMAIN ready \ {e} :
                       \/ e.deadline < f.deadline
                       \/ e.deadline = f.deadline /\ t < f.tcb

\* The next tick puts the most urgent thread on the CPU, that thread and no
\* other, unless a call makes it less urgent before the tick.  No tick has
\* switched threads yet: in_service stays set after the first that does
\* (timer_handler, should_preempt, context_switch).
UrgentServed == \A t \in Tcb :
    Urgent(t) /\ ~ in_service ~> OnCpu(t) \/ (~ Urgent(t) /\ ~ in_service)

(***************************************************************************)
(* A promise the code does not keep.                                       *)
(***************************************************************************)
\* Threads are scheduled by earliest deadline (README:9 "implements a
\* partitioned per-core EDF scheduler"): the most urgent ready thread does not
\* wait for ever behind a later deadline.
EdfServed == \A t \in Tcb : Urgent(t) ~> ~ Urgent(t)
=============================================================================
