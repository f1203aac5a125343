--------------------------------- MODULE Boot ---------------------------------
(***************************************************************************)
(* The boot of the kernel and the calibration of its timer: main and panic *)
(* of kernel/src/main.rs, Tick of arch/x86_64/tick.rs, timer_handler of    *)
(* arch/x86_64/interrupts/idt.rs, and the parts of the console, the APIC,  *)
(* the scheduler and the system call entry they call, on the boot CPU.     *)
(*                                                                         *)
(* main and the timer interrupt share TICKS and the logger, each behind a  *)
(* spin lock.  The handler runs with interrupts off and main does not run  *)
(* before it returns, so that a lock main holds is never released to it.   *)
(*                                                                         *)
(* Time is counted in steps of main: the PIT interval is period of them at *)
(* the fastest (a step takes at most one unit), a LAPIC tick at least one, *)
(* and the one-shot of the LAPIC, u32::MAX cycles, longer than the boot.   *)
(* period and the machine are chosen in Init and never change.             *)
(***************************************************************************)
EXTENDS Console, FiniteSets

CONSTANTS
    CALIBRATION_SAMPLES,
    MAX_CPUS,
    Cores,           \* the numbers of cores sysinfo() may report
    CpuId,           \* the APIC ids the boot CPU may have
    Periods,         \* the lengths of the PIT interval
    MSG_LEN,         \* the glyphs of a message
    Nobody           \* the owner of a free lock

ASSUME BootAssumption ==
    /\ CALIBRATION_SAMPLES \in Nat \ {0} /\ MAX_CPUS \in Nat \ {0}
    /\ Cores \subseteq Nat \ {0} /\ CpuId \subseteq Nat
    /\ Periods \subseteq Nat /\ MSG_LEN \in Nat \ {0}
    /\ Nobody \notin {"main", "handler", "panic"}

VARIABLES
    machine,      \* what the boot finds: see Machine
    pc,           \* the next step of main
    hpc,          \* the next step of the handler, "off" when it is not running
    hang,         \* why the CPU makes no further progress
    fb,           \* LOGGER.framebuffer
    logger,       \* who holds its lock
    left,         \* the characters the holder still has to write
    apic_mapped,  \* APIC has the addresses of the APICs
    irq,          \* the interrupt flag
    ticks,        \* TICKS
    mine,         \* main's clone of TICKS, in calibrate
    ticks_lock,   \* who holds the lock of TICKS
    timer,        \* "off", "pit" (counting down) or "lapic" (periodic)
    elapsed,      \* steps of main since the timer was started, up to period
    samples,      \* intervals measured
    cores,        \* the slots of PerCore that init_core has written
    next_core,    \* the loop variable of PerCore::new
    scheduler     \* SCHEDULER is set

mainVars == <<pc, mine, irq, apic_mapped, cores, next_core, scheduler>>
logVars == <<fb, logger, left>>
timeVars == <<timer, elapsed, samples>>
bootVars == <<machine, hpc, hang, mainVars, logVars, ticks, ticks_lock, timeVars>>

\* debug: built with debug_assertions, so that debug! writes.
Machine == [cores : Cores, cpu : CpuId, period : Periods, debug : BOOLEAN,
            missing : {"none", "framebuffer", "memory_offset", "rsdp", "apic"},
            supported_pixels : BOOLEAN]

\* Tick: the address it uses, is_calibration and calibration_idx.
Tick == [apic : BOOLEAN, is_calibration : BOOLEAN,
         idx : 0 .. CALIBRATION_SAMPLES]

\* A Tick that knows the APIC from the start.
NewTickMapped == [apic |-> TRUE, is_calibration |-> TRUE, idx |-> 0]

\* Tick::new, with Apic::new.
new_tick == [apic |-> FALSE, is_calibration |-> TRUE, idx |-> 0]

MainPc == {"console", "apic", "apic_set", "load", "lock", "route", "pit",
           "lapic", "unlock", "relock", "assign", "cores", "syscall",
           "run", "halt", "panic"}

TypeOK ==
    /\ machine \in Machine
    /\ pc \in MainPc
    /\ hpc \in {"off", "rearm", "periodic", "eoi", "panic"}
    /\ hang \in {"no", "spin", "page_fault", "double_panic", "undefined"}
    /\ fb \in Writer
    /\ logger \in {"main", "handler", "panic", Nobody}
    /\ left \in 0 .. MSG_LEN + 1
    /\ apic_mapped \in BOOLEAN /\ irq \in BOOLEAN /\ scheduler \in BOOLEAN
    /\ ticks \in Tick /\ mine \in Tick
    /\ ticks_lock \in {"main", Nobody}
    /\ timer \in {"off", "pit", "lapic"}
    /\ elapsed \in Nat /\ samples \in Nat /\ next_core \in Nat
    /\ cores \subseteq 0 .. MAX_CPUS - 1

(***************************************************************************)
(* The logger.                                                             *)
(***************************************************************************)
\* No log call.
quiet == UNCHANGED logVars

\* Logger::log up to the lock; its owner writes the message with WriteLog.
log(who) == /\ logger = Nobody
            /\ logger' = who
            /\ left' = MSG_LEN + 1
            /\ UNCHANGED fb

\* debug! of a build of either kind.
debug(who) == IF machine.debug THEN log(who) ELSE quiet

\* A logger that keeps its lock.
WriteLogKeepsLock(who) ==
    /\ logger = who /\ left > 0
    /\ fb' = write_char(fb, IF left = 1 THEN "newline" ELSE "glyph")
    /\ left' = left - 1
    /\ UNCHANGED logger

\* One character of the message, and with the last the end of the lock.
WriteLog(who) ==
    /\ logger = who /\ left > 0
    /\ fb' = write_char(fb, IF left = 1 THEN "newline" ELSE "glyph")
    /\ left' = left - 1
    /\ logger' = IF left = 1 THEN Nobody ELSE logger

\* The panic handler: the panic screen and a message, and main or the timer
\* handler does not go on.  The handler unwraps a try_lock: when the lock is
\* taken it panics again, on and on.
panic ==
    IF logger = Nobody
    THEN /\ fb' = panic_screen(fb)
         /\ logger' = "panic"
         /\ left' = MSG_LEN + 1
         /\ UNCHANGED hang
    ELSE /\ hang' = "double_panic"
         /\ quiet

(***************************************************************************)
(* main, step by step.  A step that logs leaves main writing the message.  *)
(***************************************************************************)
\* Steps of main as time: nothing is measured while no timer runs.
Saturation == IF machine.period = 0 THEN 1 ELSE machine.period

time_passes ==
    /\ elapsed' = IF timer = "off" \/ elapsed >= Saturation THEN elapsed
                  ELSE elapsed + 1
    /\ UNCHANGED <<timer, samples>>

\* main is at label l with no message to finish and the handler not running.
At(l) == pc = l /\ logger # "main" /\ hpc = "off" /\ hang = "no"

Goto(l) == pc' = l

\* console::init: the logger, its level and the first message.  Without a
\* framebuffer there is a panic with no logger to show it.
ConsoleInit ==
    /\ At("console")
    /\ IF machine.missing = "framebuffer"
       THEN Goto("panic") /\ quiet
       ELSE Goto("apic") /\ log("main")
    /\ UNCHANGED <<machine, hpc, hang, mine, irq, apic_mapped, cores,
                   next_core, scheduler, ticks, ticks_lock, timeVars>>

\* The two expect() on what the bootloader found, and Apic::init, which panics
\* with "APIC is not supported"; with the legacy PIC masked.
ApicInit ==
    /\ At("apic")
    /\ IF machine.missing = "none"
       THEN Goto("apic_set") /\ log("main") /\ UNCHANGED hang
       ELSE Goto("panic") /\ panic
    /\ UNCHANGED <<machine, hpc, mine, irq, apic_mapped, cores, next_core,
                   scheduler, ticks, ticks_lock, timeVars>>

ApicAssign ==
    /\ At("apic_set") /\ Goto("load")
    /\ apic_mapped' = TRUE
    /\ quiet
    /\ UNCHANGED <<machine, hpc, hang, mine, irq, cores, next_core, scheduler,
                   ticks, ticks_lock, timeVars>>

\* interrupts::load.
LoadInterrupts ==
    /\ At("load") /\ Goto("lock")
    /\ irq' = TRUE
    /\ log("main")
    /\ UNCHANGED <<machine, hpc, hang, mine, apic_mapped, cores, next_core,
                   scheduler, ticks, ticks_lock, timeVars>>

\* TICKS.lock().clone() and the debug! of calibrate.
LockTicks ==
    /\ At("lock") /\ Goto("route")
    /\ ticks_lock' = "main"
    /\ mine' = ticks
    /\ debug("main")
    /\ UNCHANGED <<machine, hpc, hang, irq, apic_mapped, cores, next_core,
                   scheduler, ticks, timeVars>>

\* The fields set by calibrate, set_ioapic_pit_interrupt, and Pit::new up to
\* its debug!.
Calibrate ==
    /\ At("route") /\ Goto("pit")
    /\ mine' = [apic |-> apic_mapped, is_calibration |-> TRUE, idx |-> 0]
    /\ debug("main")
    /\ UNCHANGED <<machine, hpc, hang, irq, apic_mapped, cores, next_core,
                   scheduler, ticks, ticks_lock, timeVars>>

\* The ports written by Pit::new.
StartPit ==
    /\ At("pit") /\ Goto("lapic")
    /\ timer' = "pit" /\ elapsed' = 0
    /\ quiet
    /\ UNCHANGED <<machine, hpc, hang, mine, irq, apic_mapped, cores, next_core,
                   scheduler, ticks, ticks_lock, samples>>

\* init_counter and read_counter of the LAPIC: calibrate is done.
StartLapic ==
    /\ At("lapic") /\ Goto("unlock")
    /\ quiet /\ time_passes
    /\ UNCHANGED <<machine, hpc, hang, mine, irq, apic_mapped, cores, next_core,
                   scheduler, ticks, ticks_lock>>

\* The end of the statement let ticks = ... drops the guard.
UnlockTicks ==
    /\ At("unlock") /\ Goto("relock")
    /\ ticks_lock' = Nobody
    /\ quiet /\ time_passes
    /\ UNCHANGED <<machine, hpc, hang, mine, irq, apic_mapped, cores, next_core,
                   scheduler, ticks>>

RelockTicks ==
    /\ At("relock") /\ Goto("assign")
    /\ ticks_lock' = "main"
    /\ quiet /\ time_passes
    /\ UNCHANGED <<machine, hpc, hang, mine, irq, apic_mapped, cores, next_core,
                   scheduler, ticks>>

\* A guard of TICKS that outlives the assignment.
AssignTicksKeepsLock ==
    /\ At("assign") /\ Goto("cores")
    /\ ticks' = mine
    /\ quiet /\ time_passes
    /\ UNCHANGED <<machine, hpc, hang, mine, irq, apic_mapped, cores, next_core,
                   scheduler, ticks_lock>>

\* *TICKS.lock() = ticks.
AssignTicks ==
    /\ At("assign") /\ Goto("cores")
    /\ ticks' = mine
    /\ ticks_lock' = Nobody
    /\ quiet /\ time_passes
    /\ UNCHANGED <<machine, hpc, hang, mine, irq, apic_mapped, cores, next_core,
                   scheduler>>

\* One round of the loop of PerCore::new: init_core, or its warn!.
InitCore ==
    /\ At("cores") /\ next_core < machine.cores
    /\ cores' = IF next_core < MAX_CPUS THEN cores \cup {next_core} ELSE cores
    /\ IF next_core < MAX_CPUS THEN quiet ELSE log("main")
    /\ next_core' = next_core + 1
    /\ time_passes
    /\ UNCHANGED <<machine, hpc, hang, pc, mine, irq, apic_mapped, scheduler,
                   ticks, ticks_lock>>

\* The end of the loop, and SCHEDULER.set with the info! after it.
SetScheduler ==
    /\ At("cores") /\ next_core = machine.cores /\ Goto("syscall")
    /\ scheduler' = TRUE
    /\ log("main") /\ time_passes
    /\ UNCHANGED <<machine, hpc, hang, mine, irq, apic_mapped, cores, next_core,
                   ticks, ticks_lock>>

\* init_syscall: a debug! and registers of no concern here.
InitSyscall ==
    /\ At("syscall") /\ Goto("run")
    /\ debug("main") /\ time_passes
    /\ UNCHANGED <<machine, hpc, hang, mine, irq, apic_mapped, cores, next_core,
                   scheduler, ticks, ticks_lock>>

\* PerCore::get_mut, which indexes the slots with cpuid(): the next label of the
\* caller is `ok`, or it panics, or it uses a slot that nothing has written.
get_mut(label, ok) ==
    CASE machine.cpu >= MAX_CPUS -> label = "panic" /\ panic
      [] machine.cpu \in cores -> label = ok /\ quiet /\ UNCHANGED hang
      [] OTHER -> label = ok /\ quiet /\ hang' = "undefined"

\* SCHEDULER.get().unwrap().get_mut(), and run(), which with no thread and no
\* idle thread halts for good.
RunExecutor ==
    /\ At("run")
    /\ get_mut(pc', "halt")
    /\ time_passes
    /\ UNCHANGED <<machine, hpc, mine, irq, apic_mapped, cores, next_core,
                   scheduler, ticks, ticks_lock>>

\* A character of main's message or of its panic.  A pixel format that
\* write_pixel does not know makes it panic under the lock of the logger.
MainLog ==
    /\ hpc = "off" /\ hang = "no"
    /\ IF machine.supported_pixels
       THEN (WriteLog("main") \/ WriteLog("panic")) /\ UNCHANGED <<hang, pc>>
       ELSE left > 0 /\ Goto("panic") /\ panic
    /\ time_passes
    /\ UNCHANGED <<machine, hpc, mine, irq, apic_mapped, cores, next_core,
                   scheduler, ticks, ticks_lock>>

(***************************************************************************)
(* timer_handler.                                                          *)
(***************************************************************************)
\* main is in a loop that it never leaves, and time passes.
Idle == pc \in {"halt", "panic"}

\* The IO-APIC sends the PIT to the CPU with APIC id 0.  Any other has the
\* interrupt of its LAPIC, which counts down along with the PIT, when that
\* gets to 0.
Due == /\ irq
       /\ \/ timer = "pit" /\ machine.cpu = 0 /\ (elapsed >= machine.period \/ Idle)
          \/ timer = "pit" /\ machine.cpu # 0 /\ Idle /\ left = 0
          \/ timer = "lapic" /\ (elapsed >= 1 \/ Idle)

\* The u32 sum of the samples overflows when each is a whole LAPIC one-shot:
\* an overflow check of a debug build fails.
SumPanics == machine.debug /\ machine.cpu # 0

\* The call of log!, at the step the handler goes on with.  With the lock
\* taken by main the handler spins, and main does not run.
HandlerLogs(l, wanted) ==
    IF wanted /\ logger # Nobody
    THEN hang' = "spin" /\ quiet /\ UNCHANGED hpc
    ELSE /\ hpc' = l
         /\ IF wanted THEN log("handler") ELSE quiet
         /\ UNCHANGED hang

\* The page fault handler, reached from the first access of end_calibration:
\* it logs and returns to the instruction that faulted.
page_fault == /\ hang' = "page_fault"
              /\ quiet
              /\ UNCHANGED <<hpc, ticks, samples>>

\* end_calibration up to its message.  A Tick with no APIC reads address 0.
end_calibration ==
    IF ~ ticks.apic
    THEN page_fault
    ELSE LET idx == IF ticks.idx < CALIBRATION_SAMPLES THEN ticks.idx + 1
                    ELSE ticks.idx
         IN  /\ ticks' = [ticks EXCEPT !.idx = idx]
             /\ samples' = samples + 1
             /\ IF idx < CALIBRATION_SAMPLES
                THEN HandlerLogs("rearm", machine.debug)
                ELSE IF SumPanics THEN hpc' = "panic" /\ panic
                ELSE HandlerLogs("periodic", TRUE)

\* The interrupt, tick_handler and the scheduler: with no thread to switch to
\* preempt returns.  A one-shot timer that has fired is off.
TimerInterrupt ==
    /\ Due /\ hpc = "off" /\ hang = "no"
    /\ timer' = IF timer = "pit" THEN "off" ELSE timer
    /\ elapsed' = 0
    /\ IF ticks_lock # Nobody
       THEN hang' = "spin" /\ quiet /\ UNCHANGED <<hpc, ticks, samples>>
       ELSE IF ticks.is_calibration THEN end_calibration
       ELSE /\ IF scheduler
               THEN get_mut(hpc', "eoi")
               ELSE hpc' = "panic" /\ panic   \* "scheduler not initialized"
            /\ UNCHANGED <<ticks, samples>>
    /\ UNCHANGED <<machine, mainVars, ticks_lock>>

\* A character of the handler's message.
HandlerLog ==
    /\ hpc # "off" /\ hang = "no"
    /\ WriteLog("handler") \/ WriteLog("panic")
    /\ UNCHANGED <<machine, hpc, hang, mainVars, ticks, ticks_lock, timeVars>>

\* The step l of the handler, once its message is written.
HandlerAt(l) == hpc = l /\ logger # "handler" /\ hang = "no"

\* init_counters.
Rearm ==
    /\ HandlerAt("rearm")
    /\ hpc' = "eoi"
    /\ timer' = "pit" /\ elapsed' = 0
    /\ UNCHANGED <<machine, hang, mainVars, logVars, ticks, ticks_lock, samples>>

\* The LAPIC in periodic mode.
SetPeriodic ==
    /\ HandlerAt("periodic")
    /\ hpc' = "eoi"
    /\ timer' = "lapic" /\ elapsed' = 0
    /\ ticks' = [ticks EXCEPT !.is_calibration = FALSE]
    /\ UNCHANGED <<machine, hang, mainVars, logVars, ticks_lock, samples>>

EndInterrupt ==
    /\ HandlerAt("eoi")
    /\ hpc' = "off"
    /\ UNCHANGED <<machine, hang, mainVars, logVars, ticks, ticks_lock, timeVars>>

(***************************************************************************)
(* The specification.                                                      *)
(***************************************************************************)
BootInit ==
    /\ machine \in Machine
    /\ pc = "console" /\ hpc = "off" /\ hang = "no"
    /\ fb = new_writer /\ logger = Nobody /\ left = 0
    /\ apic_mapped = FALSE /\ irq = FALSE
    /\ ticks = new_tick /\ mine = new_tick /\ ticks_lock = Nobody
    /\ timer = "off" /\ elapsed = 0 /\ samples = 0
    /\ cores = {} /\ next_core = 0 /\ scheduler = FALSE

Main == \/ ConsoleInit \/ ApicInit \/ ApicAssign \/ LoadInterrupts
        \/ LockTicks \/ Calibrate \/ StartPit \/ StartLapic
        \/ UnlockTicks \/ RelockTicks \/ AssignTicks
        \/ InitCore \/ SetScheduler \/ InitSyscall \/ RunExecutor
        \/ MainLog

Handler == HandlerLog \/ Rearm \/ SetPeriodic \/ EndInterrupt

BootNext == Main \/ TimerInterrupt \/ Handler

BootSpec == BootInit /\ [][BootNext]_bootVars

\* The CPU runs main or the handler; a timer that is due interrupts.
BootFairSpec == /\ BootSpec
                /\ WF_bootVars(Main)
                /\ WF_bootVars(TimerInterrupt)
                /\ WF_bootVars(Handler)

(***************************************************************************)
(* Properties.                                                             *)
(***************************************************************************)
\* The steps of main after the PIT is started: until TICKS is assigned; until
\* SCHEDULER is set; until the last message is written.
AssignSteps == 4
Unusable == IF machine.cores > MAX_CPUS THEN machine.cores - MAX_CPUS ELSE 0
SetSteps == AssignSteps + machine.cores + Unusable * (MSG_LEN + 1) + 1
BootSteps == SetSteps + 1 + (MSG_LEN + 1) * (IF machine.debug THEN 2 ELSE 1)

\* The first interval is longer than the way to *TICKS.lock() = ticks, and
\* the intervals before the first message of the handler are longer than the
\* boot: one interval with debug messages, all of them without.
IntervalsLongEnough ==
    /\ machine.period >= AssignSteps
    /\ machine.period * (IF machine.debug THEN 1 ELSE CALIBRATION_SAMPLES)
           >= BootSteps

\* The timer interrupt never waits for a lock the code it interrupted holds,
\* and never uses the TICKS from before calibration, when the intervals are
\* long enough (timer_handler, end_calibration, Logger::log).
NoSelfDeadlock == IntervalsLongEnough => hang \notin {"spin", "page_fault"}

\* No measured interval is lost or counted twice: main's assignment of TICKS
\* never writes over a sample of the handler, and the periodic timer starts
\* with exactly CALIBRATION_SAMPLES of them (calibrate, end_calibration).
CalibrationKept ==
    /\ ticks.idx = samples
    /\ timer = "lapic" => samples = CALIBRATION_SAMPLES

\* What the screen shows is readable: every glyph is inside it, and no two of
\* them overlap, whoever was interrupted writing it (write_char, newline).
GlyphsApart == Legible(fb)

\* The boot ends: with time enough, main halts and the timer is periodic, on
\* any CPU that has a slot (main, tick_handler); with overflow checks, on CPU 0.
BootEnds ==
    (/\ machine.missing = "none" /\ machine.supported_pixels
     /\ machine.cpu < machine.cores /\ machine.cpu < MAX_CPUS /\ ~ SumPanics
     /\ IntervalsLongEnough)
    ~> pc = "halt" /\ timer = "lapic"
=============================================================================
