------------------------------ MODULE BootProofs ------------------------------
(***************************************************************************)
(* Proofs about Boot, for every screen and font, number of cores, interval *)
(* and number of samples: what is on the screen is readable, no measured   *)
(* interval is lost, and with time enough nobody waits for ever for a      *)
(* lock.  The first section is about OnceLock, the cell that main puts the *)
(* schedulers in.                                                          *)
(***************************************************************************)
EXTENDS Boot, OnceLock, TLAPS

(***************************************************************************)
(* OnceLock, the cell SCHEDULER is, for any set of contexts.               *)
(***************************************************************************)
\* once tells who may touch value: nobody owns the cell unless it is
\* INITIALIZING, one context does then, and the value is there once published.
Discipline ==
    /\ \A c \in Context : Owns(c) => once = "INITIALIZING"
    /\ \A c, d \in Context : Owns(c) /\ Owns(d) => c = d
    /\ \A c \in Context : at[c] = "publish" => value # None
    /\ \A c \in Context : at[c] = "read" => once = "INITIALIZED"
    /\ once = "INITIALIZED" => value \in Context
    /\ \A c \in Context : result[c] \in Context =>
           once = "INITIALIZED" /\ result[c] = value
    /\ \A c \in Context : at[c] \in {"init", "wait", "recheck", "panicked"}
                             => fn[c] = "get_or_init"
    /\ \A c \in Context : at[c] = "fast" => fn[c] # "set"
    /\ \A c \in Context : at[c] = "cas" => fn[c] # "get"

OnceInv == CellTypeOK /\ Discipline

\* The invariant holds at the start.
LEMMA InitOnceInv == OnceInit => OnceInv
  BY ContextAssumption, Zenon DEF OnceInit, OnceInv, CellTypeOK, Discipline, Owns

\* A step of one context keeps the discipline.
LEMMA StepOnceInv ==
  ASSUME OnceInv, NEW c \in Context, get_or_init(c) \/ set(c) \/ get(c) \/ Step(c)
  PROVE  OnceInv'
<1>1. CASE get_or_init(c)
  BY <1>1, ContextAssumption, SMTT(30)
     DEF OnceInv, CellTypeOK, Discipline, Owns, Go, Return, get_or_init, Call
<1>2. CASE set(c)
  BY <1>2, ContextAssumption, SMTT(30)
     DEF OnceInv, CellTypeOK, Discipline, Owns, Go, Return, set, Call
<1>3. CASE get(c)
  BY <1>3, ContextAssumption, SMTT(30)
     DEF OnceInv, CellTypeOK, Discipline, Owns, Go, Return, get, Call
<1>4. CASE FastPath(c)
  BY <1>4, ContextAssumption, SMTT(30)
     DEF OnceInv, CellTypeOK, Discipline, Owns, Go, Return, FastPath
<1>5. CASE CompareExchange(c)
  BY <1>5, ContextAssumption, SMTT(30)
     DEF OnceInv, CellTypeOK, Discipline, Owns, Go, Return, CompareExchange
<1>6. CASE RunInit(c)
  BY <1>6, ContextAssumption, SMTT(30)
     DEF OnceInv, CellTypeOK, Discipline, Owns, Go, Return, RunInit
<1>7. CASE WriteValue(c)
  BY <1>7, ContextAssumption, SMTT(30)
     DEF OnceInv, CellTypeOK, Discipline, Owns, Go, Return, WriteValue
<1>8. CASE Publish(c)
  BY <1>8, ContextAssumption, SMTT(30)
     DEF OnceInv, CellTypeOK, Discipline, Owns, Go, Return, Publish
<1>9. CASE ReadValue(c)
  BY <1>9, ContextAssumption, SMTT(30)
     DEF OnceInv, CellTypeOK, Discipline, Owns, Go, Return, ReadValue
<1>10. CASE SpinLoop(c)
  BY <1>10, ContextAssumption, SMTT(30)
     DEF OnceInv, CellTypeOK, Discipline, Owns, Go, Return, SpinLoop
<1>11. CASE Recheck(c)
  BY <1>11, ContextAssumption, SMTT(30)
     DEF OnceInv, CellTypeOK, Discipline, Owns, Go, Return, Recheck
<1> QED
  BY <1>1, <1>2, <1>3, <1>4, <1>5, <1>6, <1>7, <1>8, <1>9, <1>10, <1>11, Zenon DEF Step

\* Every step of every context keeps it.
LEMMA NextOnceInv == OnceInv /\ [OnceNext]_onceVars => OnceInv'
<1> SUFFICES ASSUME OnceInv, [OnceNext]_onceVars PROVE OnceInv'
  BY Zenon
<1>1. CASE OnceNext
  BY <1>1, StepOnceInv, Zenon DEF OnceNext
<1>2. CASE UNCHANGED onceVars
  BY <1>2, Zenon DEF onceVars, OnceInv, CellTypeOK, Discipline, Owns
<1> QED
  BY <1>1, <1>2, Zenon

\* It holds in every reachable state.
LEMMA OnceInductive == OnceSpec => []OnceInv
  BY InitOnceInv, NextOnceInv, PTL DEF OnceSpec

\* The cell and the contexts are well typed.
THEOREM OnceTypeOK == OnceSpec => []CellTypeOK
  BY OnceInductive, PTL DEF OnceInv

\* No number of contexts can race on the plain cell.
THEOREM OnceRaceFree == OnceSpec => []RaceFree
<1>1. OnceInv => RaceFree
  BY ContextAssumption, Zenon DEF OnceInv, CellTypeOK, Discipline, RaceFree, Owns
<1> QED
  BY <1>1, OnceInductive, PTL

\* A published value is final, and is what every call returns.
THEOREM OnceWrittenOnce == OnceSpec => WrittenOnce
<1>1. OnceInv /\ [OnceNext]_onceVars =>
         [once = "INITIALIZED" => UNCHANGED <<once, value>>]_onceVars
  <2> SUFFICES ASSUME OnceInv, OnceNext, once = "INITIALIZED"
               PROVE  UNCHANGED <<once, value>>
    BY Zenon DEF onceVars
  <2>1. PICK c \in Context : get_or_init(c) \/ set(c) \/ get(c) \/ Step(c)
    BY Zenon DEF OnceNext
  <2>2. ~ Owns(c)
    BY Zenon DEF OnceInv, Discipline
  <2> QED
    BY <2>1, <2>2, Zenon DEF Owns, get_or_init, set, get, Call, Step, FastPath, CompareExchange,
       RunInit, WriteValue, Publish, ReadValue, SpinLoop, Recheck
<1>2. OnceInv => \A c \in Context : result[c] \in Context =>
                 once = "INITIALIZED" /\ result[c] = value
  BY Zenon DEF OnceInv, Discipline
<1> QED
  BY <1>1, <1>2, OnceInductive, PTL DEF WrittenOnce, OnceSpec

(***************************************************************************)
(* The screen: WriterInv is kept by everything that writes on it.          *)
(***************************************************************************)
\* Assignments to the fields of a writer.
LEMMA MoveWriter ==
    ASSUME NEW f \in Writer, NEW x \in Nat, NEW y \in Nat
    PROVE  [f EXCEPT !.x = x, !.y = y] \in Writer
  BY Zenon DEF Writer

\* The same for the glyphs.
LEMMA InkWriter ==
    ASSUME NEW f \in Writer, NEW k \in SUBSET (Nat \X Nat), NEW x \in Nat
    PROVE  [f EXCEPT !.ink = k, !.x = x] \in Writer
  BY Zenon DEF Writer

\* A new line is below every glyph.
LEMMA NewlineInv ==
    ASSUME NEW f, WriterInv(f)
    PROVE  /\ WriterInv(newline(f)) /\ newline(f).x = BORDER_PADDING
           /\ newline(f).ink = f.ink
<1> DEFINE g == newline(f)
<1>1. f \in Writer
  BY Zenon DEF WriterInv
<1>2. /\ g.x = BORDER_PADDING
      /\ g.y = f.y + CHAR_RASTER_HEIGHT + LINE_SPACING
      /\ g.ink = f.ink /\ g.panic_mode = f.panic_mode
  BY <1>1, Zenon DEF newline, Writer
<1>3. g \in Writer
  <2>1. f.y + CHAR_RASTER_HEIGHT + LINE_SPACING \in Nat /\ BORDER_PADDING \in Nat
    BY <1>1, ScreenAssumption DEF Writer, BORDER_PADDING, LINE_SPACING
  <2> QED BY <1>1, <2>1, MoveWriter, Zenon DEF newline
<1>4. ASSUME NEW p \in f.ink
      PROVE  p[2] + CHAR_RASTER_HEIGHT <= g.y
  <2>1. p[2] \in Nat /\ f.y \in Nat
    BY <1>1, Zenon DEF Writer
  <2>2. \/ p[2] + CHAR_RASTER_HEIGHT <= f.y
        \/ p[2] = f.y
    BY Zenon DEF WriterInv
  <2> QED BY <1>2, <2>1, <2>2, ScreenAssumption DEF LINE_SPACING
<1>5. g.x >= BORDER_PADDING /\ g.y >= BORDER_PADDING
  <2>1. f.y \in Nat /\ f.y >= BORDER_PADDING
    BY <1>1, Zenon DEF Writer, WriterInv
  <2> QED BY <1>2, <2>1, ScreenAssumption DEF BORDER_PADDING, LINE_SPACING
<1>6. Legible(g)
  BY <1>2, Zenon DEF WriterInv, Legible
<1> HIDE DEF g
<1>7. WriterInv(g)
  BY <1>2, <1>3, <1>4, <1>5, <1>6, Zenon DEF WriterInv
<1> QED BY <1>2, <1>7, Zenon DEF g

\* A filled screen has no glyph.
LEMMA ClearInv ==
    ASSUME NEW f, f \in Writer
    PROVE  /\ WriterInv(clear(f))
           /\ clear(f).x = BORDER_PADDING /\ clear(f).y = BORDER_PADDING
<1> DEFINE g == clear(f)
<1>1. g.x = BORDER_PADDING /\ g.y = BORDER_PADDING /\ g.ink = {} /\ g \in Writer
  BY Zenon DEF clear, Writer, BORDER_PADDING
<1> HIDE DEF g
<1>2. WriterInv(g)
  BY <1>1 DEF WriterInv, Legible, BORDER_PADDING
<1> QED BY <1>1, <1>2, Zenon DEF g

\* A glyph drawn inside the screen is apart from the others.
LEMMA DrawInv ==
    ASSUME NEW f, WriterInv(f),
           f.x + CHAR_RASTER_WIDTH <= Width, f.y + CHAR_RASTER_HEIGHT <= Height
    PROVE  WriterInv(write_rendered_char(f))
<1> DEFINE g == write_rendered_char(f)
           here == <<f.x, f.y>>
<1>1. f \in Writer /\ f.x \in Nat /\ f.y \in Nat
  BY Zenon DEF WriterInv, Writer
<1>2. /\ g.ink = f.ink \cup {here} /\ g.y = f.y
      /\ g.x = f.x + CHAR_RASTER_WIDTH /\ g.panic_mode = f.panic_mode
  BY <1>1, ScreenAssumption DEF write_rendered_char, Writer, LETTER_SPACING
<1>3. g \in Writer
  <2>1. f.ink \cup {here} \in SUBSET (Nat \X Nat)
    BY <1>1 DEF Writer
  <2>2. f.x + CHAR_RASTER_WIDTH + LETTER_SPACING \in Nat
    BY <1>1, ScreenAssumption DEF LETTER_SPACING
  <2> QED BY <1>1, <2>1, <2>2, InkWriter, Zenon DEF write_rendered_char
<1>4. ASSUME NEW p \in f.ink
      PROVE  /\ p[1] \in Nat /\ p[2] \in Nat
             /\ \/ p[2] + CHAR_RASTER_HEIGHT <= f.y
                \/ p[2] = f.y /\ p[1] + CHAR_RASTER_WIDTH <= f.x
  BY <1>1, Zenon DEF Writer, WriterInv
<1>5. here[1] = f.x /\ here[2] = f.y
  BY Zenon
<1> HIDE DEF g, here
<1>6. \A p \in g.ink : Inside(p)
  BY <1>2, <1>5, Zenon DEF WriterInv, Legible, Inside
<1>7. ASSUME NEW p \in f.ink
      PROVE  Apart(p, here) /\ Apart(here, p)
  BY <1>4, <1>5, Zenon DEF Apart
<1>8. \A p, q \in g.ink : p # q => Apart(p, q)
  BY <1>2, <1>7, Zenon DEF WriterInv, Legible
<1>9. ASSUME NEW p \in g.ink
      PROVE  \/ p[2] + CHAR_RASTER_HEIGHT <= g.y
             \/ p[2] = g.y /\ p[1] + CHAR_RASTER_WIDTH <= g.x
  <2>1. CASE p = here
    BY <1>1, <1>2, <1>5, <2>1, ScreenAssumption
  <2>2. CASE p \in f.ink
    BY <1>1, <1>2, <1>4, <2>2, ScreenAssumption
  <2> QED BY <1>2, <2>1, <2>2, Zenon
<1>10. g.x >= BORDER_PADDING /\ g.y >= BORDER_PADDING
  BY <1>1, <1>2, ScreenAssumption DEF WriterInv, BORDER_PADDING
<1>11. WriterInv(g)
  BY <1>3, <1>6, <1>8, <1>9, <1>10, Zenon DEF WriterInv, Legible
<1> QED BY <1>11, Zenon DEF g

\* A character is written on a readable screen, wherever the last one ended.
LEMMA WriteCharInv ==
    ASSUME NEW f, WriterInv(f), NEW c
    PROVE  WriterInv(write_char(f, c))
<1> DEFINE u == wrap(f)
           v == scroll(u)
<1>1. WriterInv(u) /\ u.x + CHAR_RASTER_WIDTH <= Width
  <2>1. CASE f.x + CHAR_RASTER_WIDTH >= Width
    BY <2>1, NewlineInv, ScreenAssumption DEF wrap, BORDER_PADDING
  <2>2. CASE ~ (f.x + CHAR_RASTER_WIDTH >= Width)
    <3>1. f.x \in Nat
      BY Zenon DEF WriterInv, Writer
    <3> QED BY <2>2, <3>1, ScreenAssumption DEF wrap
  <2> QED BY <2>1, <2>2, Zenon
<1> HIDE DEF u
<1>2. u \in Writer /\ u.y \in Nat
  BY <1>1, Zenon DEF WriterInv, Writer
<1>3. /\ WriterInv(v) /\ v.x + CHAR_RASTER_WIDTH <= Width
      /\ v.y + CHAR_RASTER_HEIGHT <= Height
  <2>1. CASE u.y + CHAR_RASTER_HEIGHT + BORDER_PADDING >= Height
    BY <1>2, <2>1, ClearInv, ScreenAssumption DEF scroll, BORDER_PADDING
  <2>2. CASE ~ (u.y + CHAR_RASTER_HEIGHT + BORDER_PADDING >= Height)
    BY <1>1, <1>2, <2>2, ScreenAssumption DEF scroll, BORDER_PADDING
  <2> QED BY <2>1, <2>2, Zenon
<1> HIDE DEF v
<1>4. WriterInv(write_rendered_char(v))
  BY <1>3, DrawInv, Zenon
<1> QED BY <1>4, NewlineInv, Zenon DEF write_char, u, v

\* The panic screen has no glyph.
LEMMA PanicScreenInv == ASSUME NEW f PROVE WriterInv(panic_screen(f))
<1> DEFINE g == panic_screen(f)
<1>1. g.x = BORDER_PADDING /\ g.y = BORDER_PADDING /\ g.ink = {} /\ g \in Writer
  BY Zenon DEF panic_screen, Writer, BORDER_PADDING
<1> HIDE DEF g
<1>2. WriterInv(g)
  BY <1>1 DEF WriterInv, Legible, BORDER_PADDING
<1> QED BY <1>2, Zenon DEF g

\* What a step may do to the screen.
Writes == \/ fb' = fb
          \/ fb' = panic_screen(fb)
          \/ \E c \in Char : fb' = write_char(fb, c)

\* Every step of main and of the handler writes a character, draws the panic
\* screen or leaves the screen alone.
LEMMA StepsWrite == ASSUME [BootNext]_bootVars PROVE Writes
<1>1. quiet => Writes
  BY Zenon DEF quiet, logVars, Writes
<1>2. \A who : log(who) => Writes
  BY Zenon DEF log, Writes
<1>3. \A who : debug(who) => Writes
  BY <1>1, <1>2, Zenon DEF debug
<1>4. \A who : WriteLog(who) => Writes
  BY Zenon DEF WriteLog, Char, Writes
<1>5. panic => Writes
  BY <1>1, Zenon DEF panic, Writes
<1>6. \A l, w : HandlerLogs(l, w) => Writes
  BY <1>1, <1>2, Zenon DEF HandlerLogs
<1>7. CASE Main
  <2>1. ConsoleInit \/ LoadInterrupts \/ SetScheduler => Writes
    BY <1>1, <1>2, Zenon DEF ConsoleInit, LoadInterrupts, SetScheduler
  <2>2. ApicInit => Writes
    BY <1>2, <1>5, Zenon DEF ApicInit
  <2>3. ApicAssign \/ StartPit \/ StartLapic \/ UnlockTicks \/ RelockTicks
           \/ AssignTicks => Writes
    BY <1>1, Zenon DEF ApicAssign, StartPit, StartLapic, UnlockTicks, RelockTicks,
                AssignTicks
  <2>4. LockTicks \/ Calibrate \/ InitSyscall => Writes
    BY <1>3, Zenon DEF LockTicks, Calibrate, InitSyscall
  <2>5. InitCore => Writes
    BY <1>1, <1>2, Zenon DEF InitCore
  <2>6. RunExecutor => Writes
    BY <1>1, <1>5, Zenon DEF RunExecutor, get_mut
  <2>7. MainLog => Writes
    BY <1>4, <1>5, Zenon DEF MainLog
  <2> QED BY <1>7, <2>1, <2>2, <2>3, <2>4, <2>5, <2>6, <2>7, Zenon DEF Main
<1>8. CASE TimerInterrupt
  <2>1. end_calibration => Writes
    BY <1>1, <1>5, <1>6, Zenon DEF end_calibration, page_fault
  <2>2. get_mut(hpc', "eoi") => Writes
    BY <1>1, <1>5, Zenon DEF get_mut
  <2> QED BY <1>1, <1>5, <1>8, <2>1, <2>2, Zenon DEF TimerInterrupt
<1>9. CASE Handler
  <2>1. HandlerLog => Writes
    BY <1>4, Zenon DEF HandlerLog
  <2>2. Rearm \/ SetPeriodic \/ EndInterrupt => Writes
    BY Zenon DEF Rearm, SetPeriodic, EndInterrupt, logVars, Writes
  <2> QED BY <1>9, <2>1, <2>2, Zenon DEF Handler
<1>10. CASE UNCHANGED bootVars
  BY <1>10, Zenon DEF bootVars, logVars, Writes
<1> QED BY <1>7, <1>8, <1>9, <1>10, Zenon DEF BootNext

\* What the screen shows is readable (GlyphsApart), for every size of the
\* screen with room for a glyph, every font and every message, though the
\* handler may write between two characters of main.
THEOREM BootGlyphsApart == BootSpec => []GlyphsApart
<1>1. BootInit => WriterInv(fb)
  <2>1. [x |-> 0, y |-> 0, panic_mode |-> FALSE, ink |-> {}] \in Writer
    BY Zenon DEF Writer
  <2> QED BY <2>1, ClearInv, Zenon DEF BootInit, new_writer
<1>2. WriterInv(fb) /\ [BootNext]_bootVars => WriterInv(fb)'
  BY StepsWrite, WriteCharInv, PanicScreenInv, Zenon DEF Writes
<1>3. WriterInv(fb) => GlyphsApart
  BY Zenon DEF WriterInv, GlyphsApart
<1> QED BY <1>1, <1>2, <1>3, PTL DEF BootSpec

(***************************************************************************)
(* The types.                                                              *)
(***************************************************************************)
Hang == {"no", "spin", "page_fault", "double_panic", "undefined"}
Hpc == {"off", "rearm", "periodic", "eoi", "panic"}
LogTypes == /\ logger \in {"main", "handler", "panic", Nobody}
            /\ left \in 0 .. MSG_LEN + 1
TimeTypes == /\ timer \in {"off", "pit", "lapic"}
             /\ elapsed \in Nat /\ samples \in Nat
TickTypes == ticks \in Tick /\ mine \in Tick /\ ticks_lock \in {"main", Nobody}
CoreTypes == /\ next_core \in Nat /\ cores \subseteq 0 .. MAX_CPUS - 1
FlagTypes == apic_mapped \in BOOLEAN /\ irq \in BOOLEAN /\ scheduler \in BOOLEAN

\* TypeOK, by the parts that change together.
LEMMA TypeParts ==
    TypeOK <=> /\ machine \in Machine /\ pc \in MainPc /\ hpc \in Hpc
               /\ hang \in Hang /\ fb \in Writer
               /\ LogTypes /\ TimeTypes /\ TickTypes /\ CoreTypes /\ FlagTypes
  BY Zenon DEF TypeOK, Hang, Hpc, LogTypes, TimeTypes, TickTypes, CoreTypes, FlagTypes

\* What is called from more than one step.
LEMMA CallTypes ==
    ASSUME LogTypes, TimeTypes, hang \in Hang, hpc \in Hpc
    PROVE  /\ quiet => LogTypes'
           /\ \A who \in {"main", "handler", "panic"} :
                 log(who) \/ debug(who) \/ WriteLog(who) => LogTypes'
           /\ panic => LogTypes' /\ hang' \in Hang
           /\ \A l \in Hpc : \A w : HandlerLogs(l, w) =>
                 LogTypes' /\ hang' \in Hang /\ hpc' \in Hpc
           /\ time_passes => TimeTypes'
<1>1. quiet => LogTypes'
  BY Zenon DEF quiet, logVars, LogTypes
<1>2. \A who \in {"main", "handler", "panic"} : log(who) => LogTypes'
  BY BootAssumption DEF log, LogTypes
<1>3. \A who : WriteLog(who) => LogTypes'
  BY BootAssumption DEF WriteLog, LogTypes
<1>4. panic => LogTypes' /\ hang' \in Hang
  BY <1>1, BootAssumption DEF panic, LogTypes, Hang
<1>5. \A l \in Hpc : \A w : HandlerLogs(l, w) =>
        LogTypes' /\ hang' \in Hang /\ hpc' \in Hpc
  BY <1>1, <1>2, Zenon DEF HandlerLogs, Hang
<1>6. time_passes => TimeTypes'
  BY DEF time_passes, TimeTypes
<1> QED BY <1>1, <1>2, <1>3, <1>4, <1>5, <1>6, Zenon DEF debug

\* The fields of a Tick that are assigned.
LEMMA TickFields ==
    /\ new_tick \in Tick
    /\ \A a \in BOOLEAN :
          [apic |-> a, is_calibration |-> TRUE, idx |-> 0] \in Tick
    /\ \A t \in Tick : /\ t.idx \in 0 .. CALIBRATION_SAMPLES
                        /\ [t EXCEPT !.is_calibration = FALSE] \in Tick
    /\ \A t \in Tick, i \in 0 .. CALIBRATION_SAMPLES :
          [t EXCEPT !.idx = i] \in Tick
<1>1. 0 \in 0 .. CALIBRATION_SAMPLES
  BY BootAssumption
<1>2. \A a \in BOOLEAN :
         [apic |-> a, is_calibration |-> TRUE, idx |-> 0] \in Tick
  BY <1>1, Zenon DEF Tick
<1>3. new_tick \in Tick
  BY <1>2, Zenon DEF new_tick
<1>4. \A t \in Tick : /\ t.idx \in 0 .. CALIBRATION_SAMPLES
                       /\ [t EXCEPT !.is_calibration = FALSE] \in Tick
  BY Zenon DEF Tick
<1>5. \A t \in Tick, i \in 0 .. CALIBRATION_SAMPLES :
         [t EXCEPT !.idx = i] \in Tick
  BY Zenon DEF Tick
<1> QED BY <1>2, <1>3, <1>4, <1>5, Zenon

\* The steps of main.
LEMMA MainTypes ==
    ASSUME TypeOK, Main, fb' \in Writer
    PROVE  TypeOK'
<1>1. /\ machine \in Machine /\ pc \in MainPc /\ hpc \in Hpc
      /\ hang \in Hang /\ fb \in Writer
      /\ LogTypes /\ TimeTypes /\ TickTypes /\ CoreTypes /\ FlagTypes
  BY TypeParts, Zenon
<1> SUFFICES /\ machine' \in Machine /\ pc' \in MainPc /\ hpc' \in Hpc
             /\ hang' \in Hang
             /\ LogTypes' /\ TimeTypes' /\ TickTypes' /\ CoreTypes' /\ FlagTypes'
  BY Zenon DEF TypeOK, Hang, Hpc, LogTypes, TimeTypes, TickTypes, CoreTypes,
               FlagTypes
<1>2. machine' = machine /\ hpc' = hpc
  BY Zenon DEF Main, ConsoleInit, ApicInit, ApicAssign, LoadInterrupts, LockTicks,
         Calibrate, StartPit, StartLapic, UnlockTicks, RelockTicks, AssignTicks,
         InitCore, SetScheduler, InitSyscall, RunExecutor, MainLog
<1> USE <1>1, <1>2, CallTypes
<1>3. CASE ConsoleInit \/ ApicInit \/ ApicAssign \/ LoadInterrupts
  BY <1>3, Zenon DEF ConsoleInit, ApicInit, ApicAssign, LoadInterrupts, Goto, MainPc,
              timeVars, TimeTypes, TickTypes, CoreTypes, FlagTypes
<1>4. CASE LockTicks \/ StartPit \/ StartLapic \/ UnlockTicks \/ RelockTicks
           \/ AssignTicks
  <2>1. CoreTypes' /\ FlagTypes' /\ hang' = hang
    BY <1>4, Zenon DEF LockTicks, StartPit, StartLapic, UnlockTicks, RelockTicks,
                       AssignTicks, CoreTypes, FlagTypes
  <2>2. pc' \in MainPc
    BY <1>4, Zenon DEF LockTicks, StartPit, StartLapic, UnlockTicks, RelockTicks,
                       AssignTicks, Goto, MainPc
  <2>3. LogTypes'
    BY <1>4, Zenon DEF LockTicks, StartPit, StartLapic, UnlockTicks, RelockTicks,
                       AssignTicks
  <2>4. TickTypes'
    BY <1>4, Zenon DEF LockTicks, StartPit, StartLapic, UnlockTicks, RelockTicks,
                       AssignTicks, TickTypes
  <2>5. TimeTypes'
    <3>1. CASE StartPit
      BY <3>1, Zenon DEF StartPit, TimeTypes
    <3>2. CASE LockTicks
      BY <3>2, Zenon DEF LockTicks, timeVars, TimeTypes
    <3> QED BY <1>4, <3>1, <3>2, Zenon
              DEF StartLapic, UnlockTicks, RelockTicks, AssignTicks
  <2> QED BY <2>1, <2>2, <2>3, <2>4, <2>5, Zenon
<1>5. CASE Calibrate
  <2>1. mine' \in Tick
    BY <1>5, TickFields, Zenon DEF Calibrate, FlagTypes
  <2> QED BY <1>5, <2>1, Zenon DEF Calibrate, Goto, MainPc, timeVars, TimeTypes,
                            TickTypes, CoreTypes, FlagTypes
<1>6. CASE InitCore
  <2>1. CoreTypes'
    BY <1>6, BootAssumption DEF InitCore, CoreTypes
  <2> QED BY <1>6, <2>1, Zenon DEF InitCore, TickTypes, FlagTypes
<1>7. CASE SetScheduler \/ InitSyscall
  BY <1>7, Zenon DEF SetScheduler, InitSyscall, Goto, MainPc, TickTypes,
                     CoreTypes, FlagTypes
<1>8. CASE RunExecutor
  <2>1. pc' \in MainPc /\ hang' \in Hang /\ LogTypes'
    BY <1>8, Zenon DEF RunExecutor, get_mut, MainPc, Hang
  <2> QED BY <1>8, <2>1, Zenon DEF RunExecutor, TickTypes, CoreTypes, FlagTypes
<1>9. CASE MainLog
  <2>1. pc' \in MainPc /\ hang' \in Hang /\ LogTypes'
    BY <1>9, Zenon DEF MainLog, Goto, MainPc
  <2> QED BY <1>9, <2>1, Zenon DEF MainLog, TickTypes, CoreTypes, FlagTypes
<1> QED BY <1>3, <1>4, <1>5, <1>6, <1>7, <1>8, <1>9, Zenon DEF Main

\* The steps of the handler.
LEMMA HandlerTypes ==
    ASSUME TypeOK, TimerInterrupt \/ Handler, fb' \in Writer
    PROVE  TypeOK'
<1>1. /\ machine \in Machine /\ pc \in MainPc /\ hpc \in Hpc
      /\ hang \in Hang /\ fb \in Writer
      /\ LogTypes /\ TimeTypes /\ TickTypes /\ CoreTypes /\ FlagTypes
  BY TypeParts, Zenon
<1>2. /\ machine' \in Machine /\ pc' \in MainPc /\ CoreTypes' /\ FlagTypes'
      /\ mine' \in Tick /\ ticks_lock' \in {"main", Nobody}
  <2>1. UNCHANGED <<machine, mainVars, ticks_lock>>
    BY Zenon DEF TimerInterrupt, Handler, HandlerLog, Rearm, SetPeriodic, EndInterrupt
  <2> QED BY <1>1, <2>1, Zenon DEF mainVars, CoreTypes, FlagTypes, TickTypes
<1> SUFFICES /\ hpc' \in Hpc /\ hang' \in Hang /\ ticks' \in Tick
             /\ LogTypes' /\ TimeTypes'
  BY <1>2, Zenon DEF TypeOK, Hang, Hpc, LogTypes, TimeTypes, TickTypes, CoreTypes,
                     FlagTypes
<1> USE <1>1, CallTypes
<1>3. CASE TimerInterrupt
  <2>1. timer' \in {"off", "pit", "lapic"} /\ elapsed' \in Nat
    BY <1>3, Zenon DEF TimerInterrupt, TimeTypes
  <2>2. end_calibration => /\ hpc' \in Hpc /\ hang' \in Hang /\ ticks' \in Tick
                           /\ LogTypes' /\ samples' \in Nat
    <3> SUFFICES ASSUME end_calibration
                 PROVE  /\ hpc' \in Hpc /\ hang' \in Hang /\ ticks' \in Tick
                        /\ LogTypes' /\ samples' \in Nat
      BY Zenon
    <3>1. CASE ~ ticks.apic
      <4>1. page_fault
        BY <3>1, Zenon DEF end_calibration
      <4> QED BY <4>1, Zenon DEF page_fault, Hang, TickTypes, TimeTypes
    <3>2. CASE ticks.apic
      <4> DEFINE idx == IF ticks.idx < CALIBRATION_SAMPLES THEN ticks.idx + 1
                        ELSE ticks.idx
      <4>1. /\ ticks' = [ticks EXCEPT !.idx = idx]
            /\ samples' = samples + 1
            /\ \/ HandlerLogs("periodic", TRUE) \/ HandlerLogs("rearm", machine.debug)
               \/ hpc' = "panic" /\ panic
        BY <3>2, Zenon DEF end_calibration
      <4>2. ticks.idx \in 0 .. CALIBRATION_SAMPLES /\ ticks \in Tick
        BY TickFields, Zenon DEF TickTypes
      <4>3. idx \in 0 .. CALIBRATION_SAMPLES
        BY <4>2, BootAssumption
      <4> HIDE DEF idx
      <4>4. ticks' \in Tick
        BY <4>1, <4>2, <4>3, TickFields, Zenon
      <4>5. samples' \in Nat
        BY <4>1 DEF TimeTypes
      <4>6. "periodic" \in Hpc /\ "rearm" \in Hpc /\ "panic" \in Hpc
        BY Zenon DEF Hpc
      <4>7. LogTypes' /\ hang' \in Hang /\ hpc' \in Hpc
        BY <4>1, <4>6, Zenon
      <4> QED BY <4>4, <4>5, <4>7, Zenon
    <3> QED BY <3>1, <3>2, Zenon
  <2>3. /\ hpc' \in Hpc /\ hang' \in Hang /\ ticks' \in Tick
        /\ LogTypes' /\ samples' \in Nat
    <3>1. CASE ticks_lock # Nobody \/ ticks.is_calibration
      BY <1>3, <2>2, <3>1, Zenon DEF TimerInterrupt, Hang, TickTypes, TimeTypes
    <3>2. CASE ~ (ticks_lock # Nobody \/ ticks.is_calibration)
      <4>1. UNCHANGED <<ticks, samples>>
        BY <1>3, <3>2, Zenon DEF TimerInterrupt
      <4>2. \/ hpc' = "eoi" /\ quiet /\ hang' \in {hang, "undefined"}
            \/ hpc' = "panic" /\ panic
        BY <1>3, <3>2, Zenon DEF TimerInterrupt, get_mut
      <4>3. hpc' \in Hpc /\ hang' \in Hang /\ LogTypes'
        BY <4>2, Zenon DEF Hpc, Hang
      <4> QED BY <4>1, <4>3, Zenon DEF TickTypes, TimeTypes
    <3> QED BY <3>1, <3>2, Zenon
  <2> QED BY <2>1, <2>3, Zenon DEF TimeTypes
<1>4. CASE HandlerLog
  BY <1>4, Zenon DEF HandlerLog, timeVars, TimeTypes, TickTypes
<1>5. CASE Rearm
  BY <1>5, Zenon DEF Rearm, logVars, LogTypes, TimeTypes, TickTypes, Hpc
<1>6. CASE SetPeriodic
  BY <1>6, TickFields, Zenon DEF SetPeriodic, logVars, LogTypes, TimeTypes, TickTypes, Hpc
<1>7. CASE EndInterrupt
  BY <1>7, Zenon DEF EndInterrupt, logVars, timeVars, LogTypes, TimeTypes, TickTypes, Hpc
<1> QED BY <1>3, <1>4, <1>5, <1>6, <1>7, Zenon DEF Handler

\* The types hold for every machine (TypeOK): among them that init_core writes
\* no slot past MAX_CPUS, whatever sysinfo reports, and that the calibration
\* index never passes the end of its array (end_calibration).
THEOREM BootTypeOK == BootSpec => []TypeOK
<1> DEFINE Inv == TypeOK /\ WriterInv(fb)
<1>1. BootInit => Inv
  <2>1. [x |-> 0, y |-> 0, panic_mode |-> FALSE, ink |-> {}] \in Writer
    BY Zenon DEF Writer
  <2>2. BootInit => WriterInv(fb)
    BY <2>1, ClearInv, Zenon DEF BootInit, new_writer
  <2>3. ASSUME BootInit PROVE TypeOK
    <3>1. fb \in Writer /\ ticks \in Tick /\ mine \in Tick
      BY <2>2, <2>3, TickFields, Zenon DEF BootInit, WriterInv
    <3>2. 0 \in 0 .. MSG_LEN + 1 /\ {} \subseteq 0 .. MAX_CPUS - 1
      BY BootAssumption
    <3>3. LogTypes /\ TimeTypes
      BY <2>3, <3>2, Zenon DEF BootInit, LogTypes, TimeTypes
    <3>4. TickTypes /\ CoreTypes /\ FlagTypes
      BY <2>3, <3>1, <3>2, Zenon DEF BootInit, TickTypes, CoreTypes, FlagTypes
    <3>5. machine \in Machine /\ pc \in MainPc /\ hpc \in Hpc /\ hang \in Hang
      BY <2>3, Zenon DEF BootInit, MainPc, Hpc, Hang
    <3> QED BY <3>1, <3>3, <3>4, <3>5, TypeParts, Zenon
  <2> QED BY <2>2, <2>3, Zenon
<1>2. Inv /\ [BootNext]_bootVars => Inv'
  <2> SUFFICES ASSUME Inv, [BootNext]_bootVars PROVE Inv'
    BY Zenon
  <2>1. WriterInv(fb)'
    BY StepsWrite, WriteCharInv, PanicScreenInv, Zenon DEF Writes
  <2>2. fb' \in Writer
    BY <2>1, Zenon DEF WriterInv
  <2>3. CASE UNCHANGED bootVars
    BY <2>1, <2>3 DEF bootVars, mainVars, logVars, timeVars, TypeOK
  <2> QED BY <2>1, <2>2, <2>3, MainTypes, HandlerTypes, Zenon DEF BootNext
<1>3. Inv => TypeOK
  BY Zenon
<1> QED BY <1>1, <1>2, <1>3, PTL DEF BootSpec

(***************************************************************************)
(* The calibration.                                                        *)
(***************************************************************************)
\* main has not assigned TICKS; it has its clone ready.
BeforeAssign == {"console", "apic", "apic_set", "load", "lock", "route", "pit",
                 "lapic", "unlock", "relock", "assign"}
AfterCalibrate == {"pit", "lapic", "unlock", "relock", "assign"}

\* Why no sample is lost: until main assigns TICKS the handler has no APIC to
\* take one with, and the clone has none either; calibration goes on for as
\* long as there are fewer than CALIBRATION_SAMPLES, unless the handler hangs
\* or panics.
CalibrationInv ==
    /\ ticks \in Tick /\ samples \in Nat /\ apic_mapped \in BOOLEAN
    /\ ticks.idx = samples
    /\ pc \in BeforeAssign => ticks = new_tick
    /\ pc \in AfterCalibrate => /\ mine \in Tick /\ mine.is_calibration
                               /\ mine.idx = 0
    /\ ticks.is_calibration /\ hpc \notin {"periodic", "panic"} /\ hang = "no"
          => ticks.idx < CALIBRATION_SAMPLES
    /\ hpc = "periodic" \/ ~ ticks.is_calibration => ticks.idx = CALIBRATION_SAMPLES
    /\ timer = "lapic" => ~ ticks.is_calibration

\* A step of main that does not assign TICKS.
LEMMA MainKeeps ==
    ASSUME CalibrationInv,
           UNCHANGED <<ticks, samples, hpc>>,
           timer' = timer \/ timer' = "pit",
           apic_mapped' \in {apic_mapped, TRUE}, hang = "no",
           pc' \in BeforeAssign => pc \in BeforeAssign,
           pc' \in AfterCalibrate =>
              \/ pc \in AfterCalibrate /\ mine' = mine
              \/ mine' \in Tick /\ mine'.is_calibration /\ mine'.idx = 0
    PROVE  CalibrationInv'
  BY Zenon DEF CalibrationInv

\* main's steps, by their labels.
LEMMA MainCalibration ==
    ASSUME CalibrationInv, Main
    PROVE  CalibrationInv'
<1> USE DEF At, Goto, timeVars, BeforeAssign, AfterCalibrate
<1>1. CASE ConsoleInit
  BY <1>1, MainKeeps, Zenon DEF ConsoleInit
<1>2. CASE ApicInit
  BY <1>2, MainKeeps, Zenon DEF ApicInit
<1>3. CASE ApicAssign
  BY <1>3, MainKeeps, Zenon DEF ApicAssign
<1>4. CASE LoadInterrupts
  BY <1>4, MainKeeps, Zenon DEF LoadInterrupts
<1>5. CASE LockTicks
  BY <1>5, MainKeeps, Zenon DEF LockTicks
<1>6. CASE Calibrate
  <2>1. /\ mine' = [apic |-> apic_mapped, is_calibration |-> TRUE, idx |-> 0]
        /\ UNCHANGED <<ticks, samples, hpc, timer, apic_mapped>>
        /\ pc = "route" /\ pc' = "pit" /\ hang = "no"
    BY <1>6, Zenon DEF Calibrate
  <2>2. mine' \in Tick /\ mine'.is_calibration /\ mine'.idx = 0
    BY <2>1, BootAssumption DEF CalibrationInv, Tick
  <2> QED BY <2>1, <2>2, MainKeeps, Zenon
<1>7. CASE StartPit
  BY <1>7, MainKeeps, Zenon DEF StartPit
<1>8. CASE StartLapic
  BY <1>8, MainKeeps, Zenon DEF StartLapic, time_passes
<1>9. CASE UnlockTicks
  BY <1>9, MainKeeps, Zenon DEF UnlockTicks, time_passes
<1>10. CASE RelockTicks
  BY <1>10, MainKeeps, Zenon DEF RelockTicks, time_passes
<1>11. CASE AssignTicks
  <2>1. /\ pc = "assign" /\ pc' = "cores" /\ hpc = "off" /\ ticks' = mine
        /\ UNCHANGED <<samples, hpc, timer, apic_mapped>>
    BY <1>11, Zenon DEF AssignTicks, time_passes
  <2>2. /\ ticks = new_tick /\ mine \in Tick /\ mine.is_calibration /\ mine.idx = 0
    BY <2>1, Zenon DEF CalibrationInv
  <2> QED BY <2>1, <2>2, BootAssumption DEF CalibrationInv, new_tick
<1>12. CASE InitCore
  BY <1>12, MainKeeps, Zenon DEF InitCore, time_passes
<1>13. CASE SetScheduler
  BY <1>13, MainKeeps, Zenon DEF SetScheduler, time_passes
<1>14. CASE InitSyscall
  BY <1>14, MainKeeps, Zenon DEF InitSyscall, time_passes
<1>15. CASE RunExecutor
  <2>1. /\ UNCHANGED <<ticks, samples, hpc, timer, apic_mapped>>
        /\ pc' \in {"panic", "halt"} /\ hang = "no"
    BY <1>15, Zenon DEF RunExecutor, get_mut, time_passes
  <2> QED BY <2>1, MainKeeps, Zenon
<1>16. CASE MainLog
  BY <1>16, MainKeeps, Zenon DEF MainLog, time_passes
<1> QED BY <1>1, <1>2, <1>3, <1>4, <1>5, <1>6, <1>7, <1>8, <1>9, <1>10, <1>11,
           <1>12, <1>13, <1>14, <1>15, <1>16 DEF Main

\* The handler's steps.
LEMMA HandlerCalibration ==
    ASSUME CalibrationInv, TimerInterrupt \/ Handler
    PROVE  CalibrationInv'
<1> DEFINE Same == UNCHANGED <<pc, mine, apic_mapped>>
<1>1. CASE TimerInterrupt
  <2>1. Same /\ hpc = "off" /\ hang = "no" /\ timer' \in {timer, "off"}
    BY <1>1, Zenon DEF TimerInterrupt, mainVars
  <2>2. CASE UNCHANGED <<ticks, samples>> /\ hpc' # "periodic"
    BY <2>1, <2>2, Zenon DEF CalibrationInv
  <2>3. CASE ticks.is_calibration /\ ticks.apic /\ end_calibration
    <3>1. pc \notin BeforeAssign /\ pc \notin AfterCalibrate
      BY <2>3 DEF CalibrationInv, new_tick, BeforeAssign, AfterCalibrate
    <3>2. ticks.idx \in Nat /\ ticks.idx < CALIBRATION_SAMPLES
      BY <2>1, <2>3, Zenon DEF CalibrationInv, Tick
    <3>3. ticks' = [ticks EXCEPT !.idx = ticks.idx + 1] /\ samples' = samples + 1
      BY <2>3, <3>2, BootAssumption, Zenon DEF end_calibration
    <3>4. /\ ticks'.idx = ticks.idx + 1 /\ ticks'.is_calibration
          /\ ticks' \in Tick
      BY <2>3, <3>2, <3>3, BootAssumption DEF CalibrationInv, Tick
    <3>5. timer' # "lapic"
      BY <2>1, <2>3, Zenon DEF CalibrationInv
    <3>6. /\ hpc' = "periodic" => ticks.idx + 1 = CALIBRATION_SAMPLES
          /\ hpc' \notin {"periodic", "panic"} /\ hang' = "no"
                => ticks.idx + 1 < CALIBRATION_SAMPLES
      <4>1. CASE ~ (ticks.idx + 1 < CALIBRATION_SAMPLES)
        <5>1. HandlerLogs("periodic", TRUE) \/ hpc' = "panic"
          BY <2>3, <3>2, <4>1, Zenon DEF end_calibration
        <5>2. hpc' \in {"periodic", "panic"} \/ hang' = "spin"
          BY <5>1, Zenon DEF HandlerLogs
        <5> QED BY <3>2, <4>1, <5>2, BootAssumption
      <4>2. CASE ticks.idx + 1 < CALIBRATION_SAMPLES
        <5>1. HandlerLogs("rearm", machine.debug)
          BY <2>3, <3>2, <4>2, Zenon DEF end_calibration
        <5>2. hpc' # "periodic"
          BY <2>1, <5>1, Zenon DEF HandlerLogs
        <5> QED BY <4>2, <5>2, Zenon
      <4> QED BY <4>1, <4>2, Zenon
    <3> QED BY <2>1, <3>1, <3>2, <3>3, <3>4, <3>5, <3>6 DEF CalibrationInv
  <2>4. \/ UNCHANGED <<ticks, samples>> /\ hpc' # "periodic"
        \/ ticks.is_calibration /\ ticks.apic /\ end_calibration
    BY <1>1, <2>1, Zenon DEF TimerInterrupt, end_calibration, page_fault, get_mut
  <2> QED BY <2>2, <2>3, <2>4, Zenon
<1>2. CASE HandlerLog
  BY <1>2, Zenon DEF HandlerLog, mainVars, timeVars, CalibrationInv
<1>3. CASE Rearm
  <2>1. Same /\ UNCHANGED <<ticks, samples, hang>> /\ hpc' = "eoi" /\ timer' = "pit"
        /\ hpc = "rearm"
    BY <1>3, Zenon DEF Rearm, HandlerAt, mainVars
  <2> QED BY <2>1, Zenon DEF CalibrationInv
<1>4. CASE SetPeriodic
  <2>1. /\ Same /\ UNCHANGED <<samples, hang>> /\ hpc = "periodic" /\ hpc' = "eoi"
        /\ ticks' = [ticks EXCEPT !.is_calibration = FALSE]
    BY <1>4, Zenon DEF SetPeriodic, HandlerAt, mainVars
  <2>2. /\ ticks' \in Tick /\ ~ ticks'.is_calibration /\ ticks'.idx = ticks.idx
    BY <2>1, Zenon DEF CalibrationInv, Tick
  <2>3. ticks.idx = CALIBRATION_SAMPLES
    BY <2>1, Zenon DEF CalibrationInv
  <2>4. pc \notin BeforeAssign
    BY <2>3, BootAssumption DEF CalibrationInv, new_tick
  <2> QED BY <2>1, <2>2, <2>3, <2>4, Zenon DEF CalibrationInv
<1>5. CASE EndInterrupt
  <2>1. Same /\ UNCHANGED <<ticks, samples, hang, timer>> /\ hpc = "eoi" /\ hpc' = "off"
    BY <1>5, Zenon DEF EndInterrupt, HandlerAt, mainVars, timeVars
  <2> QED BY <2>1, Zenon DEF CalibrationInv
<1> QED BY <1>1, <1>2, <1>3, <1>4, <1>5, Zenon DEF Handler

\* CalibrationInv holds throughout the boot: no sample is taken before main has
\* written TICKS back.
LEMMA CalibrationInductive == BootSpec => []CalibrationInv
<1>1. BootInit => CalibrationInv
  <2>1. new_tick \in Tick /\ new_tick.idx = 0 /\ new_tick.is_calibration
    BY BootAssumption DEF new_tick, Tick
  <2> SUFFICES ASSUME BootInit PROVE CalibrationInv
    BY Zenon
  <2>2. /\ ticks = new_tick /\ samples = 0 /\ pc = "console" /\ hpc = "off"
        /\ timer = "off" /\ apic_mapped = FALSE
    BY Zenon DEF BootInit
  <2>3. ticks.is_calibration /\ ticks.idx = 0 /\ ticks \in Tick
    BY <2>1, <2>2, Zenon
  <2>4. 0 < CALIBRATION_SAMPLES /\ pc \notin AfterCalibrate
    BY <2>2, BootAssumption DEF AfterCalibrate
  <2> QED BY <2>2, <2>3, <2>4, Zenon DEF CalibrationInv
<1>2. CalibrationInv /\ [BootNext]_bootVars => CalibrationInv'
  <2>1. ASSUME CalibrationInv, UNCHANGED bootVars PROVE CalibrationInv'
    BY <2>1, Zenon DEF bootVars, mainVars, timeVars, CalibrationInv
  <2> QED BY <2>1, MainCalibration, HandlerCalibration, Zenon DEF BootNext
<1> QED BY <1>1, <1>2, PTL DEF BootSpec

\* No measured interval is lost or counted twice, and the periodic timer starts
\* with exactly CALIBRATION_SAMPLES of them (CalibrationKept), whenever main
\* is interrupted between its two locks of TICKS.
THEOREM BootCalibrationKept == BootSpec => []CalibrationKept
<1>1. CalibrationInv => CalibrationKept
  BY Zenon DEF CalibrationInv, CalibrationKept
<1> QED BY <1>1, CalibrationInductive, PTL

(***************************************************************************)
(* The clock.  Every step main takes once the PIT is started is counted,   *)
(* so that the intervals measured and the time since the last are no more  *)
(* than the steps main has taken; and where main is tells how many they    *)
(* can be.  An interrupt that is due has a full interval behind it: when   *)
(* it is long enough main is past the step the interrupt must not meet.    *)
(***************************************************************************)
Message == MSG_LEN + 1
Over(n) == IF n > MAX_CPUS THEN n - MAX_CPUS ELSE 0
Warned(n) == Over(n) * Message            \* the characters of n rounds of InitCore
Clock == samples * machine.period + elapsed
Writing == IF logger = "main" THEN left ELSE 0

ClockInv ==
    /\ pc = "lapic" => Clock <= 0
    /\ pc = "unlock" => Clock <= 1
    /\ pc = "relock" => Clock <= 2
    /\ pc = "assign" => Clock <= 3
    /\ pc = "cores" => Clock + Writing <= AssignSteps + next_core + Warned(next_core)
    /\ pc = "syscall" => Clock + Writing <= SetSteps + Message
    /\ pc = "run" => Clock + Writing <= BootSteps

BeforePit == {"console", "apic", "apic_set", "load", "lock", "route", "pit"}
Silent == {"lapic", "unlock", "relock", "assign", "halt", "panic"}
Holding == {"route", "pit", "lapic", "unlock", "assign"}
Assigned == {"cores", "syscall", "run", "halt"}

\* Who may hold the locks, by what runs.
OwnerInv ==
    /\ logger = Nobody <=> left = 0
    /\ logger = "handler" => hpc \in {"rearm", "periodic"}
    /\ logger = "panic" => pc = "panic" \/ hpc = "panic"
    /\ logger = "main" => pc \notin Silent
    /\ ticks_lock # Nobody => pc \in Holding

\* How far main has got, by its label.
PlaceInv ==
    /\ pc \in BeforePit => timer = "off" /\ samples = 0
    /\ pc \in BeforeAssign => next_core = 0
    /\ next_core <= machine.cores
    /\ pc \in {"load", "lock", "route"} => apic_mapped
    /\ pc \in AfterCalibrate => mine.apic
    /\ pc \in Assigned => ticks.apic
    /\ pc \in {"console", "apic", "apic_set", "load"} => ~ irq
    /\ pc = "panic" => ~ irq \/ (machine.cpu >= MAX_CPUS /\ ticks.apic)
    /\ pc \in BeforePit => hpc = "off"
    /\ hpc = "rearm" => ticks.is_calibration
    /\ ~ ticks.is_calibration => timer = "lapic"

RunningInv == OwnerInv /\ PlaceInv /\ ClockInv

\* Once the CPU hangs nothing moves.
ProgressInv == (hang = "no" => RunningInv) /\ NoSelfDeadlock

BootInv == TypeOK /\ CalibrationInv /\ ProgressInv

(***************************************************************************)
(* Facts about the numbers.                                                *)
(***************************************************************************)
LEMMA Products ==
    /\ \A a, b \in Nat : a * b \in Nat /\ (a + 1) * b = a * b + b /\ 0 * b = 0 /\ b * 1 = b
    /\ \A a, b \in Nat : a * b = b * a
    /\ \A a, b, c \in Nat : a <= b => a * c <= b * c
<1>1. \A a, b \in Nat : a * b \in Nat /\ (a + 1) * b = a * b + b /\ 0 * b = 0 /\ b * 1 = b
  OBVIOUS
<1>2. \A a, b \in Nat : a * b = b * a
  OBVIOUS
<1>3. ASSUME NEW a \in Nat, NEW b \in Nat, NEW c \in Nat, a <= b
      PROVE  a * c <= b * c
  <2>1. PICK d \in Nat : b = a + d
    <3>1. b - a \in Nat /\ b = a + (b - a)
      BY <1>3
    <3> QED BY <3>1, Zenon
  <2>2. (a + d) * c = a * c + d * c
    OBVIOUS
  <2>3. a * c \in Nat /\ d * c \in Nat
    BY <1>1, Zenon
  <2> QED BY <2>1, <2>2, <2>3
<1> QED BY <1>1, <1>2, <1>3, Zenon

\* The ranges of the numbers the clock is made of.
LEMMA Numbers ==
    ASSUME TypeOK
    PROVE  /\ machine.period \in Nat /\ machine.cores \in Nat \ {0} /\ machine.cpu \in Nat
           /\ machine.debug \in BOOLEAN /\ machine.supported_pixels \in BOOLEAN
           /\ samples \in Nat /\ elapsed \in Nat /\ next_core \in Nat /\ left \in 0 .. Message
           /\ Message \in Nat \ {0, 1} /\ Message = MSG_LEN + 1 /\ MSG_LEN \in Nat \ {0}
           /\ MAX_CPUS \in Nat \ {0} /\ CALIBRATION_SAMPLES \in Nat \ {0}
           /\ Nobody \notin {"main", "handler", "panic"}
<1>1. machine \in Machine /\ samples \in Nat /\ elapsed \in Nat /\ next_core \in Nat
      /\ left \in 0 .. MSG_LEN + 1
  BY Zenon DEF TypeOK
<1>2. /\ machine.period \in Periods /\ machine.cores \in Cores /\ machine.cpu \in CpuId
      /\ machine.debug \in BOOLEAN /\ machine.supported_pixels \in BOOLEAN
  BY <1>1, Zenon DEF Machine
<1>3. /\ machine.period \in Nat /\ machine.cores \in Nat \ {0} /\ machine.cpu \in Nat
      /\ MSG_LEN \in Nat \ {0} /\ MAX_CPUS \in Nat \ {0} /\ CALIBRATION_SAMPLES \in Nat \ {0}
      /\ Nobody \notin {"main", "handler", "panic"}
  BY <1>2, BootAssumption, Zenon
<1>4. Message = MSG_LEN + 1 /\ Message \in Nat \ {0, 1} /\ left \in 0 .. Message
  BY <1>1, <1>3 DEF Message
<1> QED BY <1>1, <1>2, <1>3, <1>4, Zenon

\* The characters init_core writes in n rounds grow by a message per core beyond
\* MAX_CPUS, and the steps of the boot add up.
LEMMA Warnings ==
    ASSUME TypeOK
    PROVE  /\ \A n \in Nat : /\ Warned(n) \in Nat
                             /\ n < MAX_CPUS => Warned(n + 1) = Warned(n)
                             /\ n >= MAX_CPUS => Warned(n + 1) = Warned(n) + Message
           /\ \A n, m \in Nat : n <= m => Warned(n) <= Warned(m)
           /\ SetSteps = AssignSteps + machine.cores + Warned(machine.cores) + 1
           /\ SetSteps \in Nat /\ BootSteps \in Nat
           /\ machine.debug => BootSteps = SetSteps + 1 + Message + Message
           /\ ~ machine.debug => BootSteps = SetSteps + 1 + Message
<1>1. MAX_CPUS \in Nat /\ Message \in Nat /\ machine.cores \in Nat /\ Message = MSG_LEN + 1
  BY Numbers, Zenon
<1>2. \A n \in Nat : Over(n) \in Nat
  BY <1>1 DEF Over
<1>3. \A n \in Nat : Warned(n) \in Nat
  BY <1>1, <1>2, Products, Zenon DEF Warned
<1>4. \A n \in Nat : /\ n < MAX_CPUS => Over(n + 1) = Over(n)
                     /\ n >= MAX_CPUS => Over(n + 1) = Over(n) + 1
  BY <1>1 DEF Over
<1>5. \A n \in Nat : /\ n < MAX_CPUS => Warned(n + 1) = Warned(n)
                     /\ n >= MAX_CPUS => Warned(n + 1) = Warned(n) + Message
  BY <1>1, <1>2, <1>4, Products DEF Warned
<1>6. \A n, m \in Nat : n <= m => Over(n) <= Over(m)
  BY <1>1 DEF Over
<1>7. \A n, m \in Nat : n <= m => Warned(n) <= Warned(m)
  BY <1>1, <1>2, <1>6, Products, Zenon DEF Warned
<1>8. SetSteps = AssignSteps + machine.cores + Warned(machine.cores) + 1
  BY <1>1, Zenon DEF SetSteps, Unusable, Warned, Over
<1>9. SetSteps \in Nat
  BY <1>1, <1>3, <1>8 DEF AssignSteps
<1>10. Message * 2 = Message + Message /\ Message * 1 = Message
  BY <1>1
<1>11. /\ machine.debug => BootSteps = SetSteps + 1 + Message + Message
       /\ ~ machine.debug => BootSteps = SetSteps + 1 + Message
  BY <1>1, <1>9, <1>10 DEF BootSteps
<1>12. BootSteps \in Nat
  BY <1>1, <1>9, <1>11
<1> QED BY <1>3, <1>5, <1>7, <1>8, <1>9, <1>11, <1>12, Zenon

\* What the machine is does not change.
LEMMA SameMachine ==
    ASSUME machine' = machine
    PROVE  /\ SetSteps' = SetSteps /\ BootSteps' = BootSteps
           /\ IntervalsLongEnough' <=> IntervalsLongEnough
  BY Zenon DEF SetSteps, BootSteps, Unusable, IntervalsLongEnough

(***************************************************************************)
(* The steps of main.                                                      *)
(***************************************************************************)
LEMMA LogCalls ==
    ASSUME NEW who
    PROVE  /\ quiet => logger' = logger /\ left' = left /\ fb' = fb
           /\ log(who) => logger = Nobody /\ logger' = who /\ left' = Message /\ fb' = fb
           /\ debug(who) /\ machine.debug =>
                 logger = Nobody /\ logger' = who /\ left' = Message /\ fb' = fb
           /\ debug(who) /\ ~ machine.debug => logger' = logger /\ left' = left /\ fb' = fb
  BY Zenon DEF quiet, log, debug, logVars, Message

\* A step of main moves the clock by at most one.
LEMMA TimePasses ==
    ASSUME TypeOK, time_passes, machine' = machine
    PROVE  /\ timer' = timer /\ samples' = samples /\ elapsed' \in Nat
           /\ elapsed' <= elapsed + 1 /\ Clock \in Nat /\ Clock' \in Nat /\ Clock' <= Clock + 1
<1>1. samples \in Nat /\ elapsed \in Nat /\ machine.period \in Nat
  BY Numbers, Zenon
<1>2. timer' = timer /\ samples' = samples /\ elapsed' \in Nat /\ elapsed' <= elapsed + 1
  BY <1>1 DEF time_passes
<1>3. samples * machine.period \in Nat
  BY <1>1, Products, Zenon
<1> QED BY <1>1, <1>2, <1>3 DEF Clock

\* main takes a step of its own only when the logger is free.
LEMMA AtFree ==
    ASSUME TypeOK, RunningInv, NEW l, At(l), l # "panic"
    PROVE  /\ pc = l /\ hpc = "off" /\ hang = "no" /\ logger = Nobody /\ left = 0
           /\ Writing = 0
<1>1. pc = l /\ hpc = "off" /\ hang = "no" /\ logger # "main"
  BY Zenon DEF At
<1>2. logger \in {"main", "handler", "panic", Nobody}
  BY Zenon DEF TypeOK
<1>3. logger # "handler" /\ logger # "panic"
  BY <1>1, Zenon DEF RunningInv, OwnerInv
<1> QED BY <1>1, <1>2, <1>3, Zenon DEF RunningInv, OwnerInv, Writing

\* What is left to show of such a step.
LEMMA MainGoes ==
    ASSUME TypeOK, RunningInv, NEW l, At(l), l # "panic",
           UNCHANGED <<machine, hpc, hang>>,
           \/ logger' = logger /\ left' = left
           \/ logger' = "main" /\ left' = Message /\ pc' \notin Silent,
           ticks_lock' # Nobody => pc' \in Holding,
           PlaceInv', ClockInv'
    PROVE  ProgressInv'
<1>1. hpc = "off" /\ hang = "no" /\ logger = Nobody /\ left = 0
  BY AtFree, Zenon
<1>2. Message # 0 /\ Nobody \notin {"main", "handler", "panic"}
  BY Numbers, Zenon
<1>3. OwnerInv'
  BY <1>1, <1>2, Zenon DEF OwnerInv
<1>4. NoSelfDeadlock'
  BY <1>1, Zenon DEF NoSelfDeadlock
<1> QED BY <1>3, <1>4, Zenon DEF ProgressInv, RunningInv

\* Until the PIT counts down.
LEMMA BeforePitSteps ==
    ASSUME TypeOK, RunningInv,
           ConsoleInit \/ ApicAssign \/ LoadInterrupts \/ LockTicks \/ Calibrate \/ StartPit
    PROVE  ProgressInv'
<1> USE DEF Goto, Silent, Holding, BeforePit, BeforeAssign, AfterCalibrate, Assigned
<1>1. CASE ConsoleInit
  <2>1. At("console") /\ pc = "console"
    BY <1>1, Zenon DEF ConsoleInit, At
  <2>2. /\ UNCHANGED <<machine, hpc, hang, ticks_lock, irq, timer, elapsed, samples>>
        /\ UNCHANGED <<apic_mapped, mine, next_core, ticks>>
        /\ \/ pc' = "panic" /\ logger' = logger /\ left' = left
           \/ pc' = "apic" /\ logger' = "main" /\ left' = Message
    BY <1>1, LogCalls, Zenon DEF ConsoleInit, timeVars
  <2>3. ClockInv'
    BY <2>2, Zenon DEF ClockInv
  <2>4. PlaceInv
    BY Zenon DEF RunningInv
  <2>5. CASE pc' = "panic"
    <3>1. ~ irq'
      BY <2>1, <2>2, <2>4, Zenon DEF PlaceInv
    <3>2. PlaceInv'
      BY <2>2, <2>4, <2>5, <3>1, Zenon DEF PlaceInv
    <3> QED BY <2>1, <2>2, <2>3, <3>2, MainGoes, Zenon DEF RunningInv, OwnerInv
  <2>6. CASE pc' = "apic"
    <3>1. PlaceInv'
      BY <2>1, <2>2, <2>4, <2>6, Zenon DEF PlaceInv
    <3> QED BY <2>1, <2>2, <2>3, <2>6, <3>1, MainGoes, Zenon DEF RunningInv, OwnerInv
  <2> QED BY <2>2, <2>5, <2>6, Zenon
<1>2. CASE ApicAssign
  <2>1. At("apic_set") /\ pc = "apic_set"
    BY <1>2, Zenon DEF ApicAssign, At
  <2>2. PlaceInv' /\ ClockInv'
    BY <1>2, <2>1, Zenon DEF ApicAssign, RunningInv, PlaceInv, ClockInv, timeVars
  <2>3. /\ UNCHANGED <<machine, hpc, hang, ticks_lock>> /\ pc' = "load"
        /\ logger' = logger /\ left' = left
    BY <1>2, LogCalls, Zenon DEF ApicAssign
  <2> QED BY <2>1, <2>2, <2>3, MainGoes, Zenon DEF RunningInv, OwnerInv
<1>3. CASE LoadInterrupts
  <2>1. At("load") /\ pc = "load"
    BY <1>3, Zenon DEF LoadInterrupts, At
  <2>2. PlaceInv' /\ ClockInv'
    BY <1>3, <2>1, Zenon DEF LoadInterrupts, RunningInv, PlaceInv, ClockInv, timeVars
  <2>3. /\ UNCHANGED <<machine, hpc, hang, ticks_lock>> /\ pc' = "lock"
        /\ logger' = "main" /\ left' = Message
    BY <1>3, LogCalls, Zenon DEF LoadInterrupts
  <2> QED BY <2>1, <2>2, <2>3, MainGoes, Zenon DEF RunningInv, OwnerInv
<1>4. CASE LockTicks
  <2>1. At("lock") /\ pc = "lock"
    BY <1>4, Zenon DEF LockTicks, At
  <2>2. PlaceInv' /\ ClockInv'
    BY <1>4, <2>1, Zenon DEF LockTicks, RunningInv, PlaceInv, ClockInv, timeVars
  <2>3. /\ UNCHANGED <<machine, hpc, hang>> /\ pc' = "route"
        /\ \/ logger' = logger /\ left' = left
           \/ logger' = "main" /\ left' = Message
    BY <1>4, LogCalls, Zenon DEF LockTicks
  <2> QED BY <2>1, <2>2, <2>3, MainGoes, Zenon
<1>5. CASE Calibrate
  <2>1. At("route") /\ pc = "route"
    BY <1>5, Zenon DEF Calibrate, At
  <2>2. mine'.apic = apic_mapped
    BY <1>5, Zenon DEF Calibrate
  <2>3. PlaceInv' /\ ClockInv'
    BY <1>5, <2>1, <2>2, Zenon DEF Calibrate, RunningInv, PlaceInv, ClockInv, timeVars
  <2>4. /\ UNCHANGED <<machine, hpc, hang>> /\ pc' = "pit"
        /\ \/ logger' = logger /\ left' = left
           \/ logger' = "main" /\ left' = Message
    BY <1>5, LogCalls, Zenon DEF Calibrate
  <2> QED BY <2>1, <2>3, <2>4, MainGoes, Zenon
<1>6. CASE StartPit
  <2>1. At("pit") /\ pc = "pit"
    BY <1>6, Zenon DEF StartPit, At
  <2>2. samples = 0 /\ samples' = 0 /\ elapsed' = 0 /\ machine' = machine
    BY <1>6, <2>1, Zenon DEF StartPit, RunningInv, PlaceInv
  <2>3. 0 * machine.period = 0
    BY Numbers, Products, Zenon
  <2>4. Clock' = 0
    BY <2>2, <2>3 DEF Clock
  <2>5. ClockInv'
    BY <1>6, <2>4 DEF StartPit, ClockInv
  <2>6. PlaceInv'
    BY <1>6, <2>1, Zenon DEF StartPit, RunningInv, PlaceInv
  <2>7. /\ UNCHANGED <<machine, hpc, hang>> /\ pc' = "lapic"
        /\ logger' = logger /\ left' = left
    BY <1>6, LogCalls, Zenon DEF StartPit
  <2> QED BY <2>1, <2>5, <2>6, <2>7, MainGoes, Zenon
<1> QED BY <1>1, <1>2, <1>3, <1>4, <1>5, <1>6, Zenon

\* With the PIT counting down, until the loop over the cores.
LEMMA AssignPhase ==
    ASSUME TypeOK, CalibrationInv, RunningInv,
           StartLapic \/ UnlockTicks \/ RelockTicks \/ AssignTicks
    PROVE  ProgressInv'
<1> USE DEF Goto, Silent, Holding, BeforePit, BeforeAssign, AfterCalibrate, Assigned
<1>1. PICK l \in {"lapic", "unlock", "relock", "assign"} : At(l)
  BY Zenon DEF StartLapic, UnlockTicks, RelockTicks, AssignTicks
<1>2. /\ UNCHANGED <<machine, hpc, hang, next_core, irq, apic_mapped, mine, scheduler>>
      /\ time_passes /\ quiet
      /\ ticks_lock' # Nobody => pc' \in Holding
      /\ \/ pc = "lapic" /\ pc' = "unlock" /\ ticks' = ticks
         \/ pc = "unlock" /\ pc' = "relock" /\ ticks' = ticks
         \/ pc = "relock" /\ pc' = "assign" /\ ticks' = ticks
         \/ pc = "assign" /\ pc' = "cores" /\ ticks' = mine
  BY Zenon DEF StartLapic, UnlockTicks, RelockTicks, AssignTicks, At
<1>3. /\ timer' = timer /\ samples' = samples
      /\ Clock \in Nat /\ Clock' \in Nat /\ Clock' <= Clock + 1
  BY <1>2, TimePasses, Zenon
<1>4. logger' = logger /\ left' = left
  BY <1>2, LogCalls, Zenon
<1>5. logger = Nobody /\ hpc = "off"
  BY <1>1, AtFree, Zenon
<1>6. Writing' = 0
  BY <1>4, <1>5, Numbers, Zenon DEF Writing
<1>7. next_core = 0
  BY <1>2, Zenon DEF RunningInv, PlaceInv
<1>8. Warned(0) \in Nat
  BY Warnings, Zenon
<1>9. ClockInv'
  BY <1>2, <1>3, <1>6, <1>7, <1>8 DEF RunningInv, ClockInv, AssignSteps
<1>10. PlaceInv'
  BY <1>2, <1>3, <1>5, <1>7, Zenon DEF RunningInv, PlaceInv, CalibrationInv
<1> QED BY <1>1, <1>2, <1>4, <1>9, <1>10, MainGoes, Zenon

\* The loop over the cores, SCHEDULER.set and init_syscall.
LEMMA SchedulerPhase ==
    ASSUME TypeOK, RunningInv, InitCore \/ SetScheduler \/ InitSyscall
    PROVE  ProgressInv'
<1> USE DEF Goto, Silent, Holding, BeforePit, BeforeAssign, AfterCalibrate, Assigned
<1>1. PICK l \in {"cores", "syscall"} : At(l)
  BY Zenon DEF InitCore, SetScheduler, InitSyscall
<1>2. /\ logger = Nobody /\ left = 0 /\ Writing = 0 /\ hpc = "off" /\ pc = l
  BY <1>1, AtFree, Zenon
<1>3. /\ UNCHANGED <<machine, hpc, hang, irq, apic_mapped, mine, ticks, ticks_lock>>
      /\ time_passes
  BY Zenon DEF InitCore, SetScheduler, InitSyscall
<1>4. /\ timer' = timer /\ samples' = samples
      /\ Clock \in Nat /\ Clock' \in Nat /\ Clock' <= Clock + 1
  BY <1>3, TimePasses, Zenon
<1>5. SetSteps' = SetSteps /\ BootSteps' = BootSteps
  BY <1>3, SameMachine, Zenon
<1>6. /\ next_core \in Nat /\ machine.cores \in Nat /\ Message \in Nat /\ MAX_CPUS \in Nat
      /\ Nobody # "main"
  BY Numbers, Zenon
<1>7. ticks_lock' # Nobody => pc' \in Holding
  BY <1>2, <1>3, Zenon DEF RunningInv, OwnerInv
<1>8. CASE InitCore
  <2>1. pc' = pc /\ next_core' = next_core + 1 /\ next_core < machine.cores /\ pc = "cores"
        /\ scheduler' = scheduler
    BY <1>8, Zenon DEF InitCore, At
  <2>2. /\ next_core < MAX_CPUS => logger' = logger /\ left' = left
        /\ ~ (next_core < MAX_CPUS) => logger' = "main" /\ left' = Message
    BY <1>8, LogCalls, Zenon DEF InitCore
  <2>3. /\ next_core < MAX_CPUS => Writing' = 0
        /\ ~ (next_core < MAX_CPUS) => Writing' = Message
    BY <1>2, <1>6, <2>2, Zenon DEF Writing
  <2>4. /\ Warned(next_core) \in Nat
        /\ next_core < MAX_CPUS => Warned(next_core + 1) = Warned(next_core)
        /\ next_core >= MAX_CPUS => Warned(next_core + 1) = Warned(next_core) + Message
    BY <1>6, Warnings, Zenon
  <2>5. Clock <= AssignSteps + next_core + Warned(next_core)
    BY <1>2, <1>4, <2>1 DEF RunningInv, ClockInv
  <2>6. Clock' + Writing' <= AssignSteps + next_core' + Warned(next_core + 1)
    BY <1>4, <1>6, <2>1, <2>3, <2>4, <2>5 DEF AssignSteps
  <2>7. Warned(next_core)' = Warned(next_core + 1)
    BY <2>1, Zenon DEF Warned, Over
  <2>8. ClockInv'
    BY <2>1, <2>6, <2>7, Zenon DEF ClockInv, AssignSteps
  <2>9. PlaceInv'
    BY <1>3, <1>4, <1>6, <2>1 DEF RunningInv, PlaceInv
  <2> QED BY <1>1, <1>3, <1>7, <2>1, <2>2, <2>8, <2>9, MainGoes, Zenon
<1>9. CASE SetScheduler
  <2>1. /\ pc = "cores" /\ pc' = "syscall" /\ next_core = machine.cores /\ scheduler' = TRUE
        /\ next_core' = next_core /\ logger' = "main" /\ left' = Message
    BY <1>9, LogCalls, Zenon DEF SetScheduler, At
  <2>2. Writing' = Message
    BY <2>1, Zenon DEF Writing
  <2>3. SetSteps = AssignSteps + machine.cores + Warned(machine.cores) + 1
        /\ Warned(machine.cores) \in Nat
    BY <1>6, Warnings, Zenon
  <2>4. Clock <= AssignSteps + machine.cores + Warned(machine.cores)
    BY <1>2, <1>4, <2>1 DEF RunningInv, ClockInv
  <2>5. Clock' + Writing' <= SetSteps + Message
    BY <1>4, <1>6, <2>2, <2>3, <2>4 DEF AssignSteps
  <2>6. ClockInv'
    BY <1>5, <2>1, <2>5, Zenon DEF ClockInv, Message
  <2>7. PlaceInv'
    BY <1>3, <1>4, <1>6, <2>1, Zenon DEF RunningInv, PlaceInv
  <2> QED BY <1>1, <1>3, <1>7, <2>1, <2>6, <2>7, MainGoes, Zenon
<1>10. CASE InitSyscall
  <2>1. /\ pc = "syscall" /\ pc' = "run" /\ next_core' = next_core /\ scheduler' = scheduler
        /\ machine.debug => logger' = "main" /\ left' = Message
        /\ ~ machine.debug => logger' = logger /\ left' = left
    BY <1>10, LogCalls, Zenon DEF InitSyscall, At
  <2>2. /\ machine.debug => Writing' = Message
        /\ ~ machine.debug => Writing' = 0
    BY <1>2, <1>6, <2>1, Zenon DEF Writing
  <2>3. /\ SetSteps \in Nat /\ BootSteps \in Nat
        /\ machine.debug => BootSteps = SetSteps + 1 + Message + Message
        /\ ~ machine.debug => BootSteps = SetSteps + 1 + Message
    BY Warnings, Zenon
  <2>4. Clock <= SetSteps + Message
    BY <1>2, <1>4, <2>1 DEF RunningInv, ClockInv
  <2>5. Clock' + Writing' <= BootSteps
    BY <1>4, <1>6, <2>2, <2>3, <2>4
  <2>6. ClockInv'
    BY <1>5, <2>1, <2>5, Zenon DEF ClockInv
  <2>7. PlaceInv'
    BY <1>3, <1>4, <1>6, <2>1, Zenon DEF RunningInv, PlaceInv
  <2> QED BY <1>1, <1>3, <1>7, <2>1, <2>6, <2>7, MainGoes, Zenon
<1> QED BY <1>8, <1>9, <1>10, Zenon

\* A step of main that may panic with the console up: the lock of the logger is
\* free.
LEMMA PanicSteps ==
    ASSUME TypeOK, RunningInv, ApicInit \/ RunExecutor
    PROVE  ProgressInv'
<1> USE DEF Goto, Silent, Holding, BeforePit, BeforeAssign, AfterCalibrate, Assigned
<1>1. PICK l \in {"apic", "run"} : At(l)
  BY Zenon DEF ApicInit, RunExecutor
<1>2. /\ logger = Nobody /\ left = 0 /\ hpc = "off" /\ pc = l /\ hang = "no"
  BY <1>1, AtFree, Zenon
<1>3. /\ UNCHANGED <<machine, hpc, irq, apic_mapped, mine, ticks, ticks_lock, next_core,
                     scheduler>>
      /\ timer' = timer /\ samples' = samples
  BY Zenon DEF ApicInit, RunExecutor, timeVars, time_passes
<1>4. ticks_lock = Nobody
  BY <1>2, Zenon DEF RunningInv, OwnerInv
<1>5. /\ Message \in Nat \ {0} /\ Message > MSG_LEN
      /\ Nobody \notin {"main", "handler", "panic"}
  BY Numbers
<1>6. ASSUME panic, pc' = "panic", ~ irq \/ (machine.cpu >= MAX_CPUS /\ ticks.apic)
      PROVE  ProgressInv'
  <2>1. logger' = "panic" /\ left' = Message /\ hang' = hang
    BY <1>2, <1>6, Zenon DEF panic, Message
  <2>2. NoSelfDeadlock'
    BY <1>2, <2>1, Zenon DEF NoSelfDeadlock
  <2>3. OwnerInv'
    BY <1>3, <1>4, <1>5, <1>6, <2>1, Zenon DEF OwnerInv
  <2>4. PlaceInv'
    BY <1>2, <1>3, <1>6, Zenon DEF RunningInv, PlaceInv
  <2>5. ClockInv'
    BY <1>6, Zenon DEF ClockInv
  <2> QED BY <2>2, <2>3, <2>4, <2>5, Zenon DEF ProgressInv, RunningInv
<1>7. CASE ApicInit
  <2>1. pc = "apic" /\ ~ irq
    BY <1>7, Zenon DEF ApicInit, At, RunningInv, PlaceInv
  <2>2. CASE machine.missing = "none"
    <3>1. pc' = "apic_set" /\ logger' = "main" /\ left' = Message /\ hang' = hang
      BY <1>7, <2>2, LogCalls, Zenon DEF ApicInit
    <3>2. PlaceInv' /\ ClockInv'
      BY <1>3, <2>1, <3>1, Zenon DEF RunningInv, PlaceInv, ClockInv
    <3> QED BY <1>1, <1>3, <1>4, <3>1, <3>2, MainGoes, Zenon
  <2>3. CASE ~ (machine.missing = "none")
    <3>1. pc' = "panic" /\ panic
      BY <1>7, <2>3, Zenon DEF ApicInit
    <3> QED BY <1>6, <2>1, <3>1, Zenon
  <2> QED BY <2>2, <2>3, Zenon
<1>8. CASE RunExecutor
  <2>1. CASE machine.cpu >= MAX_CPUS
    <3>1. machine.cpu \notin cores
      BY <2>1, Numbers DEF TypeOK
    <3>2. pc' = "panic" /\ panic /\ pc = "run"
      BY <1>8, <2>1, <3>1, Zenon DEF RunExecutor, get_mut, At
    <3>3. ticks.apic
      BY <3>2, Zenon DEF RunningInv, PlaceInv
    <3> QED BY <1>6, <2>1, <3>2, <3>3, Zenon
  <2>2. CASE ~ (machine.cpu >= MAX_CPUS)
    <3>1. pc = "run" /\ pc' = "halt" /\ logger' = logger /\ left' = left
          /\ hang' \in {hang, "undefined"}
      BY <1>8, <2>2, LogCalls, Zenon DEF RunExecutor, get_mut, At
    <3>2. PlaceInv' /\ ClockInv'
      BY <1>2, <1>3, <3>1, Zenon DEF RunningInv, PlaceInv, ClockInv
    <3>3. OwnerInv'
      BY <1>2, <1>3, <1>4, <1>5, <3>1, Zenon DEF OwnerInv
    <3>4. NoSelfDeadlock'
      BY <1>2, <3>1, Zenon DEF NoSelfDeadlock
    <3> QED BY <3>2, <3>3, <3>4, Zenon DEF ProgressInv, RunningInv
  <2> QED BY <2>1, <2>2, Zenon
<1> QED BY <1>7, <1>8, Zenon

\* A character of a message of main keeps the invariant.
LEMMA MainLogSteps ==
    ASSUME TypeOK, RunningInv, MainLog
    PROVE  ProgressInv'
<1> USE DEF Goto, Silent, Holding, BeforePit, BeforeAssign, AfterCalibrate, Assigned
<1>1. /\ UNCHANGED <<machine, hpc, irq, apic_mapped, mine, ticks, ticks_lock, next_core,
                     scheduler>>
      /\ time_passes /\ hpc = "off" /\ hang = "no"
  BY Zenon DEF MainLog
<1>2. /\ timer' = timer /\ samples' = samples
      /\ Clock \in Nat /\ Clock' \in Nat /\ Clock' <= Clock + 1
  BY <1>1, TimePasses, Zenon
<1>3. /\ Message \in Nat \ {0, 1} /\ Message = MSG_LEN + 1 /\ left \in 0 .. Message
      /\ MSG_LEN \in Nat \ {0} /\ Nobody \notin {"main", "handler", "panic"}
  BY Numbers, Zenon
<1>4. /\ SetSteps' = SetSteps /\ BootSteps' = BootSteps
      /\ IntervalsLongEnough' <=> IntervalsLongEnough
  BY <1>1, SameMachine, Zenon
<1>5. CASE ~ machine.supported_pixels
  <2>1. left > 0 /\ pc' = "panic" /\ panic
    BY <1>5, Zenon DEF MainLog
  <2>2. logger # Nobody
    BY <2>1 DEF RunningInv, OwnerInv
  <2>3. hang' = "double_panic"
    BY <2>1, <2>2, Zenon DEF panic
  <2>4. NoSelfDeadlock'
    BY <2>3, Zenon DEF NoSelfDeadlock
  <2> QED BY <2>3, <2>4, Zenon DEF ProgressInv
<1>6. CASE machine.supported_pixels
  <2>1. /\ hang' = hang /\ pc' = pc /\ left > 0 /\ left' = left - 1
        /\ logger \in {"main", "panic"}
        /\ left = 1 => logger' = Nobody
        /\ left # 1 => logger' = logger
    BY <1>6, Zenon DEF MainLog, WriteLog
  <2>2. left \in 1 .. Message /\ left' \in Nat
    BY <1>3, <2>1
  <2>3. /\ Writing \in Nat /\ Writing' \in Nat
        /\ logger = "main" => Writing' = Writing - 1
    BY <1>3, <2>1, <2>2 DEF Writing
  <2>4. logger = "panic" => pc = "panic"
    BY <1>1, Zenon DEF RunningInv, OwnerInv
  <2>5. pc # "panic" => \A n \in Nat : Clock + Writing <= n => Clock' + Writing' <= n
    <3>1. pc # "panic" => logger = "main"
      BY <2>1, <2>4, Zenon
    <3>2. ASSUME NEW a \in Nat, NEW b \in Nat, NEW c \in Nat, NEW d \in Nat,
                 b <= a + 1, d = c - 1, NEW n \in Nat, a + c <= n
          PROVE  b + d <= n
      BY <3>2
    <3> QED BY <1>2, <2>3, <3>1, <3>2, Zenon
  <2>6. pc \in Silent => pc = "panic"
    BY <2>1, <2>4, Zenon DEF RunningInv, OwnerInv
  <2>7. ClockInv'
    <3>1. CASE pc = "cores"
      <4>1. Warned(next_core)' = Warned(next_core) /\ Warned(next_core) \in Nat
        BY <1>1, Warnings, Numbers, Zenon DEF Warned, Over
      <4>2. Clock + Writing <= AssignSteps + next_core + Warned(next_core)
        BY <3>1, Zenon DEF RunningInv, ClockInv
      <4>3. Clock' + Writing' <= AssignSteps + next_core + Warned(next_core)
        <5>1. AssignSteps + next_core + Warned(next_core) \in Nat
          BY <4>1, Numbers DEF AssignSteps
        <5> QED BY <2>5, <3>1, <4>2, <5>1, Zenon
      <4>4. pc' = pc /\ next_core' = next_core
        BY <1>1, <2>1, Zenon
      <4> QED BY <3>1, <4>1, <4>3, <4>4, Zenon DEF ClockInv, AssignSteps
    <3>2. CASE pc = "syscall"
      <4>1. Clock + Writing <= SetSteps + Message /\ SetSteps \in Nat
        BY <3>2, Warnings, Zenon DEF RunningInv, ClockInv
      <4>2. Message' = Message
        BY Zenon DEF Message
      <4>3. Clock' + Writing' <= SetSteps + Message
        <5>1. SetSteps + Message \in Nat
          BY <1>3, <4>1
        <5> QED BY <2>5, <3>2, <4>1, <5>1, Zenon
      <4>4. pc' = pc
        BY <2>1, Zenon
      <4> QED BY <1>4, <3>2, <4>2, <4>3, <4>4, Zenon DEF ClockInv
    <3>3. CASE pc = "run"
      <4>1. Clock + Writing <= BootSteps /\ BootSteps \in Nat
        BY <3>3, Warnings, Zenon DEF RunningInv, ClockInv
      <4>2. Clock' + Writing' <= BootSteps
        BY <2>5, <3>3, <4>1, Zenon
      <4>3. pc' = pc
        BY <2>1, Zenon
      <4> QED BY <1>4, <3>3, <4>2, <4>3, Zenon DEF ClockInv
    <3>4. CASE pc \notin {"cores", "syscall", "run"}
      BY <2>1, <2>6, <3>4, Zenon DEF ClockInv
    <3> QED BY <3>1, <3>2, <3>3, <3>4, Zenon
  <2>8. PlaceInv'
    BY <1>1, <1>2, <2>1, Zenon DEF RunningInv, PlaceInv
  <2>9. OwnerInv'
    BY <1>1, <1>3, <2>1, <2>2 DEF RunningInv, OwnerInv
  <2>10. NoSelfDeadlock'
    BY <1>1, <2>1, Zenon DEF NoSelfDeadlock
  <2> QED BY <2>7, <2>8, <2>9, <2>10, Zenon DEF ProgressInv, RunningInv
<1> QED BY <1>5, <1>6, Zenon

\* Every step of main keeps it.
LEMMA MainProgress ==
    ASSUME TypeOK, CalibrationInv, ProgressInv, Main
    PROVE  ProgressInv'
<1>1. hang = "no"
  BY Zenon DEF Main, ConsoleInit, ApicInit, ApicAssign, LoadInterrupts, LockTicks, Calibrate,
         StartPit, StartLapic, UnlockTicks, RelockTicks, AssignTicks, InitCore, SetScheduler,
         InitSyscall, RunExecutor, MainLog, At
<1>2. RunningInv
  BY <1>1, Zenon DEF ProgressInv
<1> QED BY <1>2, BeforePitSteps, AssignPhase, SchedulerPhase, PanicSteps, MainLogSteps, Zenon DEF Main

(***************************************************************************)
(* The steps of the handler.                                               *)
(***************************************************************************)
\* Where an interrupt may find main, and what is behind it.  The PIT finds the
\* boot CPU, with APIC id 0, anywhere; another one is found idle.
LEMMA Interrupted ==
    ASSUME TypeOK, CalibrationInv, RunningInv, Due, hpc = "off"
    PROVE  /\ pc \in {"lapic", "unlock", "relock", "assign", "cores", "syscall", "run", "halt",
                      "panic"}
           /\ timer = "pit" => logger \in {"main", Nobody}
           /\ timer = "pit" /\ logger # Nobody => pc # "panic"
           /\ timer = "pit" /\ pc \notin {"halt", "panic"} => elapsed >= machine.period
           /\ timer \in {"pit", "lapic"}
           /\ ticks.is_calibration <=> timer = "pit"
           /\ pc \in Assigned \cup {"panic"} <=> ticks.apic
           /\ ~ ticks.is_calibration => pc \in Assigned \cup {"panic"}
<1> USE DEF BeforePit, BeforeAssign, Assigned
<1>1. /\ pc \in MainPc /\ logger \in {"main", "handler", "panic", Nobody}
      /\ logger # "handler" /\ (logger = "panic" => pc = "panic")
      /\ left = 0 => logger = Nobody
  BY Zenon DEF TypeOK, RunningInv, OwnerInv
<1>2. pc = "panic" => machine.cpu # 0 /\ ticks.apic
  <2>1. irq /\ ~ (0 >= MAX_CPUS)
    BY Numbers DEF Due
  <2> QED BY <2>1, Zenon DEF RunningInv, PlaceInv
<1>3. timer \in {"pit", "lapic"}
  BY Zenon DEF Due
<1>4. pc \notin {"console", "apic", "apic_set", "load", "lock", "route", "pit"}
  BY <1>3, Zenon DEF RunningInv, PlaceInv
<1>5. pc \in {"lapic", "unlock", "relock", "assign", "cores", "syscall", "run", "halt", "panic"}
  BY <1>1, <1>4, Zenon DEF MainPc
<1>6. /\ timer = "pit" => logger \in {"main", Nobody}
      /\ timer = "pit" /\ logger # Nobody => pc # "panic"
  BY <1>1, <1>2, Zenon DEF Due
<1>7. timer = "pit" /\ pc \notin {"halt", "panic"} => elapsed >= machine.period
  BY Zenon DEF Due, Idle
<1>8. ticks.is_calibration <=> timer = "pit"
  BY <1>3, Zenon DEF CalibrationInv, RunningInv, PlaceInv
<1>9. pc \notin Assigned \cup {"panic"} => ticks.is_calibration /\ ~ ticks.apic
  BY <1>5 DEF CalibrationInv, new_tick
<1>10. pc \in Assigned \cup {"panic"} => ticks.apic
  BY <1>2, Zenon DEF RunningInv, PlaceInv
<1> QED BY <1>3, <1>5, <1>6, <1>7, <1>8, <1>9, <1>10, Zenon

\* An interval that ends before main has assigned TICKS is too short.
LEMMA EarlyInterrupt ==
    ASSUME TypeOK, CalibrationInv, RunningInv, Due, hpc = "off",
           pc \notin Assigned \cup {"panic"}
    PROVE  ~ IntervalsLongEnough
<1>1. /\ pc \in {"lapic", "unlock", "relock", "assign"} /\ elapsed >= machine.period
  BY Interrupted, Zenon DEF Assigned
<1>2. samples \in Nat /\ elapsed \in Nat /\ machine.period \in Nat
  BY Numbers, Zenon
<1>3. samples * machine.period \in Nat
  BY <1>2, Products, Zenon
<1>4. Clock \in Nat /\ Clock >= elapsed
  BY <1>2, <1>3 DEF Clock
<1>5. Clock <= 3
  BY <1>1, <1>4 DEF RunningInv, ClockInv
<1>6. ~ (machine.period >= 4)
  BY <1>1, <1>2, <1>4, <1>5
<1> QED BY <1>6, Zenon DEF IntervalsLongEnough, AssignSteps

\* A sample that finds main writing ends an interval that is too short, if the
\* handler wants to write too.
LEMMA BusyInterrupt ==
    ASSUME TypeOK, CalibrationInv, RunningInv, Due, hpc = "off", hang = "no",
           ticks.is_calibration, ticks.apic, logger # Nobody,
           machine.debug \/ ~ (ticks.idx + 1 < CALIBRATION_SAMPLES)
    PROVE  ~ IntervalsLongEnough
<1>1. /\ logger = "main" /\ pc \in {"cores", "syscall", "run", "halt"} /\ timer = "pit"
  BY Interrupted, Zenon DEF Assigned
<1>2. pc # "halt"
  BY <1>1, Zenon DEF RunningInv, OwnerInv, Silent
<1>3. elapsed >= machine.period
  BY <1>1, <1>2, Interrupted, Zenon
<1>4. /\ samples \in Nat /\ elapsed \in Nat /\ machine.period \in Nat /\ left \in 0 .. Message
      /\ Message \in Nat /\ next_core \in Nat /\ machine.cores \in Nat
      /\ CALIBRATION_SAMPLES \in Nat
  BY Numbers, Zenon
<1>5. left # 0
  BY Zenon DEF RunningInv, OwnerInv
<1>6. Writing \in Nat /\ Writing >= 1
  BY <1>1, <1>4, <1>5 DEF Writing
<1>7. /\ samples * machine.period \in Nat /\ (samples + 1) * machine.period
                                               = samples * machine.period + machine.period
  BY <1>4, Products
<1>8. Clock \in Nat /\ (samples + 1) * machine.period <= Clock /\ machine.period <= Clock
  BY <1>3, <1>4, <1>7 DEF Clock
<1>9. Clock + Writing <= BootSteps /\ BootSteps \in Nat
  <2>1. /\ \A n, m \in Nat : n <= m => Warned(n) <= Warned(m)
        /\ \A n \in Nat : Warned(n) \in Nat
        /\ SetSteps = AssignSteps + machine.cores + Warned(machine.cores) + 1
        /\ SetSteps \in Nat /\ BootSteps \in Nat
        /\ BootSteps >= SetSteps + 1 + Message
    <3>1. machine.debug \in BOOLEAN
      BY Numbers, Zenon
    <3> QED BY <1>4, <3>1, Warnings
  <2>2. CASE pc = "cores"
    <3>1. Warned(next_core) <= Warned(machine.cores) /\ next_core <= machine.cores
      BY <1>4, <2>1, Zenon DEF RunningInv, PlaceInv
    <3>2. Clock + Writing <= AssignSteps + next_core + Warned(next_core)
      BY <2>2, Zenon DEF RunningInv, ClockInv
    <3>3. Warned(next_core) \in Nat /\ Warned(machine.cores) \in Nat
      BY <1>4, <2>1, Zenon
    <3> QED BY <1>4, <1>6, <1>8, <2>1, <3>1, <3>2, <3>3 DEF AssignSteps
  <2>3. CASE pc = "syscall"
    <3>1. Clock + Writing <= SetSteps + Message
      BY <2>3, Zenon DEF RunningInv, ClockInv
    <3> QED BY <1>4, <1>6, <1>8, <2>1, <3>1
  <2>4. CASE pc = "run"
    BY <2>1, <2>4, Zenon DEF RunningInv, ClockInv
  <2> QED BY <1>1, <1>2, <2>2, <2>3, <2>4, Zenon
<1>10. ~ (Clock >= BootSteps)
  BY <1>6, <1>8, <1>9
<1>11. CASE machine.debug
  <2>1. machine.period * 1 = machine.period
    BY <1>4, Products, Zenon
  <2>2. ~ (machine.period * 1 >= BootSteps)
    BY <1>4, <1>8, <1>9, <1>10, <2>1
  <2> QED BY <1>11, <2>2, Zenon DEF IntervalsLongEnough
<1>12. CASE ~ machine.debug
  <2>1. ticks.idx = samples /\ ticks.idx < CALIBRATION_SAMPLES
    BY <1>1, Zenon DEF CalibrationInv
  <2>2. samples + 1 = CALIBRATION_SAMPLES
    BY <1>4, <1>12, <2>1
  <2>3. machine.period * CALIBRATION_SAMPLES = (samples + 1) * machine.period
    BY <1>4, <2>2, Products, Zenon
  <2>4. ~ (machine.period * CALIBRATION_SAMPLES >= BootSteps)
    BY <1>4, <1>7, <1>8, <1>9, <1>10, <2>3
  <2> QED BY <1>12, <2>4, Zenon DEF IntervalsLongEnough
<1> QED BY <1>11, <1>12, Zenon

\* A step of the handler leaves main where it is, and its clock not later.
LEMMA SameClock ==
    ASSUME TypeOK, ClockInv, UNCHANGED <<machine, pc, next_core>>,
           pc \notin {"halt", "panic"} => Clock' <= Clock, Clock' \in Nat, Writing' = Writing
    PROVE  ClockInv'
<1>1. Clock \in Nat /\ Writing \in Nat
  <2>1. samples \in Nat /\ elapsed \in Nat /\ machine.period \in Nat /\ left \in Nat
    BY Numbers
  <2>2. samples * machine.period \in Nat
    BY <2>1, Products, Zenon
  <2> QED BY <2>1, <2>2 DEF Clock, Writing
<1>2. SetSteps' = SetSteps /\ BootSteps' = BootSteps /\ Message' = Message
      /\ Warned(next_core)' = Warned(next_core) /\ AssignSteps' = AssignSteps
  BY SameMachine, Zenon DEF Message, Warned, Over, AssignSteps
<1>3. /\ SetSteps \in Nat /\ BootSteps \in Nat /\ Message \in Nat
      /\ AssignSteps + next_core + Warned(next_core) \in Nat
  <2>1. next_core \in Nat /\ Message \in Nat
    BY Numbers, Zenon
  <2> QED BY <2>1, Warnings DEF AssignSteps
<1>4. \A n \in Nat : pc \notin {"halt", "panic"} /\ Clock <= n => Clock' <= n
  BY <1>1
<1>5. \A n \in Nat : pc \notin {"halt", "panic"} /\ Clock + Writing <= n
                       => Clock' + Writing' <= n
  <2>1. ASSUME NEW a \in Nat, NEW b \in Nat, NEW c \in Nat, NEW n \in Nat, b <= a, a + c <= n
        PROVE  b + c <= n
    BY <2>1
  <2> QED BY <1>1, <2>1, Zenon
<1>6. SetSteps + Message \in Nat
  BY <1>3
<1>7. CASE pc \in {"lapic", "unlock", "relock", "assign"}
  <2>1. /\ Clock <= 0 => Clock' <= 0
        /\ Clock <= 1 => Clock' <= 1
        /\ Clock <= 2 => Clock' <= 2
        /\ Clock <= 3 => Clock' <= 3
    BY <1>4, <1>7, Zenon
  <2> QED BY <1>7, <2>1, Zenon DEF ClockInv
<1>8. CASE pc = "cores"
  <2>1. Clock + Writing <= AssignSteps + next_core + Warned(next_core)
    BY <1>8, Zenon DEF ClockInv
  <2>2. Clock' + Writing' <= AssignSteps + next_core + Warned(next_core)
    BY <1>3, <1>5, <1>8, <2>1, Zenon
  <2> QED BY <1>2, <1>8, <2>2, Zenon DEF ClockInv
<1>9. CASE pc = "syscall"
  <2>1. Clock + Writing <= SetSteps + Message
    BY <1>9, Zenon DEF ClockInv
  <2>2. Clock' + Writing' <= SetSteps + Message
    BY <1>5, <1>6, <1>9, <2>1, Zenon
  <2> QED BY <1>2, <1>9, <2>2, Zenon DEF ClockInv
<1>10. CASE pc = "run"
  <2>1. Clock + Writing <= BootSteps
    BY <1>10, Zenon DEF ClockInv
  <2>2. Clock' + Writing' <= BootSteps
    BY <1>3, <1>5, <1>10, <2>1, Zenon
  <2> QED BY <1>2, <1>10, <2>2, Zenon DEF ClockInv
<1>11. CASE pc \notin {"lapic", "unlock", "relock", "assign", "cores", "syscall", "run"}
  BY <1>11, Zenon DEF ClockInv
<1> QED BY <1>7, <1>8, <1>9, <1>10, <1>11, Zenon

\* So does the interrupt: the clock says where main may be when it comes.
LEMMA InterruptProgress ==
    ASSUME TypeOK, CalibrationInv, ProgressInv, TimerInterrupt
    PROVE  ProgressInv'
<1> USE DEF Silent, BeforePit, BeforeAssign, AfterCalibrate, Assigned
<1>1. /\ Due /\ hpc = "off" /\ hang = "no" /\ elapsed' = 0
      /\ timer' = IF timer = "pit" THEN "off" ELSE timer
      /\ UNCHANGED <<machine, pc, mine, irq, apic_mapped, next_core, scheduler, ticks_lock>>
  BY Zenon DEF TimerInterrupt, mainVars
<1>2. RunningInv
  BY <1>1, Zenon DEF ProgressInv
<1>3. /\ pc \in {"lapic", "unlock", "relock", "assign", "cores", "syscall", "run", "halt",
                 "panic"}
      /\ timer = "pit" => logger \in {"main", Nobody}
      /\ timer = "pit" /\ pc \notin {"halt", "panic"} => elapsed >= machine.period
      /\ ticks.is_calibration <=> timer = "pit"
      /\ pc \in Assigned \cup {"panic"} <=> ticks.apic
      /\ ~ ticks.is_calibration => pc \in Assigned \cup {"panic"}
      /\ timer \in {"pit", "lapic"}
  BY <1>1, <1>2, Interrupted, Zenon
<1>4. IntervalsLongEnough' <=> IntervalsLongEnough
  BY <1>1, SameMachine, Zenon
<1>5. /\ samples \in Nat /\ elapsed \in Nat /\ machine.period \in Nat
      /\ Message \in Nat \ {0} /\ left \in 0 .. Message
      /\ Nobody \notin {"main", "handler", "panic"}
  BY Numbers, Zenon
<1>6. /\ samples * machine.period \in Nat
      /\ (samples + 1) * machine.period = samples * machine.period + machine.period
  BY <1>5, Products
\* A hang: the intervals are too short.
<1>7. ASSUME hang' \in {"spin", "page_fault"}, ~ IntervalsLongEnough
      PROVE  ProgressInv'
  BY <1>4, <1>7, Zenon DEF ProgressInv, NoSelfDeadlock
\* A panic of the handler: it has the logger, or panics again.
<1>8. ASSUME hpc' = "panic", panic, Clock' \in Nat,
             pc \notin {"halt", "panic"} => Clock' <= Clock,
             ticks'.apic = ticks.apic, ticks'.is_calibration = ticks.is_calibration
      PROVE  ProgressInv'
  <2>1. \/ logger = Nobody /\ logger' = "panic" /\ left' = Message /\ hang' = hang
        \/ hang' = "double_panic"
    BY <1>8, Zenon DEF panic, Message
  <2>2. NoSelfDeadlock'
    BY <1>1, <2>1, Zenon DEF NoSelfDeadlock
  <2>3. ASSUME hang' = "no" PROVE RunningInv'
    <3>1. logger = Nobody /\ logger' = "panic" /\ left' = Message
      BY <2>1, <2>3, Zenon
    <3>2. Writing' = Writing
      BY <1>5, <3>1, Zenon DEF Writing
    <3>3. ClockInv'
      BY <1>1, <1>2, <1>8, <3>2, SameClock, Zenon DEF RunningInv
    <3>4. OwnerInv'
      BY <1>1, <1>2, <1>3, <1>5, <1>8, <3>1, Zenon DEF RunningInv, OwnerInv
    <3>5. PlaceInv'
      BY <1>1, <1>2, <1>3, <1>8, Zenon DEF RunningInv, PlaceInv
    <3> QED BY <3>3, <3>4, <3>5, Zenon DEF RunningInv
  <2> QED BY <2>2, <2>3, Zenon DEF ProgressInv
<1>9. CASE ticks_lock # Nobody
  <2>1. hang' = "spin"
    BY <1>9, Zenon DEF TimerInterrupt
  <2>2. pc \notin Assigned \cup {"panic"}
    BY <1>2, <1>9, Zenon DEF RunningInv, OwnerInv, Holding
  <2> QED BY <1>1, <1>2, <1>7, <2>1, <2>2, EarlyInterrupt, Zenon
<1>10. CASE ticks_lock = Nobody /\ ticks.is_calibration /\ ~ ticks.apic
  <2>1. hang' = "page_fault"
    BY <1>10, Zenon DEF TimerInterrupt, end_calibration, page_fault
  <2> QED BY <1>1, <1>2, <1>3, <1>7, <1>10, <2>1, EarlyInterrupt, Zenon
<1>11. CASE ticks_lock = Nobody /\ ticks.is_calibration /\ ticks.apic
  <2>1. ticks.idx \in Nat /\ ticks.idx < CALIBRATION_SAMPLES /\ ticks \in Tick
    BY <1>1, <1>3, <1>11, Zenon DEF CalibrationInv, Tick
  <2>2. /\ ticks' = [ticks EXCEPT !.idx = ticks.idx + 1] /\ samples' = samples + 1
        /\ \/ ticks.idx + 1 < CALIBRATION_SAMPLES /\ HandlerLogs("rearm", machine.debug)
           \/ ~ (ticks.idx + 1 < CALIBRATION_SAMPLES) /\ HandlerLogs("periodic", TRUE)
           \/ hpc' = "panic" /\ panic
    BY <1>11, <2>1, Zenon DEF TimerInterrupt, end_calibration
  <2>3. ticks'.is_calibration = ticks.is_calibration /\ ticks'.apic = ticks.apic
    BY <2>1, <2>2, Zenon DEF Tick
  <2>4. Clock' = (samples + 1) * machine.period + 0
    BY <1>1, <2>2, Zenon DEF Clock
  <2>5. Clock' \in Nat /\ (pc \notin {"halt", "panic"} => Clock' <= Clock)
    BY <1>3, <1>5, <1>6, <1>11, <2>4 DEF Clock
  <2>6. CASE hpc' = "panic" /\ panic
    BY <1>8, <2>3, <2>5, <2>6, Zenon
  <2>7. CASE ~ (hpc' = "panic" /\ panic)
    <3>1. PICK l \in {"periodic", "rearm"}, w \in {TRUE, machine.debug} :
              /\ HandlerLogs(l, w)
              /\ w => machine.debug \/ ~ (ticks.idx + 1 < CALIBRATION_SAMPLES)
      BY <2>2, <2>7, Zenon
    <3>2. CASE w /\ logger # Nobody
      <4>1. hang' = "spin"
        BY <3>1, <3>2, Zenon DEF HandlerLogs
      <4> QED BY <1>1, <1>2, <1>7, <1>11, <3>1, <3>2, <4>1, BusyInterrupt, Zenon
    <3>3. CASE ~ (w /\ logger # Nobody)
      <4>1. /\ hpc' = l /\ hang' = hang
            /\ \/ logger = Nobody /\ logger' = "handler" /\ left' = Message
               \/ logger' = logger /\ left' = left
        BY <3>1, <3>3, LogCalls, Zenon DEF HandlerLogs
      <4>2. Writing' = Writing
        BY <1>5, <4>1, Zenon DEF Writing
      <4>3. ClockInv'
        BY <1>1, <1>2, <2>5, <4>2, SameClock, Zenon DEF RunningInv
      <4>4. OwnerInv'
        BY <1>1, <1>2, <1>3, <1>5, <1>11, <4>1, Zenon DEF RunningInv, OwnerInv
      <4>5. PlaceInv'
        BY <1>1, <1>2, <1>3, <1>11, <2>3, <4>1, Zenon DEF RunningInv, PlaceInv
      <4>6. NoSelfDeadlock'
        BY <1>1, <4>1, Zenon DEF NoSelfDeadlock
      <4> QED BY <4>3, <4>4, <4>5, <4>6, Zenon DEF ProgressInv, RunningInv
    <3> QED BY <3>2, <3>3, Zenon
  <2> QED BY <2>6, <2>7, Zenon
<1>12. CASE ticks_lock = Nobody /\ ~ ticks.is_calibration
  <2>1. /\ UNCHANGED <<ticks, samples>> /\ timer = "lapic" /\ timer' = timer
        /\ \/ hpc' = "eoi" /\ quiet /\ hang' \in {hang, "undefined"}
           \/ hpc' = "panic" /\ panic
    BY <1>1, <1>3, <1>12, Zenon DEF TimerInterrupt, get_mut
  <2>2. Clock' = samples * machine.period + 0
    BY <1>1, <2>1, Zenon DEF Clock
  <2>3. Clock' \in Nat /\ Clock' <= Clock
    BY <1>5, <1>6, <2>2 DEF Clock
  <2>4. \/ hpc' = "panic" /\ panic
        \/ hpc' = "eoi" /\ hang' = hang /\ logger' = logger /\ left' = left
        \/ hang' = "undefined"
    BY <2>1, LogCalls, Zenon
  <2>5. CASE hpc' = "panic" /\ panic
    BY <1>8, <2>1, <2>3, <2>5, Zenon
  <2>6. CASE hpc' = "eoi" /\ hang' = hang /\ logger' = logger /\ left' = left
    <3>1. Writing' = Writing
      BY <2>6, Zenon DEF Writing
    <3>2. ClockInv'
      BY <1>1, <1>2, <2>3, <3>1, SameClock, Zenon DEF RunningInv
    <3>3. OwnerInv'
      BY <1>1, <1>2, <1>5, <2>6, Zenon DEF RunningInv, OwnerInv
    <3>4. PlaceInv'
      BY <1>1, <1>2, <1>3, <2>1, <2>6, Zenon DEF RunningInv, PlaceInv
    <3>5. NoSelfDeadlock'
      BY <1>1, <2>6, Zenon DEF NoSelfDeadlock
    <3> QED BY <3>2, <3>3, <3>4, <3>5, Zenon DEF ProgressInv, RunningInv
  <2>7. CASE hang' = "undefined"
    BY <2>7, Zenon DEF ProgressInv, NoSelfDeadlock
  <2> QED BY <2>4, <2>5, <2>6, <2>7, Zenon
<1> QED BY <1>9, <1>10, <1>11, <1>12, Zenon

\* So does every step of the handler.
LEMMA HandlerProgress ==
    ASSUME TypeOK, CalibrationInv, ProgressInv, Handler
    PROVE  ProgressInv'
<1> USE DEF Silent, BeforePit, BeforeAssign, AfterCalibrate, Assigned
<1>1. /\ hang = "no" /\ hpc # "off" /\ hang' = hang
      /\ UNCHANGED <<machine, pc, mine, irq, apic_mapped, next_core, scheduler, ticks_lock,
                     samples>>
  BY Zenon DEF Handler, HandlerLog, Rearm, SetPeriodic, EndInterrupt, HandlerAt, mainVars, timeVars
<1>2. RunningInv
  BY <1>1, Zenon DEF ProgressInv
<1>3. pc \notin BeforePit
  BY <1>1, <1>2, Zenon DEF RunningInv, PlaceInv
<1>4. NoSelfDeadlock'
  BY <1>1, Zenon DEF NoSelfDeadlock
<1>5. /\ samples \in Nat /\ elapsed \in Nat /\ machine.period \in Nat /\ left \in 0 .. Message
      /\ Nobody \notin {"main", "handler", "panic"} /\ Message \in Nat
  BY Numbers, Zenon
<1>6. samples * machine.period \in Nat
  BY <1>5, Products, Zenon
<1>7. CASE HandlerLog
  <2>1. /\ UNCHANGED <<hpc, ticks, timer, elapsed>> /\ logger \in {"handler", "panic"}
        /\ left > 0 /\ left' = left - 1
        /\ left = 1 => logger' = Nobody
        /\ left # 1 => logger' = logger
    BY <1>7, Zenon DEF HandlerLog, WriteLog, timeVars
  <2>2. Writing' = Writing
    BY <1>5, <2>1, Zenon DEF Writing
  <2>3. Clock' = Clock /\ Clock \in Nat
    BY <1>1, <1>5, <1>6, <2>1 DEF Clock
  <2>4. ClockInv'
    BY <1>1, <1>2, <2>2, <2>3, SameClock DEF RunningInv
  <2>5. OwnerInv'
    BY <1>1, <1>2, <1>5, <2>1 DEF RunningInv, OwnerInv
  <2>6. PlaceInv'
    BY <1>1, <1>2, <2>1, Zenon DEF RunningInv, PlaceInv
  <2> QED BY <1>4, <2>4, <2>5, <2>6, Zenon DEF ProgressInv, RunningInv
<1>8. CASE Rearm \/ SetPeriodic \/ EndInterrupt
  <2>1. /\ logger # "handler" /\ UNCHANGED <<logger, left>> /\ hpc' \in {"eoi", "off"}
        /\ hpc' = "off" => hpc = "eoi"
        /\ hpc \in {"rearm", "periodic", "eoi"}
        /\ elapsed' \in {0, elapsed}
        /\ \/ hpc = "rearm" /\ timer' = "pit" /\ ticks' = ticks
           \/ timer' = "lapic" /\ ticks' = [ticks EXCEPT !.is_calibration = FALSE]
           \/ timer' = timer /\ ticks' = ticks
    BY <1>8, Zenon DEF Rearm, SetPeriodic, EndInterrupt, HandlerAt, logVars, timeVars
  <2>2. Writing' = Writing
    BY <2>1, Zenon DEF Writing
  <2>3. Clock' \in Nat /\ Clock' <= Clock
    BY <1>1, <1>5, <1>6, <2>1 DEF Clock
  <2>4. ClockInv'
    BY <1>1, <1>2, <2>2, <2>3, SameClock, Zenon DEF RunningInv
  <2>5. OwnerInv'
    BY <1>1, <1>2, <1>3, <2>1, Zenon DEF RunningInv, OwnerInv
  <2>6. ticks'.apic = ticks.apic
    BY <2>1, Zenon DEF TypeOK, Tick
  <2>7. PlaceInv'
    BY <1>1, <1>2, <1>3, <2>1, <2>6, Zenon DEF RunningInv, PlaceInv
  <2> QED BY <1>4, <2>4, <2>5, <2>7, Zenon DEF ProgressInv, RunningInv
<1> QED BY <1>7, <1>8, Zenon DEF Handler

\* BootInv holds throughout the boot.
LEMMA BootInductive == BootSpec => []BootInv
<1>1. BootInit => ProgressInv
  <2> SUFFICES ASSUME BootInit PROVE ProgressInv
    BY Zenon
  <2>1. /\ pc = "console" /\ hpc = "off" /\ hang = "no" /\ logger = Nobody /\ left = 0
        /\ irq = FALSE /\ ticks = new_tick /\ ticks_lock = Nobody /\ timer = "off"
        /\ samples = 0 /\ next_core = 0 /\ machine \in Machine
    BY Zenon DEF BootInit
  <2>2. machine.cores \in Nat /\ 0 <= machine.cores
    <3>1. machine.cores \in Cores
      BY <2>1, Zenon DEF Machine
    <3>2. \A n \in Cores : n \in Nat /\ 0 <= n
      BY BootAssumption
    <3> QED BY <3>1, <3>2, Zenon
  <2>3. OwnerInv
    BY <2>1, BootAssumption, Zenon DEF OwnerInv
  <2>4. PlaceInv
    BY <2>1, <2>2, Zenon DEF PlaceInv, BeforePit, BeforeAssign, AfterCalibrate, Assigned, new_tick
  <2>5. ClockInv /\ NoSelfDeadlock
    BY <2>1, Zenon DEF ClockInv, NoSelfDeadlock
  <2> QED BY <2>3, <2>4, <2>5, Zenon DEF ProgressInv, RunningInv
<1>2. TypeOK /\ CalibrationInv /\ ProgressInv /\ [BootNext]_bootVars => ProgressInv'
  <2>1. ASSUME ProgressInv, UNCHANGED bootVars PROVE ProgressInv'
    <3>1. /\ UNCHANGED <<machine, pc, hpc, hang, fb, logger, left, mine, irq, apic_mapped>>
          /\ UNCHANGED <<next_core, scheduler, ticks, ticks_lock, timer, elapsed, samples>>
      BY <2>1, Zenon DEF bootVars, mainVars, logVars, timeVars
    <3>2. OwnerInv => OwnerInv'
      BY <3>1, Zenon DEF OwnerInv
    <3>3. PlaceInv => PlaceInv'
      BY <3>1 DEF PlaceInv
    <3>4. ClockInv => ClockInv'
      <4>1. /\ Clock' = Clock /\ Writing' = Writing /\ Warned(next_core)' = Warned(next_core)
            /\ SetSteps' = SetSteps /\ BootSteps' = BootSteps
        BY <3>1, SameMachine, Zenon DEF Clock, Writing, Warned, Over
      <4> QED BY <3>1, <4>1, Zenon DEF ClockInv, AssignSteps, Message
    <3>5. NoSelfDeadlock => NoSelfDeadlock'
      BY <3>1, SameMachine, Zenon DEF NoSelfDeadlock
    <3> QED BY <2>1, <3>1, <3>2, <3>3, <3>4, <3>5, Zenon DEF ProgressInv, RunningInv
  <2> QED BY <2>1, MainProgress, InterruptProgress, HandlerProgress, Zenon DEF BootNext
<1> QED BY <1>1, <1>2, BootTypeOK, CalibrationInductive, PTL DEF BootSpec, BootInv

\* The timer interrupt never waits for a lock the code it interrupted holds, and
\* never uses the TICKS from before calibration (NoSelfDeadlock), for every
\* number of cores, samples and characters, when the intervals are long enough.
THEOREM BootNoSelfDeadlock == BootSpec => []NoSelfDeadlock
<1>1. BootInv => NoSelfDeadlock
  BY Zenon DEF BootInv, ProgressInv
<1> QED BY <1>1, BootInductive, PTL
=============================================================================
