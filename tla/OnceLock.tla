------------------------------ MODULE OnceLock ------------------------------
(***************************************************************************)
(* The one-time cell of kernel/src/scheduler/sync.rs, which holds the      *)
(* schedulers (SCHEDULER in scheduler/mod.rs).                             *)
(*                                                                         *)
(* One step per access to the atomic `once` or to the plain cell `value`;  *)
(* Acquire and Release orders make the accesses to `once` sequentially     *)
(* consistent here.  A Context is what runs on a core, or the timer        *)
(* handler of one: at[c] is its place in the function fn[c].  The handler  *)
(* only calls get (tick.rs), and what it has interrupted stands still      *)
(* until that call returns.  The kernel has panic =                        *)
(* "abort" and its panic handler loops for ever, so Guard::drop never runs *)
(* with the guard active: a context whose f() panics stays where it is.    *)
(***************************************************************************)
EXTENDS Naturals

CONSTANTS
    Context,      \* what runs concurrently; c stores the value c
    TickHandler,  \* the timer handler of a core
    Underneath,   \* what runs on that core
    None          \* Option::None

ASSUME ContextAssumption == /\ Context \cap {None, "Ok", "Err"} = {}
                            /\ {TickHandler, Underneath} \subseteq Context
                            /\ TickHandler # Underneath

VARIABLES
    once,    \* OnceLock::once
    value,   \* OnceLock::value
    at,      \* where each context is
    fn,      \* in which function
    result   \* what its last call returned: a value, None, or Ok or Err

onceVars == <<once, value, at, fn, result>>

Go(c, l) == at' = [at EXCEPT ![c] = l]

Return(c, r) == Go(c, "idle") /\ result' = [result EXCEPT ![c] = r]

Call(c, f, l) ==
    /\ at[c] = "idle"
    /\ fn' = [fn EXCEPT ![c] = f]
    /\ Go(c, l)
    /\ UNCHANGED <<once, value, result>>

get_or_init(c) == Call(c, "get_or_init", "fast")
set(c) == Call(c, "set", "cas")
get(c) == Call(c, "get", "fast")

\* A get that waits for the value as get_or_init does.
FastPathWaiting(c) ==
    /\ at[c] = "fast"
    /\ \/ once = "INITIALIZED" /\ Go(c, "read")
       \/ once # "INITIALIZED" /\ fn[c] = "get_or_init" /\ Go(c, "cas")
       \/ once # "INITIALIZED" /\ fn[c] = "get" /\ Go(c, "wait")
    /\ UNCHANGED <<once, value, fn, result>>

\* The load that starts get and get_or_init.
FastPath(c) ==
    /\ at[c] = "fast"
    /\ \/ once = "INITIALIZED" /\ Go(c, "read") /\ UNCHANGED result
       \/ /\ once # "INITIALIZED" /\ fn[c] = "get_or_init"
          /\ Go(c, "cas") /\ UNCHANGED result
       \/ once # "INITIALIZED" /\ fn[c] = "get" /\ Return(c, None)
    /\ UNCHANGED <<once, value, fn>>

\* An exchange that looks at `once` and sets it in two steps would do this.
ExchangeUnchecked(c) ==
    /\ at[c] = "cas"
    /\ once' = "INITIALIZING"
    /\ Go(c, IF fn[c] = "set" THEN "write" ELSE "init")
    /\ UNCHANGED <<value, fn, result>>

\* compare_exchange(UNINITIALIZED, INITIALIZING).
CompareExchange(c) ==
    /\ at[c] = "cas"
    /\ \/ /\ once = "UNINITIALIZED"
          /\ once' = "INITIALIZING"
          /\ Go(c, IF fn[c] = "set" THEN "write" ELSE "init")
          /\ UNCHANGED result
       \/ /\ once # "UNINITIALIZED" /\ fn[c] = "get_or_init"
          /\ Go(c, "wait")
          /\ UNCHANGED <<once, result>>
       \/ /\ once # "UNINITIALIZED" /\ fn[c] = "set"
          /\ Return(c, "Err")
          /\ UNCHANGED once
    /\ UNCHANGED <<value, fn>>

\* f() returns, or panics.
RunInit(c) ==
    /\ at[c] = "init"
    /\ Go(c, "write") \/ Go(c, "panicked")
    /\ UNCHANGED <<once, value, fn, result>>

WriteValue(c) ==
    /\ at[c] = "write"
    /\ value' = c
    /\ Go(c, "publish")
    /\ UNCHANGED <<once, fn, result>>

\* A cell that is left open for another initialisation.
PublishNothing(c) ==
    /\ at[c] = "publish"
    /\ once' = "UNINITIALIZED"
    /\ \/ fn[c] = "set" /\ Return(c, "Ok")
       \/ fn[c] = "get_or_init" /\ Go(c, "read") /\ UNCHANGED result
    /\ UNCHANGED <<value, fn>>

Publish(c) ==
    /\ at[c] = "publish"
    /\ once' = "INITIALIZED"
    /\ \/ fn[c] = "set" /\ Return(c, "Ok")
       \/ fn[c] = "get_or_init" /\ Go(c, "read") /\ UNCHANGED result
    /\ UNCHANGED <<value, fn>>

ReadValue(c) ==
    /\ at[c] = "read"
    /\ Return(c, value)
    /\ UNCHANGED <<once, value, fn>>

\* The spin loop, and the load after it.
SpinLoop(c) ==
    /\ at[c] = "wait"
    /\ once # "INITIALIZING"
    /\ Go(c, "recheck")
    /\ UNCHANGED <<once, value, fn, result>>

Recheck(c) ==
    /\ at[c] = "recheck"
    /\ Go(c, IF once = "INITIALIZED" THEN "read" ELSE "fast")
    /\ UNCHANGED <<once, value, fn, result>>

OnceInit ==
    /\ once = "UNINITIALIZED"
    /\ value = None
    /\ at = [c \in Context |-> "idle"]
    /\ fn = [c \in Context |-> "get"]
    /\ result = [c \in Context |-> None]

Step(c) == \/ FastPath(c) \/ CompareExchange(c) \/ RunInit(c) \/ WriteValue(c)
           \/ Publish(c) \/ ReadValue(c) \/ SpinLoop(c) \/ Recheck(c)

\* c is not under an interrupt handler that is inside a call.
Executing(c) == c = Underneath => at[TickHandler] = "idle"

OnceNext ==
    \E c \in Context : /\ Executing(c)
                       /\ \/ c # TickHandler /\ (get_or_init(c) \/ set(c))
                          \/ get(c)
                          \/ Step(c)

OnceSpec == OnceInit /\ [][OnceNext]_onceVars

\* A context that is inside a call goes on; the one that timer interrupts break
\* into goes on between them: the next is a whole tick away.
OnceFairSpec == /\ OnceSpec
                /\ \A c \in Context : WF_onceVars(Executing(c) /\ Step(c))
                /\ SF_onceVars(Executing(Underneath) /\ Step(Underneath))

(***************************************************************************)
(* Properties.                                                             *)
(***************************************************************************)
CellTypeOK ==
    /\ once \in {"UNINITIALIZED", "INITIALIZING", "INITIALIZED"}
    /\ value \in Context \cup {None}
    /\ at \in [Context -> {"idle", "fast", "cas", "init", "write", "publish",
                           "read", "wait", "recheck", "panicked"}]
    /\ fn \in [Context -> {"get_or_init", "set", "get"}]
    /\ result \in [Context -> Context \cup {None, "Ok", "Err"}]

\* c has won the exchange and has not published yet.
Owns(c) == at[c] \in {"init", "write", "publish", "panicked"}

\* No data race on the plain cell: one context at most may write it, and none
\* reads it before the writer has published, so unwrap() finds a value.
RaceFree ==
    /\ \A c, d \in Context : Owns(c) /\ Owns(d) => c = d
    /\ \A c \in Context : at[c] = "read" =>
           value # None /\ \A d \in Context : ~ Owns(d)

\* "written to only once": a published value never changes, and every value a
\* call has returned is that one.
WrittenOnce ==
    /\ [][once = "INITIALIZED" => UNCHANGED <<once, value>>]_onceVars
    /\ [](\A c \in Context : result[c] \in Context =>
             once = "INITIALIZED" /\ result[c] = value)

\* Every get and set returns, in a timer handler too that has interrupted the
\* initialisation on its own core, and get_or_init unless an initializer has
\* panicked: the cooperative wait does not outlast the initialisation.
CallsReturn ==
    \A c \in Context :
        at[c] # "idle" ~> \/ at[c] = "idle"
                          \/ /\ fn[c] = "get_or_init"
                             /\ \E d \in Context : at[d] = "panicked"
=============================================================================
