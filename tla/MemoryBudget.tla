---------------------------- MODULE MemoryBudget ----------------------------
(***************************************************************************)
(* engram_core memory.rs: the budget that concurrent work reserves bytes   *)
(* from.  Every atomic operation of try_allocate and release is a step of  *)
(* its own; arithmetic is the unsigned machine arithmetic of the code, on  *)
(* words of Word values.                                                   *)
(***************************************************************************)
EXTENDS Integers, FiniteSets

CONSTANTS
    Threads,      \* callers that reserve and release
    Subsystems,   \* the counters of the breakdown
    Sizes,        \* bytes a caller asks for
    Budgets,      \* budgets set_budget may install
    Word          \* 2^64: number of values of an unsigned word

\* A word counts what every caller may hold at once, and a budget is not the
\* value at which additions saturate: budgets are gigabytes, words have 64 bits.
ASSUME MemoryAssumption ==
    /\ IsFiniteSet(Threads) /\ Subsystems # {}
    /\ Word \in Nat \ {0}
    /\ Sizes \subseteq 0 .. Word - 1
    /\ Budgets \subseteq 0 .. Word - 2
    /\ \A b \in Budgets : b * Cardinality(Threads) < Word

VARIABLES
    budget,    \* MemoryBudgetInner::budget
    used,      \* MemoryBudgetInner::used
    pressure,  \* MemoryBudgetInner::pressure_active
    counter,   \* per subsystem: its byte counter
    thread,    \* per thread: [at, bytes, subsystem, limit, seen]
    ceiling    \* history: the largest budget installed so far

memoryVars == <<budget, used, pressure, counter, thread, ceiling>>

At(t, a) == thread[t].at = a
NoReservation ==
    [at |-> "idle", bytes |-> 0, subsystem |-> CHOOSE s \in Subsystems : TRUE,
     limit |-> 0, seen |-> 0]

\* saturating_add, saturating_sub, and the wrapping fetch_add and fetch_sub.
SaturatingAdd(a, b) == IF a + b >= Word THEN Word - 1 ELSE a + b
SaturatingSub(a, b) == IF a < b THEN 0 ELSE a - b
WrappingAdd(a, b) == (a + b) % Word
WrappingSub(a, b) == (a - b) % Word

\* SOFT_LIMIT_RATIO of a budget, rounded down.
SoftLimit(b) == (b * 8) \div 10

MemoryInit ==
    /\ budget \in Budgets
    /\ used = 0
    /\ pressure = FALSE
    /\ counter = [s \in Subsystems |-> 0]
    /\ thread = [t \in Threads |-> NoReservation]
    /\ ceiling = budget

\* try_allocate reads the budget, ...
LoadBudget(t, s, n) ==
    /\ At(t, "idle")
    /\ thread' = [thread EXCEPT ![t] =
           [at |-> "reserve", bytes |-> n, subsystem |-> s, limit |-> budget,
            seen |-> 0]]
    /\ UNCHANGED <<budget, used, pressure, counter, ceiling>>

\* The closure of the compare-and-swap loop.
Fits(t) == SaturatingAdd(used, thread[t].bytes) <= thread[t].limit

\* Mutated: the addition is optimistic, a failed caller takes it back later.
ReserveOptimistic(t) ==
    /\ At(t, "reserve")
    /\ used' = WrappingAdd(used, thread[t].bytes)
    /\ thread' = [thread EXCEPT ![t].at = "count",
           ![t].seen = WrappingAdd(used, thread[t].bytes)]
    /\ UNCHANGED <<budget, pressure, counter, ceiling>>

\* ... adds to the usage if the result stays within what it read, ...
Reserve(t) ==
    /\ At(t, "reserve")
    /\ IF Fits(t)
       THEN LET new == SaturatingAdd(used, thread[t].bytes) IN
            /\ used' = new
            /\ thread' = [thread EXCEPT ![t].at = "count", ![t].seen = new]
       ELSE /\ thread' = [thread EXCEPT ![t].at = "refuse"]
            /\ UNCHANGED used
    /\ UNCHANGED <<budget, pressure, counter, ceiling>>

\* ... and otherwise raises the pressure flag and rejects the caller.
Refuse(t) ==
    /\ At(t, "refuse")
    /\ pressure' = TRUE
    /\ thread' = [thread EXCEPT ![t] = NoReservation]
    /\ UNCHANGED <<budget, used, counter, ceiling>>

\* The subsystem's counter follows the usage, ...
Count(t) ==
    /\ At(t, "count")
    /\ counter' = [counter EXCEPT
           ![thread[t].subsystem] = WrappingAdd(@, thread[t].bytes)]
    /\ thread' = [thread EXCEPT ![t].at = "flag"]
    /\ UNCHANGED <<budget, used, pressure, ceiling>>

\* ... and the flag says whether the soft limit was passed.
Flag(t) ==
    /\ At(t, "flag")
    /\ pressure' = (thread[t].seen > SoftLimit(thread[t].limit))
    /\ thread' = [thread EXCEPT ![t].at = "held"]
    /\ UNCHANGED <<budget, used, counter, ceiling>>

\* AllocationGuard::drop calls release, which gives the bytes back, ...
Release(t) ==
    /\ At(t, "held")
    /\ used' = WrappingSub(used, thread[t].bytes)
    /\ thread' = [thread EXCEPT
           ![t].at = "uncount", ![t].seen = SaturatingSub(used, thread[t].bytes)]
    /\ UNCHANGED <<budget, pressure, counter, ceiling>>

\* ... takes them from the counter, ...
Uncount(t) ==
    /\ At(t, "uncount")
    /\ counter' = [counter EXCEPT
           ![thread[t].subsystem] = WrappingSub(@, thread[t].bytes)]
    /\ thread' = [thread EXCEPT ![t].at = "unflag"]
    /\ UNCHANGED <<budget, used, pressure, ceiling>>

\* ... and clears the flag below the soft limit of the current budget.
Unflag(t) ==
    /\ At(t, "unflag")
    /\ pressure' = (pressure /\ thread[t].seen > SoftLimit(budget))
    /\ thread' = [thread EXCEPT ![t] = NoReservation]
    /\ UNCHANGED <<budget, used, counter, ceiling>>

\* set_budget.
SetBudget(b) ==
    /\ budget' = b
    /\ ceiling' = IF b > ceiling THEN b ELSE ceiling
    /\ UNCHANGED <<used, pressure, counter, thread>>

ThreadStep(t) ==
    \/ \E s \in Subsystems, n \in Sizes : LoadBudget(t, s, n)
    \/ Reserve(t) \/ Refuse(t) \/ Count(t) \/ Flag(t)
    \/ Release(t) \/ Uncount(t) \/ Unflag(t)

MemoryNext == (\E t \in Threads : ThreadStep(t)) \/ (\E b \in Budgets : SetBudget(b))

MemorySpec == MemoryInit /\ [][MemoryNext]_memoryVars

-----------------------------------------------------------------------------
(* Properties.                                                             *)

\* The bytes of the threads in S, each counted from 1.
BytesOf(th, S) == Cardinality({x \in S \X (1 .. Word) : x[2] <= th[x[1]].bytes})
Bytes(S) == BytesOf(thread, S)

\* The reservations that exist: granted and not given back.
Granted == {t \in Threads : thread[t].at \in {"count", "flag", "held"}}
\* The ones the counters of subsystem s include.
Counted(s) ==
    {t \in Threads : thread[t].subsystem = s
                     /\ thread[t].at \in {"flag", "held", "uncount"}}

\* The usage is exactly what granted reservations hold and each counter of
\* the breakdown what its counted ones do, however allocations, releases and
\* budget changes interleave: neither leaks nor wraps.
UsedIsGranted ==
    /\ used = Bytes(Granted)
    /\ \A s \in Subsystems : counter[s] = Bytes(Counted(s))

\* MEM1: concurrent callers never hold more than the hard limit, not even for
\* a moment, in an exact account; only a lowered budget can leave the usage
\* above it.
NeverOvercommitted == UsedIsGranted /\ used <= ceiling
=============================================================================
