----------------------------- MODULE SemTimeout -----------------------------
(***************************************************************************)
(* simple_sem_wait_timeout of src/semaphore.c: an absolute deadline is     *)
(* computed from the clock and a number of milliseconds and given to       *)
(* sem_timedwait, whose result is folded into 0 or -1.  The units are      *)
(* parameters, so that small ones can stand for 10^6 nanoseconds in a      *)
(* millisecond and 1000 milliseconds in a second.                          *)
(***************************************************************************)
EXTENDS Integers

CONSTANTS NsPerMs, MsPerSec,
          Timeouts,   \* arguments of the call, in milliseconds
          MaxNow,     \* last instant of the clock, in ns; deadlines lie before it (bound)
          MaxPosts,   \* posts (bound)
          MaxSignals  \* waits interrupted by a signal (bound)

ASSUME UnitsAssumption == NsPerMs \in Nat \ {0} /\ MsPerSec \in Nat \ {0}
ASSUME TimeoutsAssumption == Timeouts \subseteq Int
ASSUME BoundsAssumption == {MaxNow, MaxPosts, MaxSignals} \subseteq Nat

NsPerSec == MsPerSec * NsPerMs

\* Division and remainder of C: rounded towards 0.
CDiv(a, b) == IF a >= 0 THEN a \div b ELSE -((-a) \div b)
CRem(a, b) == IF a >= 0 THEN a % b ELSE -((-a) % b)

VARIABLES
    now,      \* the clock
    value,    \* the semaphore
    posts,    \* posts so far
    waiter,   \* the waiter: out, call, blocked
    ts,       \* its timespec
    begun,    \* history: the instant of clock_gettime
    timeout,  \* its argument
    ret,      \* its last result
    signals   \* history: waits a signal has interrupted

semVars == <<now, value, posts, waiter, ts, begun, timeout, ret, signals>>

SemInit ==
    /\ now = 0 /\ value = 0 /\ posts = 0
    /\ waiter = "out" /\ ts = [tv_sec |-> 0, tv_nsec |-> 0]
    /\ begun = 0 /\ timeout = 0 /\ ret = 0 /\ signals = 0

\* Mutant: the nanoseconds are never carried.
NotNormalised(t) == t

\* The nanoseconds are carried into the seconds only above one second.
Normalised(t) ==
    IF t.tv_nsec > NsPerSec
    THEN [tv_sec |-> t.tv_sec + 1, tv_nsec |-> t.tv_nsec - NsPerSec]
    ELSE t

\* clock_gettime and the arithmetic on the deadline.
Deadline(ms) ==
    Normalised([tv_sec  |-> (now \div NsPerSec) + CDiv(ms, MsPerSec),
                tv_nsec |-> (now % NsPerSec) + CRem(ms, MsPerSec) * NsPerMs])

Instant(t) == t.tv_sec * NsPerSec + t.tv_nsec

Call(ms) ==
    /\ waiter = "out" /\ now + ms * NsPerMs <= MaxNow
    /\ waiter' = "call" /\ timeout' = ms /\ begun' = now /\ ts' = Deadline(ms)
    /\ UNCHANGED <<now, value, posts, ret, signals>>

SemReturn(rc) == waiter' = "out" /\ ret' = rc /\ UNCHANGED <<now, posts, ts, begun, timeout>>

\* sem_timedwait: a token at once; else EINVAL for a timespec that is not
\* normalised; else it blocks until a post, the deadline or a signal.  Whatever
\* its error is, the caller is given -1.
TakeToken ==
    /\ waiter \in {"call", "blocked"} /\ value > 0
    /\ value' = value - 1
    /\ SemReturn(0) /\ UNCHANGED signals

Invalid ==
    /\ waiter = "call" /\ value = 0 /\ ts.tv_nsec \notin 0..(NsPerSec - 1)
    /\ SemReturn(-1) /\ UNCHANGED <<value, signals>>

Block ==
    /\ waiter = "call" /\ value = 0 /\ ts.tv_nsec \in 0..(NsPerSec - 1)
    /\ waiter' = "blocked"
    /\ UNCHANGED <<now, value, posts, ts, begun, timeout, ret, signals>>

TimedOut ==
    /\ waiter = "blocked" /\ value = 0 /\ now >= Instant(ts)
    /\ SemReturn(-1) /\ UNCHANGED <<value, signals>>

\* EINTR, also when a post has come that has not woken the waiter yet.
Interrupted ==
    /\ waiter = "blocked" /\ signals < MaxSignals
    /\ signals' = signals + 1
    /\ SemReturn(-1) /\ UNCHANGED value

simple_sem_wait_timeout == TakeToken \/ Invalid \/ Block \/ TimedOut \/ Interrupted

\* Another thread posts; time passes.
Post ==
    /\ posts < MaxPosts
    /\ value' = value + 1 /\ posts' = posts + 1
    /\ UNCHANGED <<now, waiter, ts, begun, timeout, ret, signals>>

Tick ==
    /\ now < MaxNow
    /\ now' = now + 1
    /\ UNCHANGED <<value, posts, waiter, ts, begun, timeout, ret, signals>>

SemNext == (\E ms \in Timeouts : Call(ms)) \/ simple_sem_wait_timeout \/ Post \/ Tick

SemSpec == SemInit /\ [][SemNext]_semVars

-----------------------------------------------------------------------------
(* Properties.                                                             *)

\* The wait gives up before its time (chkreq would report a timeout early, see
\* thread.h) in two cases only: a signal interrupts it, or the nanoseconds of the
\* clock and of the timeout add up to exactly one second, and the timespec is
\* refused.
EarlyOnlyAtASecond ==
    [][waiter # "out" /\ waiter' = "out" /\ ret' = -1 /\ now < begun + timeout * NsPerMs
       => \/ (begun % NsPerSec) + (timeout % MsPerSec) * NsPerMs = NsPerSec
          \/ signals' # signals]_semVars
=============================================================================
