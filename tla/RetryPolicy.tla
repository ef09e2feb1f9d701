---------------------------- MODULE RetryPolicy ----------------------------
(***************************************************************************)
(* compute_retry_decision over the life of one row: calls that fail, the   *)
(* status and the delay decided for each, the next attempt.  Settings are  *)
(* chosen at the start, any that the configuration accepts.  Seconds in    *)
(* the settings are floats; the unit here is half a second, so that        *)
(* rounding up shows.                                                      *)
(***************************************************************************)
EXTENDS Integers

CONSTANTS
  MaxBase,   \* bound: send_retry_base_delay_seconds, in half seconds
  MaxCap,    \* bound: send_retry_max_delay_seconds, in half seconds
  MaxBudget, \* bound: send_retry_max_attempts
  Asked      \* values of retry_after in Telegram's answers

ASSUME PolicyAssumption == MaxBase \in Nat /\ MaxCap \in Nat /\ MaxBudget \in Nat /\ Asked \subseteq Int

VARIABLES
  base, cap, budget, \* the settings
  attempt,           \* attempt_number
  decided,           \* the row's status: sending, or what was decided
  delay,             \* seconds until next_retry_at
  asked,             \* retry_after of the answer, 0 without one
  doubled            \* the delay by repeated doubling (an observer)

policyVars == <<base, cap, budget, attempt, decided, delay, asked, doubled>>

AtLeast(low, n) == IF n < low THEN low ELSE n
AtMost(high, n) == IF n > high THEN high ELSE n
Seconds(halves) == (halves + 1) \div 2

\* The error codes that classify_telegram_error tells apart; 0 is None.
Codes == {0, 399, 400, 428, 429, 499, 500, 599, 600}
ErrorKind(code) ==
  CASE code = 429 -> "telegram_rate_limit"
    [] code = 0 -> "network"
    [] code \in 500..599 -> "telegram_server"
    [] code \in 400..499 /\ code # 429 -> "telegram_client"
    [] OTHER -> "unknown"
Transient == {"telegram_rate_limit", "telegram_server", "network"}

\* Mutant: a negative base delay is taken as it is.
BackoffSigned(n) ==
  IF base = 0 THEN 0 ELSE Seconds(AtMost(AtLeast(base, cap), base * 2 ^ AtLeast(0, n - 1)))

\* Mutant: the first delay is doubled already.
BackoffFromTwo(n) ==
  LET b == AtLeast(0, base)
  IN IF b = 0 THEN 0 ELSE Seconds(AtMost(AtLeast(b, cap), b * 2 ^ n))
Backoff(n) ==
  LET b == AtLeast(0, base)
  IN IF b = 0 THEN 0 ELSE Seconds(AtMost(AtLeast(b, cap), b * 2 ^ AtLeast(0, n - 1)))

Exhausted == attempt >= AtLeast(1, budget)

Decision(code, seconds) ==
  IF ErrorKind(code) \notin Transient THEN [status |-> "blocked", delay |-> 0]
  ELSE IF Exhausted THEN [status |-> "dead_letter", delay |-> 0]
  ELSE [status |-> "deferred", delay |-> IF seconds > 0 THEN seconds ELSE Backoff(attempt)]

PolicyInit ==
  /\ base \in -1..MaxBase /\ cap \in 0..MaxCap /\ budget \in 0..MaxBudget
  /\ attempt = 1 /\ decided = "sending" /\ delay = 0 /\ asked = 0
  /\ doubled = AtLeast(0, base)

CallFails(code, seconds) ==
  /\ decided = "sending"
  /\ decided' = Decision(code, seconds).status
  /\ delay' = Decision(code, seconds).delay
  /\ asked' = seconds
  /\ UNCHANGED <<base, cap, budget, attempt, doubled>>

\* The row is due again; leasing it counts the attempt.
NextAttempt ==
  /\ decided = "deferred"
  /\ attempt' = attempt + 1 /\ decided' = "sending"
  /\ doubled' = AtMost(AtLeast(AtLeast(0, base), cap), 2 * doubled)
  /\ UNCHANGED <<base, cap, budget, delay, asked>>

PolicyNext ==
  \/ \E code \in Codes, seconds \in Asked : CallFails(code, seconds)
  \/ NextAttempt

PolicySpec == PolicyInit /\ [][PolicyNext]_policyVars

-----------------------------------------------------------------------------
(* Properties.                                                             *)

PolicyTypeOK ==
  /\ base \in Int /\ cap \in Nat /\ budget \in Nat
  /\ attempt \in Nat \ {0}
  /\ decided \in {"sending", "deferred", "blocked", "dead_letter"}
  /\ delay \in Nat /\ asked \in Int /\ doubled \in Nat

(***************************************************************************)
(* Telegram's errors alone never take a row beyond its budget, which is at *)
(* least one attempt; a row is given up for it only when it is spent, and  *)
(* is never deferred by its last attempt.                                  *)
(***************************************************************************)
BudgetSpentExactly ==
  /\ attempt <= AtLeast(1, budget)
  /\ decided = "dead_letter" => attempt = AtLeast(1, budget)
  /\ decided = "deferred" => attempt < AtLeast(1, budget)

(***************************************************************************)
(* The delay is Telegram's where it names one, and otherwise the base      *)
(* delay doubled attempt by attempt, bounded and rounded up: a base of     *)
(* zero or less waits not at all, a bound below the base is lifted to it.  *)
(***************************************************************************)
DelayDoublesToItsBound ==
  decided = "deferred" => delay = IF asked > 0 THEN asked ELSE Seconds(doubled)

\* What the retry policy promises (compute_retry_decision) over the life of a row: the
\* budget is spent exactly, and the waits in between follow Telegram or double to a bound.
RetriesStayInBounds ==
  /\ BudgetSpentExactly
  /\ DelayDoublesToItsBound
=============================================================================
