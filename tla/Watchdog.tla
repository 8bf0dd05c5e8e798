------------------------------- MODULE Watchdog -------------------------------
(***************************************************************************)
(* DieWhenConnectionFails (pkg/elasticsearch/elasticsearch.go): a probe    *)
(* every ten seconds, for as long as the process lives; a log.Fatalf when  *)
(* enough of them have failed in a row for long enough.                    *)
(*                                                                         *)
(* Time is counted in seconds; a probe takes some of them, the sleep       *)
(* between two takes SleepSeconds.                                         *)
(***************************************************************************)
EXTENDS Integers

CONSTANTS
    Latencies,     \* how long a probe may take
    SleepSeconds,  \* time.Sleep between two probes
    MaxRetries,    \* failures tolerated
    MaxDown,       \* seconds of failure tolerated
    Horizon        \* bound: how long the process is watched

ASSUME NumbersAssumption ==
    /\ Latencies \subseteq Nat /\ SleepSeconds \in Nat \ {0} /\ MaxRetries \in Nat
    /\ MaxDown \in Nat /\ Horizon \in Nat

(* The two limits fit each other: more than 5 retries, more than 60        *)
(* seconds, 10 seconds between two probes.                                 *)
ASSUME LimitsAssumption == MaxDown <= (MaxRetries + 1) * SleepSeconds

VARIABLES
    now,
    retries,      \* -1 until a probe has ended
    lastSuccess,
    fatal,        \* the downtime printed by log.Fatalf, or -1
    failures,     \* history: probes failed since the last one that succeeded
    success       \* history: when a probe last succeeded, or the start

vars == <<now, retries, lastSuccess, fatal, failures, success>>

Init ==
    /\ now = 0 /\ retries = -1 /\ lastSuccess = 0 /\ fatal = -1
    /\ failures = 0 /\ success = 0

(* (Mutations: either limit is enough; some failures more.)                *)
GivesUpOnEither(n, down) == n > MaxRetries \/ down > MaxDown
GivesUpLate(n, down) == n > MaxRetries + 2 /\ down > MaxDown
GivesUp(n, down) == n > MaxRetries /\ down > MaxDown

ProbeFails ==
    /\ fatal = -1 /\ now < Horizon
    /\ \E latency \in Latencies :
         LET t == now + latency IN
         /\ retries' = retries + 1 /\ failures' = failures + 1
         /\ IF GivesUp(retries', t - lastSuccess)
            THEN fatal' = t - lastSuccess /\ now' = t
            ELSE now' = t + SleepSeconds /\ UNCHANGED fatal
    /\ UNCHANGED <<lastSuccess, success>>

(* Only a success that follows a failure, or is the first one, is noted.   *)
(* (Mutation: the count survives a success.)                               *)
AfterSuccessKept(n) == IF n = -1 THEN 0 ELSE n
AfterSuccess(n) == 0

ProbeSucceeds ==
    /\ fatal = -1 /\ now < Horizon
    /\ \E latency \in Latencies :
         LET t == now + latency IN
         /\ IF retries # 0 THEN lastSuccess' = t ELSE UNCHANGED lastSuccess
         /\ retries' = AfterSuccess(retries)
         /\ failures' = 0 /\ success' = t
         /\ now' = t + SleepSeconds
    /\ UNCHANGED fatal

Next == ProbeFails \/ ProbeSucceeds

Spec == Init /\ [][Next]_vars

-----------------------------------------------------------------------------
(* Every variable keeps its type; time only moves forward.                 *)
TypeOK ==
    /\ now \in Nat /\ lastSuccess \in 0 .. now /\ success \in 0 .. now
    /\ retries \in -1 .. failures /\ failures \in Nat
    /\ fatal \in -1 .. now

(* An outage is tolerated as the comment (:51-52) says, although the time  *)
(* it is measured from is older than the last success: the process dies    *)
(* only after more than MaxRetries failures in a row and MaxDown seconds   *)
(* without a success.  (MaxRetries + 1 sleeps last MaxDown seconds.)       *)
KilledOnlyWhenDown == fatal # -1 => failures > MaxRetries /\ now - success >= MaxDown

(* An outage that lasts kills it: no process survives more than            *)
(* MaxRetries + 2 failures in a row, the start included.                   *)
DiesInTime == fatal = -1 => failures <= MaxRetries + 2

=============================================================================
