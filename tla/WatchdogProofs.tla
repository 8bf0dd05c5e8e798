---------------------------- MODULE WatchdogProofs ----------------------------
(***************************************************************************)
(* Proofs about Watchdog, for any latencies of the probes and any limits   *)
(* that fit each other as those of the code do.                            *)
(***************************************************************************)
EXTENDS Watchdog, TLAPS

(* Sleeps add up.                                                          *)
LEMMA OneMoreSleep ==
    ASSUME NEW n \in Int
    PROVE  /\ n * SleepSeconds \in Int
           /\ (n + 1) * SleepSeconds = n * SleepSeconds + SleepSeconds
  BY NumbersAssumption

LEMMA MoreSleeps ==
    ASSUME NEW m \in Int, NEW n \in Int, m <= n
    PROVE  m * SleepSeconds <= n * SleepSeconds
  BY NumbersAssumption

-----------------------------------------------------------------------------
(* Every variable keeps its type, and time only moves forward.             *)
LEMMA TypeInit == Init => TypeOK
  BY DEF Init, TypeOK

LEMMA TypeStep == TypeOK /\ [Next]_vars => TypeOK'
  <1> SUFFICES ASSUME TypeOK, [Next]_vars PROVE TypeOK'
    OBVIOUS
  <1> USE NumbersAssumption DEF TypeOK
  <1>1. CASE ProbeFails
    <2>1. PICK latency \in Latencies :
            LET t == now + latency IN
            /\ retries' = retries + 1 /\ failures' = failures + 1
            /\ IF GivesUp(retries', t - lastSuccess)
               THEN fatal' = t - lastSuccess /\ now' = t
               ELSE now' = t + SleepSeconds /\ UNCHANGED fatal
      BY <1>1 DEF ProbeFails
    <2>2. latency \in Nat /\ SleepSeconds \in Nat
      OBVIOUS
    <2> QED BY <1>1, <2>1, <2>2 DEF ProbeFails
  <1>2. CASE ProbeSucceeds
    <2>1. PICK latency \in Latencies :
            LET t == now + latency IN
            /\ IF retries # 0 THEN lastSuccess' = t ELSE UNCHANGED lastSuccess
            /\ retries' = AfterSuccess(retries)
            /\ failures' = 0 /\ success' = t
            /\ now' = t + SleepSeconds
      BY <1>2 DEF ProbeSucceeds
    <2>2. latency \in Nat /\ SleepSeconds \in Nat
      OBVIOUS
    <2> QED BY <1>2, <2>1, <2>2 DEF ProbeSucceeds, AfterSuccess
  <1>3. CASE UNCHANGED vars
    BY <1>3 DEF vars
  <1> QED BY <1>1, <1>2, <1>3 DEF Next

THEOREM TypeCorrect == Spec => []TypeOK
  BY TypeInit, TypeStep, PTL DEF Spec

-----------------------------------------------------------------------------
(* What the loop knows between two probes: the count is behind the number  *)
(* of failures by the one that follows the start, at most; it is also the  *)
(* number of sleeps since the last success, less one; and while it is over *)
(* the limit there was no time yet for another probe.                      *)
Counted ==
    /\ retries \in {failures - 1, failures} /\ lastSuccess <= success
    /\ fatal = -1 => now - success >= (retries + 1) * SleepSeconds /\ retries <= MaxRetries + 1
    /\ fatal # -1 => now - success >= retries * SleepSeconds /\ retries > MaxRetries

Inv == TypeOK /\ Counted

LEMMA CountedInit == Init => Counted
  BY NumbersAssumption DEF Init, Counted

LEMMA CountedAfterFailure == Inv /\ ProbeFails => Counted'
  <1> SUFFICES ASSUME Inv, ProbeFails PROVE Counted'
    OBVIOUS
  <1> USE NumbersAssumption
  <1>1. PICK latency \in Latencies :
          LET t == now + latency IN
          /\ retries' = retries + 1 /\ failures' = failures + 1
          /\ IF GivesUp(retries', t - lastSuccess)
             THEN fatal' = t - lastSuccess /\ now' = t
             ELSE now' = t + SleepSeconds /\ UNCHANGED fatal
    BY DEF ProbeFails
  <1> DEFINE t == now + latency
  <1>2. /\ now \in Nat /\ t \in Nat /\ t >= now /\ success \in 0 .. now
        /\ retries \in Int /\ failures \in Nat /\ lastSuccess \in 0 .. success
        /\ fatal = -1 /\ lastSuccess' = lastSuccess /\ success' = success
    BY DEF Inv, TypeOK, Counted, ProbeFails
  <1>3. retries' = retries + 1 /\ retries' \in {failures' - 1, failures'}
    BY <1>1, <1>2 DEF Inv, Counted
  <1>4. t - success >= retries' * SleepSeconds
    BY <1>2, <1>3, OneMoreSleep DEF Inv, Counted
  <1>5. CASE GivesUp(retries', t - lastSuccess)
    BY <1>1, <1>2, <1>3, <1>4, <1>5, OneMoreSleep DEF GivesUp, Counted
  <1>6. CASE ~GivesUp(retries', t - lastSuccess)
    <2>1. now' = t + SleepSeconds /\ fatal' = -1
      BY <1>1, <1>2, <1>6
    <2>2. now' - success >= (retries' + 1) * SleepSeconds
      BY <1>2, <1>3, <1>4, <2>1, OneMoreSleep
    <2>3. ASSUME retries' > MaxRetries + 1 PROVE FALSE
      <3>1. t - lastSuccess <= MaxDown
        BY <1>2, <1>3, <1>6, <2>3 DEF GivesUp
      <3>2. retries' * SleepSeconds >= (MaxRetries + 2) * SleepSeconds
        BY <1>2, <1>3, <2>3, MoreSleeps
      <3>3. (MaxRetries + 2) * SleepSeconds > MaxDown
        <4>1. (MaxRetries + 2) * SleepSeconds = (MaxRetries + 1) * SleepSeconds + SleepSeconds
          BY OneMoreSleep
        <4> QED BY <4>1, OneMoreSleep, LimitsAssumption
      <3> QED BY <1>2, <1>3, <1>4, <3>1, <3>2, <3>3, OneMoreSleep
    <2> QED BY <1>2, <1>3, <2>1, <2>2, <2>3 DEF Counted
  <1> QED BY <1>5, <1>6

LEMMA CountedStep == Inv /\ [Next]_vars => Counted'
  <1> SUFFICES ASSUME Inv, [Next]_vars PROVE Counted'
    OBVIOUS
  <1>1. CASE ProbeFails
    BY <1>1, CountedAfterFailure
  <1>2. CASE ProbeSucceeds
    <2>1. PICK latency \in Latencies :
            LET t == now + latency IN
            /\ IF retries # 0 THEN lastSuccess' = t ELSE UNCHANGED lastSuccess
            /\ retries' = AfterSuccess(retries)
            /\ failures' = 0 /\ success' = t
            /\ now' = t + SleepSeconds
      BY <1>2 DEF ProbeSucceeds
    <2>2. latency \in Nat /\ SleepSeconds \in Nat /\ MaxRetries \in Nat
      BY NumbersAssumption
    <2>3. now' - success' >= (retries' + 1) * SleepSeconds
      BY <2>1, <2>2 DEF AfterSuccess, Inv, TypeOK
    <2> QED BY <1>2, <2>1, <2>2, <2>3 DEF ProbeSucceeds, AfterSuccess, Inv, TypeOK, Counted
  <1>3. CASE UNCHANGED vars
    BY <1>3 DEF vars, Inv, Counted
  <1> QED BY <1>1, <1>2, <1>3 DEF Next

LEMMA InvHolds == Spec => []Inv
  <1>1. Init => Inv
    BY TypeInit, CountedInit DEF Inv
  <1>2. Inv /\ [Next]_vars => Inv'
    BY TypeStep, CountedStep DEF Inv
  <1> QED BY <1>1, <1>2, PTL DEF Spec

-----------------------------------------------------------------------------
(* log.Fatalf is only reached after more than MaxRetries failures in a row *)
(* and MaxDown seconds without a success, although the time the code looks *)
(* at is measured from an older one: the sleeps between the failures make  *)
(* up for it.                                                              *)
THEOREM NeverKilledEarly == Spec => []KilledOnlyWhenDown
  <1>1. Inv => KilledOnlyWhenDown
    <2> SUFFICES ASSUME Inv, fatal # -1
                 PROVE  failures > MaxRetries /\ now - success >= MaxDown
      BY DEF KilledOnlyWhenDown
    <2>1. /\ retries \in Int /\ now \in Nat /\ success \in Nat /\ MaxRetries \in Nat
          /\ SleepSeconds \in Nat /\ MaxDown \in Nat
      BY NumbersAssumption DEF Inv, TypeOK
    <2>2. retries * SleepSeconds >= (MaxRetries + 1) * SleepSeconds
      BY <2>1, MoreSleeps DEF Inv, Counted
    <2> QED BY <2>1, <2>2, OneMoreSleep, LimitsAssumption DEF Inv, TypeOK, Counted
  <1> QED BY <1>1, InvHolds, PTL

(* An outage that lasts ends the process at its MaxRetries + 3rd failure   *)
(* at the latest, the start included.                                      *)
THEOREM AlwaysDiesInTime == Spec => []DiesInTime
  <1>1. Inv => DiesInTime
    BY NumbersAssumption DEF Inv, TypeOK, Counted, DiesInTime
  <1> QED BY <1>1, InvHolds, PTL
=============================================================================
