---------------------------- MODULE IngesterProofs ----------------------------
(***************************************************************************)
(* Proofs about Ingester, for any number of actions and of faults.         *)
(***************************************************************************)
EXTENDS Ingester, SequenceTheorems, TLAPS

(* The call of stream s has an action in hand.                             *)
Working(s) == handler[s] \notin {Idle, Ended}

LEMMA Handlers ==
    ASSUME NEW h \in {Idle, Ended} \cup Busy
    PROVE  /\ h.pc = "recv" <=> h = Idle
           /\ h.pc = "ended" <=> h = Ended
           /\ h.pc \in {"flatten", "put", "ack"} <=> h \notin {Idle, Ended}
           /\ h.pc \in {"flatten", "put", "ack"} <=> h \in Busy
           /\ h \in Busy => h.action \in Actions /\ h.doc \in Documents \cup {"none"}
  BY DEF Idle, Ended, Busy

-----------------------------------------------------------------------------
(* The inductive invariant.                                                *)

(* Streams that are to come have nothing in them.                          *)
Untouched ==
    \A s \in Streams : s > stream => inbox[s] = <<>> /\ acks[s] = 0 /\ handler[s] = Idle

(* There is a document once an action is flattened.                        *)
Documented ==
    \A s \in Streams : handler[s].pc \in {"put", "ack"} => handler[s].doc \in Documents

(* Only what has completed is anywhere.                                    *)
Known ==
    /\ \A i \in DOMAIN queue : queue[i] \in completed
    /\ \A s \in Streams : \A i \in DOMAIN inbox[s] : inbox[s][i] \in completed
    /\ \A s \in Streams : Working(s) => handler[s].action \in completed
    /\ \A w \in late : w[1] \in completed

(* Aligned, place by place: the action in hand follows the ones that are   *)
(* acknowledged, what is in the inbox follows it.                          *)
Reached(s) == acks[s] + (IF Working(s) THEN 1 ELSE 0)
InStep ==
    /\ ~up => sent = 0
    /\ up => /\ stream \in Streams /\ sent <= Len(queue) /\ acks[stream] <= sent
             /\ handler[stream] # Ended =>
                  /\ Working(stream) => handler[stream].action = queue[acks[stream] + 1]
                  /\ Len(inbox[stream]) = sent - Reached(stream)
                  /\ \A i \in DOMAIN inbox[stream] :
                        inbox[stream][i] = queue[Reached(stream) + i]

IInv == TypeOK /\ Untouched /\ Documented /\ Known /\ InStep /\ AcksAreEarned /\ NothingLost

-----------------------------------------------------------------------------
LEMMA InvInit == Init => IInv
  <1> SUFFICES ASSUME Init PROVE IInv
    OBVIOUS
  <1>1. Idle.pc = "recv" /\ "none" \notin Documents
    BY DEF Idle, Documents
  <1>2. TypeOK
    <2>1. /\ <<>> \in Seq(Actions) /\ 0 \in 0 .. MaxFaults + 1 /\ 0 \in 0 .. MaxFaults
          /\ Idle \in {Idle, Ended} \cup Busy
      BY FaultsAssumption
    <2>2. /\ inbox \in [Streams -> Seq(Actions)] /\ acks \in [Streams -> Nat]
          /\ handler \in [Streams -> {Idle, Ended} \cup Busy]
      BY <2>1 DEF Init
    <2> QED BY <2>1, <2>2 DEF Init, TypeOK
  <1>3. Untouched /\ Documented
    BY <1>1 DEF Init, Untouched, Documented
  <1>4. Known
    BY DEF Init, Known, Working
  <1>5. InStep /\ AcksAreEarned /\ NothingLost
    BY DEF Init, InStep, AcksAreEarned, NothingLost
  <1> QED BY <1>2, <1>3, <1>4, <1>5 DEF IInv

(* The parts of the types that the proofs look at.                         *)
LEMMA Types ==
    ASSUME IInv
    PROVE  /\ completed \subseteq Actions /\ queue \in Seq(Actions) /\ sent \in Nat
           /\ stream \in Nat /\ stream <= MaxFaults + 1 /\ MaxFaults \in Nat
           /\ up \in BOOLEAN /\ faults \in 0 .. MaxFaults
           /\ Streams \subseteq Nat /\ Streams = 1 .. MaxFaults + 1
           /\ \A s \in Streams : /\ inbox[s] \in Seq(Actions) /\ acks[s] \in Nat
                                 /\ handler[s] \in {Idle, Ended} \cup Busy
           /\ inbox \in [Streams -> Seq(Actions)] /\ acks \in [Streams -> Nat]
           /\ handler \in [Streams -> {Idle, Ended} \cup Busy]
  BY FaultsAssumption DEF IInv, TypeOK, Streams

LEMMA StreamIsOne == ASSUME IInv, up PROVE stream \in Streams
  BY DEF IInv, InStep

(* Where the current stream is, as numbers.                                *)
LEMMA Places ==
    ASSUME IInv, up, handler[stream] # Ended
    PROVE  /\ stream \in Streams /\ sent <= Len(queue) /\ acks[stream] <= sent
           /\ Len(inbox[stream]) = sent - Reached(stream)
           /\ Working(stream) => handler[stream].action = queue[acks[stream] + 1]
           /\ \A i \in DOMAIN inbox[stream] : inbox[stream][i] = queue[Reached(stream) + i]
           /\ Reached(stream) \in Nat /\ acks[stream] \in Nat
           /\ Len(inbox[stream]) \in Nat /\ DOMAIN inbox[stream] = 1 .. Len(inbox[stream])
           /\ Len(queue) \in Nat /\ DOMAIN queue = 1 .. Len(queue)
           /\ \A i \in DOMAIN inbox[stream] : Reached(stream) + i \in 1 .. Len(queue)
           /\ Working(stream) => acks[stream] + 1 \in 1 .. Len(queue)
  <1>1. /\ stream \in Streams /\ sent <= Len(queue) /\ acks[stream] <= sent
        /\ Len(inbox[stream]) = sent - Reached(stream)
        /\ Working(stream) => handler[stream].action = queue[acks[stream] + 1]
        /\ \A i \in DOMAIN inbox[stream] : inbox[stream][i] = queue[Reached(stream) + i]
    BY DEF IInv, InStep
  <1>2. /\ Reached(stream) \in Nat /\ acks[stream] \in Nat /\ sent \in Nat
        /\ Len(inbox[stream]) \in Nat /\ DOMAIN inbox[stream] = 1 .. Len(inbox[stream])
        /\ Len(queue) \in Nat /\ DOMAIN queue = 1 .. Len(queue)
    BY <1>1, Types DEF Reached
  <1>3. \A i \in DOMAIN inbox[stream] : Reached(stream) + i \in 1 .. Len(queue)
    BY <1>1, <1>2
  <1>4. Working(stream) => acks[stream] + 1 \in 1 .. Len(queue)
    BY <1>1, <1>2 DEF Reached
  <1> QED BY <1>1, <1>2, <1>3, <1>4

(* A step that neither moves the current stream nor takes up or puts down  *)
(* an action in it keeps InStep.                                           *)
LEMMA InStepFrame ==
    ASSUME InStep, UNCHANGED <<queue, sent, stream, up>>,
           up => /\ inbox'[stream] = inbox[stream] /\ acks'[stream] = acks[stream]
                 /\ handler'[stream] # Ended =>
                      /\ handler[stream] # Ended /\ (Working(stream)' <=> Working(stream))
                      /\ Working(stream) => handler'[stream].action = handler[stream].action
    PROVE  InStep'
  <1>1. CASE ~up
    BY <1>1 DEF InStep
  <1>2. CASE up /\ handler'[stream] = Ended
    BY <1>2 DEF InStep
  <1>3. CASE up /\ handler'[stream] # Ended
    <2>1. Reached(stream)' = Reached(stream)
      BY <1>3 DEF Reached
    <2> QED BY <1>3, <2>1 DEF InStep
  <1> QED BY <1>1, <1>2, <1>3

(* What is settled stays settled.                                          *)
LEMMA EarnedFrame ==
    ASSUME IInv, \A a \in Actions : Settled(a) => Settled(a)',
           UNCHANGED <<completed, queue, stream, up>>,
           up => acks'[stream] = acks[stream],
           \A s \in Streams : (handler[s].pc = "ack" /\ Working(s) => Settled(handler[s].action))'
    PROVE  AcksAreEarned' /\ NothingLost'
  <1>1. AcksAreEarned'
    <2>1. ASSUME up, NEW i \in 1 .. acks[stream] PROVE Settled(queue[i])'
      <3>1. Settled(queue[i])
        BY <2>1 DEF IInv, AcksAreEarned
      <3>2. queue[i] \in Actions
        <4>1. stream \in Streams /\ acks[stream] <= sent /\ sent <= Len(queue)
          BY <2>1 DEF IInv, InStep
        <4>2. acks[stream] \in Nat /\ sent \in Nat /\ queue \in Seq(Actions)
          BY <4>1, Types
        <4> QED BY <4>1, <4>2, <2>1
      <3> QED BY <3>1, <3>2
    <2>2. up' => \A i \in 1 .. acks'[stream'] : Settled(queue[i])'
      BY <2>1
    <2> QED BY <2>2 DEF AcksAreEarned, Working
  <1>2. NothingLost'
    BY Types DEF IInv, NothingLost
  <1> QED BY <1>1, <1>2

-----------------------------------------------------------------------------
(* The client and the network.                                             *)
LEMMA CompleteKeeps ==
    ASSUME IInv, NEW a \in Actions, Complete(a)
    PROVE  IInv'
  <1> USE Types DEF Complete, clientVars, esVars
  <1>1. /\ queue' \in Seq(Actions) /\ Len(queue') = Len(queue) + 1
        /\ \A i \in 1 .. Len(queue) : queue'[i] = queue[i]
        /\ queue'[Len(queue) + 1] = a
        /\ DOMAIN queue' = 1 .. Len(queue) + 1 /\ DOMAIN queue = 1 .. Len(queue)
    BY AppendProperties
  <1>2. TypeOK'
    BY <1>1 DEF IInv, TypeOK
  <1>3. Untouched' /\ Documented'
    BY DEF IInv, Untouched, Documented
  <1>4. Known'
    BY <1>1 DEF IInv, Known, Working
  <1>5. InStep'
    <2>1. \A s : Working(s)' <=> Working(s)
      BY DEF Working
    <2>2. Reached(stream)' = Reached(stream)
      BY <2>1 DEF Reached
    <2>3. CASE ~up
      BY <2>3 DEF IInv, InStep
    <2>4. CASE up /\ handler[stream] = Ended
      BY <1>1, <2>4 DEF IInv, InStep
    <2>5. CASE up /\ handler[stream] # Ended
      <3>1. /\ stream \in Streams /\ sent <= Len(queue) /\ acks[stream] <= sent
            /\ Len(inbox[stream]) = sent - Reached(stream)
            /\ Working(stream) => handler[stream].action = queue[acks[stream] + 1]
            /\ \A i \in DOMAIN inbox[stream] : inbox[stream][i] = queue[Reached(stream) + i]
        BY <2>5 DEF IInv, InStep
      <3>2. DOMAIN inbox[stream] = 1 .. Len(inbox[stream]) /\ Len(inbox[stream]) \in Nat /\ Reached(stream) \in Nat
        BY <3>1, SMTT(30) DEF Reached
      <3>3. \A i \in DOMAIN inbox[stream] : Reached(stream) + i \in 1 .. Len(queue)
        BY <3>1, <3>2, SMTT(30)
      <3>4. Working(stream) => acks[stream] + 1 \in 1 .. Len(queue)
        BY <3>1, <3>2 DEF Reached
      <3>5. Working(stream) => handler[stream].action = queue'[acks[stream] + 1]
        BY <1>1, <3>1, <3>4
      <3>6. \A i \in DOMAIN inbox[stream] : inbox[stream][i] = queue'[Reached(stream) + i]
        BY <1>1, <3>1, <3>3
      <3>7. sent <= Len(queue')
        BY <1>1, <3>1
      <3> QED BY <2>1, <2>2, <2>5, <3>1, <3>5, <3>6, <3>7 DEF InStep
    <2> QED BY <2>3, <2>4, <2>5
  <1>6. AcksAreEarned'
    BY <1>1 DEF IInv, AcksAreEarned, InStep, Settled
  <1>7. NothingLost'
    <2>1. ToSet(queue') = ToSet(queue) \cup {a}
      BY <1>1 DEF ToSet
    <2> QED BY <2>1 DEF IInv, NothingLost, Settled
  <1> QED BY <1>2, <1>3, <1>4, <1>5, <1>6, <1>7 DEF IInv
LEMMA ConnectKeeps ==
    ASSUME IInv, Connect
    PROVE  IInv'
  <1> USE Types DEF Connect, esVars
  <1>1. TypeOK'
    BY DEF IInv, TypeOK, Streams
  <1>2. Untouched' /\ Documented' /\ Known'
    <2>1. Untouched'
      <3>1. \A s \in Streams : s > stream + 1 => s > stream
        OBVIOUS
      <3> QED BY <3>1 DEF IInv, Untouched
    <2>2. Documented' /\ Known'
      BY DEF IInv, Documented, Known, Working
    <2> QED BY <2>1, <2>2
  <1>3. /\ stream' \in Streams /\ inbox'[stream'] = <<>> /\ acks'[stream'] = 0
        /\ handler'[stream'] = Idle /\ sent' = 0
    BY DEF IInv, Untouched, InStep
  <1>4. InStep'
    <2>1. Reached(stream)' = 0 /\ ~Working(stream)'
      BY <1>3 DEF Working, Reached
    <2>2. Len(<<>>) = 0 /\ DOMAIN inbox'[stream'] = {}
      BY <1>3
    <2>3. queue' = queue /\ Len(queue) \in Nat /\ up'
      OBVIOUS
    <2> QED BY <1>3, <2>1, <2>2, <2>3 DEF InStep
  <1>5. AcksAreEarned' /\ NothingLost'
    BY <1>3 DEF IInv, AcksAreEarned, NothingLost, Settled
  <1> QED BY <1>1, <1>2, <1>4, <1>5 DEF IInv

LEMMA SendNextKeeps ==
    ASSUME IInv, SendNext
    PROVE  IInv'
  <1> USE Types, StreamIsOne DEF SendNext, esVars
  <1> DEFINE q == inbox[stream]
             next == queue[sent + 1]
  <1>1. /\ stream \in Streams /\ next \in Actions /\ q \in Seq(Actions)
        /\ sent + 1 \in DOMAIN queue
    OBVIOUS
  <1>2. /\ inbox'[stream] = Append(q, next) /\ Append(q, next) \in Seq(Actions)
        /\ Len(inbox'[stream]) = Len(q) + 1 /\ DOMAIN inbox'[stream] = 1 .. Len(q) + 1
        /\ \A i \in 1 .. Len(q) : inbox'[stream][i] = q[i]
        /\ inbox'[stream][Len(q) + 1] = next
        /\ \A s \in Streams : s # stream => inbox'[s] = inbox[s]
    BY <1>1, AppendProperties
  <1>3. TypeOK'
    <2>1. inbox' \in [Streams -> Seq(Actions)]
      BY <1>1, <1>2
    <2>2. sent' \in Nat
      OBVIOUS
    <2> QED BY <2>1, <2>2 DEF IInv, TypeOK
  <1>4. Untouched' /\ Documented'
    BY <1>1, <1>2 DEF IInv, Untouched, Documented
  <1>5. Known'
    <2>1. next \in completed
      BY <1>1 DEF IInv, Known
    <2>2. ASSUME NEW s \in Streams, NEW i \in DOMAIN inbox'[s]
          PROVE  inbox'[s][i] \in completed
      <3>1. CASE s # stream
        BY <1>2, <2>2, <3>1 DEF IInv, Known
      <3>2. CASE s = stream
        <4>1. i = Len(q) + 1 \/ i \in 1 .. Len(q)
          BY <1>1, <1>2, <2>2, <3>2
        <4>2. \A k \in 1 .. Len(q) : q[k] \in completed
          <5>1. DOMAIN q = 1 .. Len(q)
            BY <1>1
          <5> QED BY <1>1, <5>1 DEF IInv, Known
        <4> QED BY <1>2, <2>1, <3>2, <4>1, <4>2
      <3> QED BY <3>1, <3>2
    <2> QED BY <2>2 DEF IInv, Known, Working
  <1>6. InStep'
    <2>1. CASE handler[stream] = Ended
      BY <1>1, <2>1 DEF IInv, InStep
    <2>2. CASE handler[stream] # Ended
      <3>1. Reached(stream)' = Reached(stream) /\ (Working(stream)' <=> Working(stream))
        BY DEF Reached, Working
      <3>2. /\ Reached(stream) \in Nat /\ Len(q) \in Nat /\ Len(q) = sent - Reached(stream)
            /\ \A i \in DOMAIN q : q[i] = queue[Reached(stream) + i]
        BY <2>2, Places
      <3>3. /\ sent = Reached(stream) + Len(q) /\ Len(q) + 1 = (sent + 1) - Reached(stream)
            /\ Reached(stream) + (Len(q) + 1) = sent + 1
        <4>1. PICK r, n, k : r = Reached(stream) /\ n = Len(q) /\ k = sent
          OBVIOUS
        <4>2. r \in Nat /\ n \in Nat /\ k \in Nat /\ n = k - r
          BY <3>2, <4>1
        <4>3. k = r + n /\ n + 1 = (k + 1) - r /\ r + (n + 1) = k + 1
          BY ONLY <4>2
        <4> QED BY <4>1, <4>3
      <3>4. \A i \in DOMAIN inbox'[stream] : inbox'[stream][i] = queue[Reached(stream) + i]
        <4> TAKE i \in DOMAIN inbox'[stream]
        <4>1. CASE i = Len(q) + 1
          BY <1>2, <3>3, <4>1
        <4>2. CASE i # Len(q) + 1
          <5>1. i \in 1 .. Len(q) /\ DOMAIN q = 1 .. Len(q)
            BY <1>1, <1>2, <4>2
          <5> QED BY <1>2, <3>2, <5>1
        <4> QED BY <4>1, <4>2
      <3>5. acks[stream] <= sent' /\ (Working(stream) => handler[stream].action = queue[acks[stream] + 1])
        BY <2>2, Places
      <3>6. Len(inbox'[stream]) = sent' - Reached(stream) /\ sent' <= Len(queue)
        BY <1>1, <1>2, <3>3
      <3> QED BY <1>1, <3>1, <3>4, <3>5, <3>6 DEF InStep
    <2> QED BY <2>1, <2>2
  <1>7. AcksAreEarned' /\ NothingLost'
    BY DEF IInv, AcksAreEarned, NothingLost, Settled
  <1> QED BY <1>3, <1>4, <1>5, <1>6, <1>7 DEF IInv

LEMMA OneBack ==
    ASSUME NEW r \in Nat, NEW i \in Nat, NEW n \in Nat, r >= 1, i >= 1, r + i \in 1 .. n
    PROVE  r - 1 + i \in 1 .. n - 1 /\ (r - 1 + i) + 1 = r + i
  OBVIOUS

LEMMA ReceiveAckKeeps ==
    ASSUME IInv, ReceiveAck
    PROVE  IInv' /\ Settled(Head(queue)) /\ queue # <<>>
  <1> USE Types, StreamIsOne DEF ReceiveAck, esVars
  <1>1. /\ stream \in Streams /\ sent <= Len(queue) /\ acks[stream] <= sent
        /\ acks[stream] \in Nat \ {0} /\ queue # <<>>
    BY DEF IInv, InStep
  <1>2. /\ queue' \in Seq(Actions) /\ Len(queue') = Len(queue) - 1
        /\ \A i \in 1 .. Len(queue) - 1 : queue'[i] = queue[i + 1]
        /\ DOMAIN queue' = 1 .. Len(queue) - 1 /\ DOMAIN queue = 1 .. Len(queue)
        /\ Len(queue) \in Nat /\ Len(queue) >= 1 /\ Head(queue) = queue[1]
    BY <1>1, HeadTailProperties
  <1>3. /\ acks'[stream] = acks[stream] - 1
        /\ \A s \in Streams : s # stream => acks'[s] = acks[s]
    BY <1>1
  <1>4. TypeOK'
    <2>1. acks' \in [Streams -> Nat] /\ sent' \in Nat
      BY <1>1
    <2> QED BY <1>2, <2>1 DEF IInv, TypeOK
  <1>5. Untouched' /\ Documented'
    BY <1>1, <1>3 DEF IInv, Untouched, Documented
  <1>6. Known'
    <2>1. \A i \in DOMAIN queue' : queue'[i] \in completed
      <3> TAKE i \in DOMAIN queue'
      <3>1. i + 1 \in DOMAIN queue /\ queue'[i] = queue[i + 1]
        BY <1>2
      <3> QED BY <3>1 DEF IInv, Known
    <2> QED BY <2>1 DEF IInv, Known, Working
  <1>7. InStep'
    <2>1. CASE handler[stream] = Ended
      BY <1>1, <1>2, <1>3, <2>1 DEF InStep
    <2>2. CASE handler[stream] # Ended
      <3>1. Reached(stream)' = Reached(stream) - 1 /\ (Working(stream)' <=> Working(stream))
        BY <1>1, <1>3 DEF Reached, Working
      <3>2. Reached(stream) >= 1 /\ Reached(stream) \in Nat
        BY <1>1 DEF Reached
      <3>3. \A i \in DOMAIN inbox[stream] : inbox[stream][i] = queue'[Reached(stream) - 1 + i]
        <4> TAKE i \in DOMAIN inbox[stream]
        <4>1. /\ i \in Nat /\ i >= 1 /\ Reached(stream) + i \in 1 .. Len(queue)
              /\ inbox[stream][i] = queue[Reached(stream) + i]
          BY <2>2, Places
        <4>2. /\ Reached(stream) - 1 + i \in 1 .. Len(queue) - 1
              /\ (Reached(stream) - 1 + i) + 1 = Reached(stream) + i
          BY <1>2, <3>2, <4>1, OneBack
        <4> QED BY <1>2, <4>1, <4>2
      <3>4. Working(stream) => handler[stream].action = queue'[acks'[stream] + 1]
        <4> SUFFICES ASSUME Working(stream) PROVE handler[stream].action = queue'[acks'[stream] + 1]
          OBVIOUS
        <4>1. /\ acks[stream] + 1 \in 1 .. Len(queue)
              /\ handler[stream].action = queue[acks[stream] + 1]
          BY <2>2, Places
        <4>2. acks'[stream] + 1 = acks[stream] /\ acks[stream] \in 1 .. Len(queue) - 1
          BY <1>1, <1>2, <1>3, <4>1
        <4> QED BY <1>2, <4>1, <4>2
      <3>5. /\ Len(inbox[stream]) = sent' - (Reached(stream) - 1)
            /\ sent' <= Len(queue') /\ acks'[stream] <= sent'
        <4>1. Len(inbox[stream]) = sent - Reached(stream) /\ sent' = sent - 1
          BY <2>2, Places
        <4> QED BY <1>1, <1>2, <1>3, <3>2, <4>1
      <3> QED BY <1>1, <3>1, <3>3, <3>4, <3>5 DEF InStep
    <2> QED BY <2>1, <2>2
  <1>8. Settled(queue[1])
    BY <1>1 DEF IInv, AcksAreEarned
  <1>9. AcksAreEarned'
    <2>1. \A i \in 1 .. acks'[stream] : Settled(queue'[i])
      <3> TAKE i \in 1 .. acks'[stream]
      <3>1. i + 1 \in 1 .. acks[stream] /\ i \in 1 .. Len(queue) - 1
        BY <1>1, <1>2, <1>3
      <3>2. Settled(queue[i + 1])
        BY <3>1 DEF IInv, AcksAreEarned
      <3> QED BY <1>2, <3>1, <3>2
    <2> QED BY <2>1 DEF IInv, AcksAreEarned, Settled
  <1>10. NothingLost'
    <2>1. ToSet(queue) = ToSet(queue') \cup {queue[1]}
      <3>1. \A x \in ToSet(queue) : x \in ToSet(queue') \cup {queue[1]}
        <4>1. SUFFICES ASSUME NEW i \in DOMAIN queue, i # 1 PROVE queue[i] \in ToSet(queue')
          BY DEF ToSet
        <4>2. i - 1 \in DOMAIN queue' /\ queue'[i - 1] = queue[i]
          BY <1>2, <4>1
        <4> QED BY <4>2 DEF ToSet
      <3>2. \A x \in ToSet(queue') : x \in ToSet(queue)
        BY <1>2 DEF ToSet
      <3>3. queue[1] \in ToSet(queue)
        <4>1. 1 \in DOMAIN queue
          BY <1>2
        <4> QED BY <4>1 DEF ToSet
      <3> QED BY <3>1, <3>2, <3>3
    <2> QED BY <1>8, <2>1 DEF IInv, NothingLost, Settled
  <1> QED BY <1>1, <1>2, <1>4, <1>5, <1>6, <1>7, <1>8, <1>9, <1>10 DEF IInv

(* Either way in which a stream is lost.                                   *)
LEMMA ClosesKeeps ==
    ASSUME IInv, up, Closes, faults' \in 0 .. MaxFaults,
           UNCHANGED <<completed, queue, stream, inbox, handler, esVars>>
    PROVE  IInv'
  <1> USE Types, StreamIsOne DEF Closes, esVars
  <1>1. TypeOK'
    BY DEF IInv, TypeOK
  <1>2. Untouched' /\ Documented' /\ Known'
    BY DEF IInv, Untouched, Documented, Known, Working
  <1>3. InStep'
    BY DEF InStep
  <1>4. AcksAreEarned' /\ NothingLost'
    BY DEF IInv, AcksAreEarned, NothingLost, Settled
  <1> QED BY <1>1, <1>2, <1>3, <1>4 DEF IInv

LEMMA LandKeeps ==
    ASSUME IInv, Land
    PROVE  IInv'
  <1> USE Types DEF Land, clientVars
  <1>1. PICK w \in late : late' = late \ {w} /\ index' = [index EXCEPT ![w[1]] = w[2]]
    OBVIOUS
  <1>2. w[1] \in Actions /\ w[2] \in Documents /\ index \in [Actions -> Documents \cup {"none"}]
    BY DEF IInv, TypeOK
  <1>3. TypeOK'
    BY <1>1, <1>2 DEF IInv, TypeOK
  <1>4. Untouched' /\ Documented' /\ Known'
    BY <1>1 DEF IInv, Untouched, Documented, Known, Working
  <1>5. InStep'
    BY InStepFrame DEF IInv, Working
  <1>6. \A a \in Actions : Settled(a) => Settled(a)'
    BY <1>1, <1>2 DEF Settled, Documents
  <1>7. \A s \in Streams : (handler[s].pc = "ack" /\ Working(s) => Settled(handler[s].action))'
    <2>1. SUFFICES ASSUME NEW s \in Streams, handler[s].pc = "ack"
                   PROVE  Settled(handler[s].action)'
      OBVIOUS
    <2>2. handler[s] \in Busy /\ handler[s].action \in Actions
      BY <2>1, Handlers
    <2>3. Settled(handler[s].action)
      BY <2>1, <2>2, Handlers DEF IInv, AcksAreEarned
    <2> QED BY <1>6, <2>2, <2>3
  <1>8. AcksAreEarned' /\ NothingLost'
    BY <1>6, <1>7, EarnedFrame
  <1> QED BY <1>3, <1>4, <1>5, <1>8 DEF IInv

-----------------------------------------------------------------------------
(* LogCompletedActions.                                                    *)

LEMMA ReachedStream ==
    ASSUME IInv, NEW s \in Streams,
           handler[s] # Idle \/ inbox[s] # <<>> \/ Broken(s)
    PROVE  s <= stream
  BY Types DEF IInv, Untouched, Broken

(* A handler that gets as far as h leaves the streams to come alone.       *)
LEMMA HandlerFrame ==
    ASSUME IInv, NEW s \in Streams, s <= stream, NEW h \in {Idle, Ended} \cup Busy,
           handler' = [handler EXCEPT ![s] = h]
    PROVE  /\ handler' \in [Streams -> {Idle, Ended} \cup Busy]
           /\ handler'[s] = h
           /\ \A t \in Streams : t # s => handler'[t] = handler[t]
  BY Types

LEMMA RecvKeeps ==
    ASSUME IInv, NEW s \in Streams, Recv(s)
    PROVE  IInv'
  <1> DEFINE h == [pc |-> "flatten", action |-> Head(inbox[s]), doc |-> "none"]
  <1>1. /\ handler[s] = Idle /\ inbox[s] # <<>> /\ inbox' = [inbox EXCEPT ![s] = Tail(@)]
        /\ handler' = [handler EXCEPT ![s] = h]
        /\ UNCHANGED <<clientVars, acks, esVars, faults>>
    BY DEF Recv
  <1>2. /\ Head(inbox[s]) = inbox[s][1] /\ inbox[s][1] \in Actions
        /\ Tail(inbox[s]) \in Seq(Actions) /\ Len(Tail(inbox[s])) = Len(inbox[s]) - 1
        /\ \A i \in 1 .. Len(inbox[s]) - 1 : Tail(inbox[s])[i] = inbox[s][i + 1]
        /\ DOMAIN Tail(inbox[s]) = 1 .. Len(inbox[s]) - 1
        /\ DOMAIN inbox[s] = 1 .. Len(inbox[s]) /\ Len(inbox[s]) \in Nat /\ Len(inbox[s]) >= 1
    BY <1>1, Types, HeadTailProperties
  <1>3. /\ inbox' \in [Streams -> Seq(Actions)] /\ inbox'[s] = Tail(inbox[s])
        /\ \A t \in Streams : t # s => inbox'[t] = inbox[t]
    BY <1>1, <1>2, Types
  <1>4. h \in Busy /\ h \notin {Idle, Ended} /\ h.pc = "flatten" /\ h.action = inbox[s][1]
    BY <1>2 DEF Busy, Idle, Ended
  <1>5. /\ handler' \in [Streams -> {Idle, Ended} \cup Busy] /\ handler'[s] = h
        /\ \A t \in Streams : t # s => handler'[t] = handler[t]
    BY <1>1, <1>4, Types
  <1> HIDE DEF h
  <1>6. s <= stream
    BY <1>1, ReachedStream
  <1>7. TypeOK'
    BY <1>1, <1>3, <1>5 DEF IInv, TypeOK, clientVars, esVars
  <1>8. Untouched'
    BY <1>1, <1>3, <1>5, <1>6, Types DEF IInv, Untouched, clientVars
  <1>9. Documented'
    BY <1>4, <1>5 DEF IInv, Documented
  <1>10. Known'
    <2>1. \A i \in DOMAIN inbox'[s] : inbox'[s][i] \in completed
      BY <1>2, <1>3 DEF IInv, Known
    <2>2. h.action \in completed
      BY <1>2, <1>4 DEF IInv, Known
    <2> QED BY <1>1, <1>3, <1>4, <1>5, <2>1, <2>2 DEF IInv, Known, Working, clientVars, esVars
  <1>11. InStep'
    <2>1. CASE ~(up /\ stream = s)
      BY <1>1, <1>3, <1>5, <2>1, InStepFrame, StreamIsOne DEF IInv, Working, clientVars
    <2>2. CASE up /\ stream = s
      <3>1. handler[stream] # Ended /\ ~Working(stream) /\ Working(stream)'
        <4>1. Idle # Ended
          BY DEF Idle, Ended
        <4>2. handler[stream] = Idle /\ handler'[stream] = h
          BY <1>1, <1>5, <2>2
        <4>3. stream' = stream
          BY <1>1 DEF clientVars
        <4>4. ~Working(stream) /\ handler'[stream'] \notin {Idle, Ended}
          BY <1>4, <4>2, <4>3 DEF Working
        <4> QED BY <4>1, <4>2, <4>4 DEF Working
      <3>2. Reached(stream) = acks[stream] /\ Reached(stream)' = acks[stream] + 1
        BY <1>1, <3>1, <2>2, Types DEF Reached, clientVars
      <3>3. handler'[stream].action = queue[acks[stream] + 1]
        BY <1>2, <1>4, <1>5, <2>2, <3>1, <3>2, Places
      <3>4. Len(inbox'[stream]) = sent - (acks[stream] + 1)
        BY <1>2, <1>3, <2>2, <3>1, <3>2, Places, Types
      <3>5. \A i \in DOMAIN inbox'[stream] : inbox'[stream][i] = queue[acks[stream] + 1 + i]
        <4> TAKE i \in DOMAIN inbox'[stream]
        <4>1. i \in 1 .. Len(inbox[s]) - 1 /\ inbox'[stream][i] = inbox[s][i + 1]
          BY <1>2, <1>3, <2>2
        <4>2. i + 1 \in DOMAIN inbox[s]
          BY <1>2, <4>1
        <4>3. inbox[s][i + 1] = queue[acks[stream] + (i + 1)]
          BY <2>2, <3>1, <3>2, <4>2, Places
        <4>4. acks[stream] + (i + 1) = acks[stream] + 1 + i
          BY <2>2, <4>1, Types
        <4> QED BY <4>1, <4>3, <4>4
      <3>6. stream \in Streams /\ sent <= Len(queue) /\ acks[stream] <= sent
        BY <2>2 DEF IInv, InStep
      <3> QED BY <1>1, <2>2, <3>1, <3>2, <3>3, <3>4, <3>5, <3>6 DEF InStep, clientVars
    <2> QED BY <2>1, <2>2
  <1>12. AcksAreEarned' /\ NothingLost'
    BY <1>1, <1>4, <1>5 DEF IInv, AcksAreEarned, NothingLost, Settled, clientVars, esVars
  <1> QED BY <1>7, <1>8, <1>9, <1>10, <1>11, <1>12 DEF IInv

(* The call returns: nothing is asked of its stream any more.              *)
LEMMA EndKeeps ==
    ASSUME IInv, NEW s \in Streams, s <= stream,
           handler' = [handler EXCEPT ![s] = Ended], late' \subseteq Actions \X Documents,
           \A w \in late' : w[1] \in completed, faults' \in 0 .. MaxFaults,
           UNCHANGED <<clientVars, inbox, acks, index, refused>>
    PROVE  IInv'
  <1>1. /\ handler' \in [Streams -> {Idle, Ended} \cup Busy] /\ handler'[s] = Ended
        /\ \A t \in Streams : t # s => handler'[t] = handler[t]
    BY HandlerFrame
  <1>2. TypeOK'
    BY <1>1 DEF IInv, TypeOK, clientVars
  <1>3. Untouched'
    BY <1>1, Types DEF IInv, Untouched, clientVars
  <1>4. Documented'
    BY <1>1 DEF IInv, Documented, Ended
  <1>5. Known'
    BY <1>1 DEF IInv, Known, Working, clientVars
  <1>6. InStep'
    BY <1>1, InStepFrame, StreamIsOne DEF IInv, Working, clientVars
  <1>7. AcksAreEarned' /\ NothingLost'
    BY <1>1 DEF IInv, AcksAreEarned, NothingLost, Settled, clientVars, Ended
  <1> QED BY <1>2, <1>3, <1>4, <1>5, <1>6, <1>7 DEF IInv

LEMMA RecvFailsKeeps ==
    ASSUME IInv, NEW s \in Streams, RecvFails(s)
    PROVE  IInv'
  <1>1. s <= stream
    BY ReachedStream DEF RecvFails
  <1>2. late' = late /\ faults' = faults /\ UNCHANGED <<clientVars, inbox, acks, index, refused>>
    BY DEF RecvFails, esVars
  <1> QED BY <1>1, <1>2, EndKeeps DEF RecvFails, IInv, TypeOK, Known

LEMMA PutFailsKeeps ==
    ASSUME IInv, NEW s \in Streams, PutFails(s)
    PROVE  IInv'
  <1>1. handler[s].pc = "put" /\ handler[s] # Idle
    BY DEF PutFails, Idle
  <1>2. s <= stream
    BY <1>1, ReachedStream
  <1>3. /\ handler[s].action \in Actions /\ handler[s].doc \in Documents
        /\ handler[s].action \in completed
    BY <1>1, Types, Handlers DEF IInv, Documented, Known, Working
  <1>4. late' \subseteq Actions \X Documents /\ \A w \in late' : w[1] \in completed
    BY <1>3 DEF PutFails, IInv, TypeOK, Known
  <1>5. faults' \in 0 .. MaxFaults
    BY Types DEF PutFails
  <1> QED BY <1>2, <1>4, <1>5, EndKeeps DEF PutFails, AfterFailedPut

(* The action in hand stays the same, and what is settled stays settled.   *)
LEMMA HoldKeeps ==
    ASSUME IInv, NEW s \in Streams, handler[s].pc \in {"flatten", "put"},
           NEW h \in Busy, h.action = handler[s].action,
           handler' = [handler EXCEPT ![s] = h],
           h.pc \in {"put", "ack"} => h.doc \in Documents,
           h.pc = "ack" => Settled(h.action)',
           index' \in [Actions -> Documents \cup {"none"}], refused' \subseteq Actions,
           \A a \in Actions : Settled(a) => Settled(a)',
           UNCHANGED <<clientVars, inbox, acks, late, faults>>
    PROVE  IInv'
  <1>1. handler[s] # Idle /\ handler[s] # Ended /\ handler[s] \in Busy /\ h \notin {Idle, Ended}
    BY Types, Handlers
  <1>2. s <= stream
    BY <1>1, ReachedStream
  <1>3. /\ handler' \in [Streams -> {Idle, Ended} \cup Busy] /\ handler'[s] = h
        /\ \A t \in Streams : t # s => handler'[t] = handler[t]
    BY <1>2, HandlerFrame
  <1>4. TypeOK'
    BY <1>3 DEF IInv, TypeOK, clientVars
  <1>5. Untouched'
    BY <1>2, <1>3, Types DEF IInv, Untouched, clientVars
  <1>6. Documented'
    BY <1>3 DEF IInv, Documented
  <1>7. Known'
    BY <1>1, <1>3 DEF IInv, Known, Working, clientVars
  <1>8. InStep'
    BY <1>1, <1>3, InStepFrame, StreamIsOne DEF IInv, Working, clientVars
  <1>9. \A t \in Streams : (handler[t].pc = "ack" /\ Working(t) => Settled(handler[t].action))'
    <2>1. SUFFICES ASSUME NEW t \in Streams, handler'[t].pc = "ack", t # s
                   PROVE  Settled(handler[t].action)'
      BY <1>3
    <2>2. handler'[t] = handler[t] /\ handler[t] \in Busy /\ handler[t].action \in Actions
      BY <1>3, <2>1, Types, Handlers
    <2>3. Settled(handler[t].action)
      BY <2>1, <2>2, Handlers DEF IInv, AcksAreEarned
    <2> QED BY <2>2, <2>3
  <1>10. AcksAreEarned' /\ NothingLost'
    BY <1>9, EarnedFrame DEF clientVars
  <1> QED BY <1>4, <1>5, <1>6, <1>7, <1>8, <1>10 DEF IInv

LEMMA FlattenKeeps ==
    ASSUME IInv, NEW s \in Streams, Flatten(s)
    PROVE  IInv'
  <1>1. PICK d \in Documents :
                handler' = [handler EXCEPT ![s] = [pc |-> "put", action |-> handler[s].action, doc |-> d]]
    BY DEF Flatten, Flattened
  <1> DEFINE h == [pc |-> "put", action |-> handler[s].action, doc |-> d]
  <1>2. handler[s] \in Busy /\ handler[s].pc = "flatten"
    BY Types, Handlers DEF Flatten
  <1>3. h \in Busy /\ h.action = handler[s].action /\ h.pc = "put" /\ h.doc = d
    BY <1>2 DEF Busy
  <1>4. handler' = [handler EXCEPT ![s] = h]
    BY <1>1
  <1>5. UNCHANGED <<clientVars, inbox, acks, late, faults, index, refused>>
    BY DEF Flatten, esVars
  <1>6. \A a \in Actions : Settled(a) => Settled(a)'
    BY <1>5 DEF Settled
  <1>7. index' \in [Actions -> Documents \cup {"none"}] /\ refused' \subseteq Actions
    BY <1>5 DEF IInv, TypeOK
  <1> QED BY <1>2, <1>3, <1>4, <1>5, <1>6, <1>7, HoldKeeps

(* Indexed or refused for good: the action is settled now.                 *)
LEMMA PutKeeps ==
    ASSUME IInv, NEW s \in Streams, Put(s)
    PROVE  /\ IInv'
           /\ handler[s].action \in completed
           /\ \A a \in Actions : Settled(a)' <=> Settled(a) \/ a = handler[s].action
  <1> DEFINE h == [handler[s] EXCEPT !.pc = "ack"]
             b == handler[s].action
  <1>1. handler[s].pc = "put" /\ UNCHANGED <<clientVars, inbox, acks, late, faults>>
    BY DEF Put, PutApplied, PutRefused
  <1>2. /\ handler[s] \in Busy /\ b \in Actions /\ handler[s].doc \in Documents
        /\ b \in completed
    BY <1>1, Types, Handlers DEF IInv, Documented, Known, Working
  <1>3. h \in Busy /\ h.action = b /\ h.pc = "ack" /\ h.doc \in Documents
    BY <1>2 DEF Busy
  <1>4. handler' = [handler EXCEPT ![s] = h]
    <2>1. CASE PutApplied(s)
      BY <1>2, <2>1, Types DEF PutApplied
    <2>2. CASE PutRefused(s)
      BY <2>2 DEF PutRefused, AfterRefusal
    <2> QED BY <2>1, <2>2 DEF Put
  <1>5. index \in [Actions -> Documents \cup {"none"}] /\ refused \subseteq Actions
    BY DEF IInv, TypeOK
  <1>6. /\ index' \in [Actions -> Documents \cup {"none"}] /\ refused' \subseteq Actions
        /\ \A a \in Actions : Settled(a)' <=> Settled(a) \/ a = b
    <2>1. CASE PutApplied(s)
      BY <1>2, <1>5, <2>1 DEF PutApplied, Settled, Documents
    <2>2. CASE PutRefused(s)
      BY <1>2, <1>5, <2>2 DEF PutRefused, Settled
    <2> QED BY <2>1, <2>2 DEF Put
  <1> HIDE DEF h
  <1>7. IInv'
    BY <1>1, <1>2, <1>3, <1>4, <1>6, HoldKeeps
  <1> QED BY <1>2, <1>6, <1>7

LEMMA AckKeeps ==
    ASSUME IInv, NEW s \in Streams, Ack(s)
    PROVE  IInv'
  <1>1. /\ handler[s].pc = "ack" /\ acks' = [acks EXCEPT ![s] = AcksAfter(s)]
        /\ handler' = [handler EXCEPT ![s] = Idle]
        /\ UNCHANGED <<clientVars, inbox, esVars, faults>>
    BY DEF Ack
  <1>2. handler[s] \in Busy /\ handler[s] # Idle /\ handler[s] # Ended /\ Idle # Ended
    BY <1>1, Types, Handlers DEF Idle, Ended
  <1>3. s <= stream
    BY <1>2, ReachedStream
  <1>4. /\ handler' \in [Streams -> {Idle, Ended} \cup Busy] /\ handler'[s] = Idle
        /\ \A t \in Streams : t # s => handler'[t] = handler[t]
    BY <1>1, <1>3, HandlerFrame
  <1>5. /\ acks' \in [Streams -> Nat] /\ acks'[s] = AcksAfter(s)
        /\ \A t \in Streams : t # s => acks'[t] = acks[t]
    BY <1>1, Types DEF AcksAfter
  <1>6. TypeOK'
    BY <1>1, <1>4, <1>5 DEF IInv, TypeOK, clientVars, esVars
  <1>7. Untouched'
    BY <1>1, <1>3, <1>4, <1>5, Types DEF IInv, Untouched, clientVars
  <1>8. Documented'
    BY <1>1, <1>4 DEF IInv, Documented, Idle
  <1>9. Known'
    BY <1>1, <1>4 DEF IInv, Known, Working, clientVars, esVars
  <1>10. CASE up /\ stream = s
    <2>1. /\ handler[stream] # Ended /\ Working(stream) /\ ~Working(stream)'
          /\ acks'[stream] = acks[stream] + 1
      <3>1. stream' = stream /\ up' = up
        BY <1>1 DEF clientVars
      <3>2. handler[stream] # Ended /\ Working(stream)
        BY <1>2, <1>10 DEF Working
      <3>3. ~Working(stream)'
        BY <1>4, <1>10, <3>1 DEF Working
      <3>4. ~Broken(s)
        BY <1>10, Types DEF Broken
      <3> QED BY <1>5, <1>10, <3>2, <3>3, <3>4 DEF AcksAfter
    <2>2. Reached(stream) = acks[stream] + 1 /\ Reached(stream)' = acks[stream] + 1
      <3>1. stream' = stream /\ acks[stream] \in Nat
        BY <1>1, <1>10, Types DEF clientVars
      <3>2. Reached(stream) = acks[stream] + 1
        BY <2>1 DEF Reached
      <3>3. Reached(stream)' = acks'[stream'] + 0
        BY <2>1 DEF Reached
      <3> QED BY <2>1, <3>1, <3>2, <3>3
    <2>3. /\ stream \in Streams /\ sent <= Len(queue) /\ Len(inbox[stream]) = sent - (acks[stream] + 1)
          /\ handler[stream].action = queue[acks[stream] + 1]
          /\ \A i \in DOMAIN inbox[stream] : inbox[stream][i] = queue[acks[stream] + 1 + i]
          /\ Len(inbox[stream]) \in Nat /\ acks[stream] \in Nat /\ sent \in Nat
      BY <1>10, <2>1, <2>2, Places, Types
    <2>4. acks'[stream] <= sent
      BY <2>1, <2>3
    <2>5. InStep'
      BY <1>1, <1>10, <2>1, <2>2, <2>3, <2>4 DEF InStep, clientVars
    <2>6. Settled(queue[acks[stream] + 1])
      BY <1>1, <1>2, <1>10, <2>3 DEF IInv, AcksAreEarned
    <2>7. \A i \in 1 .. acks'[stream] : Settled(queue[i])
      <3>1. \A i \in 1 .. acks[stream] : Settled(queue[i])
        BY <1>10 DEF IInv, AcksAreEarned
      <3>2. \A i \in 1 .. acks'[stream] : i \in 1 .. acks[stream] \/ i = acks[stream] + 1
        BY <2>1, <2>3
      <3> QED BY <2>6, <3>1, <3>2
    <2>8. AcksAreEarned' /\ NothingLost'
      BY <1>1, <1>4, <2>7 DEF IInv, AcksAreEarned, NothingLost, Settled, clientVars, esVars
    <2> QED BY <1>6, <1>7, <1>8, <1>9, <2>5, <2>8 DEF IInv
  <1>11. CASE ~(up /\ stream = s)
    <2>1. InStep'
      BY <1>1, <1>4, <1>5, <1>11, InStepFrame, StreamIsOne DEF IInv, Working, clientVars
    <2>2. AcksAreEarned' /\ NothingLost'
      BY <1>1, <1>4, <1>5, <1>11, StreamIsOne
      DEF IInv, AcksAreEarned, NothingLost, Settled, clientVars, esVars
    <2> QED BY <1>6, <1>7, <1>8, <1>9, <2>1, <2>2 DEF IInv
  <1> QED BY <1>10, <1>11

-----------------------------------------------------------------------------
LEMMA InvStep == IInv /\ [Next]_vars => IInv'
  <1> SUFFICES ASSUME IInv, [Next]_vars PROVE IInv'
    OBVIOUS
  <1>1. ASSUME NEW a \in Actions, Complete(a) PROVE IInv'
    BY <1>1, CompleteKeeps
  <1>2. CASE Connect
    BY <1>2, ConnectKeeps
  <1>3. CASE SendNext
    BY <1>3, SendNextKeeps
  <1>4. CASE ReceiveAck
    BY <1>4, ReceiveAckKeeps
  <1>5. CASE HangUp
    <2>1. faults' \in 0 .. MaxFaults
      BY <1>5, Types DEF HangUp
    <2> QED BY <1>5, <2>1, ClosesKeeps DEF HangUp, esVars
  <1>6. CASE Break
    <2>1. faults' \in 0 .. MaxFaults
      BY <1>6, Types DEF Break
    <2> QED BY <1>6, <2>1, ClosesKeeps DEF Break, esVars
  <1>7. CASE Land
    BY <1>7, LandKeeps
  <1>8. ASSUME NEW s \in Streams, Handler(s) PROVE IInv'
    BY <1>8, RecvKeeps, RecvFailsKeeps, FlattenKeeps, PutKeeps, PutFailsKeeps, AckKeeps DEF Handler
  <1>9. CASE UNCHANGED vars
    BY <1>9 DEF vars, clientVars, esVars, IInv, TypeOK, Untouched, Documented, Known, InStep,
       AcksAreEarned, NothingLost, Working, Reached, Settled
  <1> QED BY <1>1, <1>2, <1>3, <1>4, <1>5, <1>6, <1>7, <1>8, <1>9 DEF Next, Client

LEMMA InvHolds == Spec => []IInv
  BY InvInit, InvStep, PTL DEF Spec

-----------------------------------------------------------------------------
(* Every variable keeps its type.                                          *)
THEOREM TypeCorrect == Spec => []TypeOK
  <1>1. IInv => TypeOK
    BY DEF IInv
  <1> QED BY <1>1, InvHolds, PTL

(* The n-th acknowledgement belongs to the n-th action of the queue.       *)
THEOREM AcknowledgementsAreAligned == Spec => []Aligned
  <1>1. IInv => Aligned
    <2> SUFFICES ASSUME IInv, up PROVE
               /\ sent <= Len(queue) /\ acks[stream] <= sent
               /\ handler[stream] # Ended =>
                    SubSeq(queue, acks[stream] + 1, sent) = Held(stream) \o inbox[stream]
      BY DEF Aligned
    <2>1. sent <= Len(queue) /\ acks[stream] <= sent
      BY DEF IInv, InStep
    <2> SUFFICES ASSUME handler[stream] # Ended
                 PROVE  SubSeq(queue, acks[stream] + 1, sent) = Held(stream) \o inbox[stream]
      BY <2>1
    <2> DEFINE left  == SubSeq(queue, acks[stream] + 1, sent)
               right == Held(stream) \o inbox[stream]
               k     == IF Working(stream) THEN 1 ELSE 0
    <2>2. stream \in Streams /\ queue \in Seq(Actions) /\ inbox[stream] \in Seq(Actions)
      BY StreamIsOne, Types
    <2>3. /\ Held(stream) \in Seq(Actions) /\ Len(Held(stream)) = k
          /\ Working(stream) => Held(stream)[1] = handler[stream].action
      <3>1. CASE Working(stream)
        <4>1. handler[stream].action \in Actions
          BY <2>2, <3>1, Types, Handlers DEF Working
        <4> QED BY <3>1, <4>1 DEF Held, Working
      <3>2. CASE ~Working(stream)
        BY <3>2 DEF Held, Working
      <3> QED BY <3>1, <3>2
    <2>4. /\ right \in Seq(Actions) /\ Len(right) = k + Len(inbox[stream])
          /\ \A i \in 1 .. k : right[i] = Held(stream)[i]
          /\ \A i \in k + 1 .. k + Len(inbox[stream]) : right[i] = inbox[stream][i - k]
      <3>1. k \in {0, 1}
        OBVIOUS
      <3> HIDE DEF k
      <3>2. /\ right \in Seq(Actions) /\ Len(right) = Len(Held(stream)) + Len(inbox[stream])
            /\ \A i \in 1 .. Len(Held(stream)) + Len(inbox[stream]) : right[i] =
                  IF i <= Len(Held(stream)) THEN Held(stream)[i]
                                            ELSE inbox[stream][i - Len(Held(stream))]
        BY <2>2, <2>3, ConcatProperties
      <3> HIDE DEF right
      <3>3. Len(inbox[stream]) \in Nat
        BY <2>2
      <3> QED BY <2>3, <3>1, <3>2, <3>3
    <2>5. /\ acks[stream] \in Nat /\ sent \in Nat /\ k \in {0, 1}
          /\ Reached(stream) = acks[stream] + k /\ Len(inbox[stream]) = sent - Reached(stream)
      BY Places, Types DEF Reached
    <2>6. /\ left \in Seq(Actions) /\ Len(left) = sent - acks[stream]
          /\ \A i \in 1 .. sent - acks[stream] : left[i] = queue[acks[stream] + i]
      <3>1. /\ acks[stream] + 1 \in 1 .. Len(queue) + 1
            /\ sent \in acks[stream] + 1 - 1 .. Len(queue)
        BY <2>1, <2>2, <2>5
      <3>2. Len(queue) \in Nat
        BY <2>2
      <3>3. acks[stream] + 1 <= sent + 1 /\ Len(left) = sent - acks[stream]
        BY <2>1, <2>2, <2>5
      <3>4. left \in Seq(Actions)
        BY <2>1, <2>2, <2>5
      <3>5. \A i \in 1 .. sent - acks[stream] : left[i] = queue[acks[stream] + i]
        BY <2>1, <2>2, <2>5
      <3> QED BY <3>3, <3>4, <3>5
    <2> HIDE DEF left, right, k
    <2>7. Len(left) = Len(right)
      BY <2>4, <2>5, <2>6
    <2>8. \A i \in 1 .. Len(left) : left[i] = right[i]
      <3> TAKE i \in 1 .. Len(left)
      <3>1. CASE i <= k
        <4>1. i = 1 /\ k = 1
          BY <2>5, <3>1
        <4>2. Working(stream)
          BY <4>1 DEF k
        <4>3. right[i] = Held(stream)[1]
          BY <2>4, <4>1
        <4>4. handler[stream].action = queue[acks[stream] + 1]
          BY <4>2, Places
        <4> QED BY <2>3, <2>6, <4>1, <4>2, <4>3, <4>4
      <3>2. CASE i > k
        <4>1. i - k \in 1 .. Len(inbox[stream]) /\ i \in k + 1 .. k + Len(inbox[stream])
          BY <2>5, <2>6, <3>2
        <4>2. right[i] = inbox[stream][i - k] /\ i - k \in DOMAIN inbox[stream]
          BY <2>2, <2>4, <4>1
        <4>3. inbox[stream][i - k] = queue[Reached(stream) + (i - k)]
          BY <4>2, Places
        <4>4. Reached(stream) + (i - k) = acks[stream] + i
          BY <2>5
        <4> QED BY <2>6, <4>2, <4>3, <4>4
      <3> QED BY <2>5, <3>1, <3>2
    <2>9. left = right
      BY <2>4, <2>6, <2>7, <2>8, SeqEqual
    <2> QED BY <2>9 DEF left, right
  <1> QED BY <1>1, InvHolds, PTL

(* What the client is told it may drop is indexed, or refused for good.    *)
THEOREM AcknowledgementsAreEarned == Spec => []AcksAreEarned
  <1>1. IInv => AcksAreEarned
    BY DEF IInv
  <1> QED BY <1>1, InvHolds, PTL

(* No completed action is lost, whatever breaks and however often.         *)
THEOREM NoActionIsLost == Spec => []NothingLost
  <1>1. IInv => NothingLost
    BY DEF IInv
  <1> QED BY <1>1, InvHolds, PTL

-----------------------------------------------------------------------------
(* What the abstract log calls settled.                                    *)
Done == {a \in Actions : Settled(a)}

LEMMA LogStutter ==
    ASSUME UNCHANGED <<completed, queue, index, refused>>
    PROVE  UNCHANGED Log!vars
  BY DEF Log!vars, Settled

LEMMA LogComplete ==
    ASSUME NEW a \in Actions, Complete(a)
    PROVE  Log!Next
  <1>1. Done' = Done
    BY DEF Complete, esVars, Done, Settled
  <1>2. Log!Complete(a)
    BY <1>1 DEF Complete, Done, Log!Complete
  <1> QED BY <1>2 DEF Log!Next

LEMMA LogDrop ==
    ASSUME IInv, ReceiveAck
    PROVE  Log!Next
  <1>1. Done' = Done /\ completed' = completed /\ queue' = Tail(queue)
    BY DEF ReceiveAck, esVars, Done, Settled
  <1>2. queue # <<>> /\ Head(queue) \in Done
    <2>1. queue # <<>> /\ Settled(Head(queue)) /\ queue \in Seq(Actions)
      BY ReceiveAckKeeps, Types
    <2>2. Head(queue) \in Actions
      BY <2>1, HeadTailProperties
    <2> QED BY <2>1, <2>2 DEF Done
  <1> QED BY <1>1, <1>2 DEF Done, Log!Drop, Log!Next

LEMMA LogPut ==
    ASSUME IInv, NEW s \in Streams, Put(s)
    PROVE  Log!Next
  <1> DEFINE b == handler[s].action
  <1>1. /\ b \in completed /\ b \in Actions
        /\ \A a \in Actions : Settled(a)' <=> Settled(a) \/ a = b
    BY PutKeeps, Types
  <1>2. completed' = completed /\ queue' = queue
    BY DEF Put, PutApplied, PutRefused, clientVars
  <1>3. Done' = Done \cup {b}
    <2> HIDE DEF b
    <2>1. \A a : a \in Done' <=> a \in Actions /\ Settled(a)'
      BY DEF Done
    <2>2. \A a : a \in Done <=> a \in Actions /\ Settled(a)
      BY DEF Done
    <2> QED BY <1>1, <2>1, <2>2
  <1>4. Log!Settle(b)
    BY <1>1, <1>2, <1>3 DEF Done, Log!Settle
  <1> QED BY <1>1, <1>4 DEF Log!Next

(* A request that was given up may settle its action late.                 *)
LEMMA LogLand ==
    ASSUME IInv, Land
    PROVE  Log!Next
  <1>1. PICK w \in late : index' = [index EXCEPT ![w[1]] = w[2]]
    BY DEF Land
  <1>2. /\ w[1] \in Actions /\ w[1] \in completed /\ w[2] \in Documents
        /\ index \in [Actions -> Documents \cup {"none"}]
    BY DEF IInv, TypeOK, Known
  <1>3. refused' = refused /\ completed' = completed /\ queue' = queue
    BY DEF Land, clientVars
  <1>4. \A a \in Actions : Settled(a)' <=> Settled(a) \/ a = w[1]
    BY <1>1, <1>2, <1>3 DEF Settled, Documents
  <1>5. Done' = Done \cup {w[1]}
    <2>1. \A a : a \in Done' <=> a \in Actions /\ Settled(a)'
      BY DEF Done
    <2>2. \A a : a \in Done <=> a \in Actions /\ Settled(a)
      BY DEF Done
    <2> QED BY <1>2, <1>4, <2>1, <2>2
  <1>6. Log!Settle(w[1])
    BY <1>2, <1>3, <1>5 DEF Done, Log!Settle
  <1> QED BY <1>2, <1>6 DEF Log!Next

(* The streams, the retries and the late requests are invisible in the     *)
(* log: every step of the ingester is one of its steps, or none.           *)
THEOREM IngesterImplementsActionLog == Spec => ImplementsActionLog
  <1>1. Init => Log!Init
    BY DEF Init, Log!Init, Settled
  <1>2. IInv /\ [Next]_vars => [Log!Next]_(Log!vars)
    <2> SUFFICES ASSUME IInv, [Next]_vars PROVE [Log!Next]_(Log!vars)
      OBVIOUS
    <2>1. CASE \E a \in Actions : Complete(a)
      BY <2>1, LogComplete
    <2>2. CASE ReceiveAck
      BY <2>2, LogDrop
    <2>3. CASE Land
      BY <2>3, LogLand
    <2>4. ASSUME NEW s \in Streams, Handler(s) PROVE [Log!Next]_(Log!vars)
      <3>1. CASE Put(s)
        BY <3>1, LogPut
      <3>2. CASE Recv(s) \/ RecvFails(s) \/ Flatten(s) \/ PutFails(s) \/ Ack(s)
        <4>1. UNCHANGED <<completed, queue, index, refused>>
          BY <3>2 DEF Recv, RecvFails, Flatten, PutFails, Ack, clientVars, esVars
        <4> QED BY <4>1, LogStutter
      <3> QED BY <2>4, <3>1, <3>2 DEF Handler
    <2>5. CASE Connect \/ SendNext \/ HangUp \/ Break \/ UNCHANGED vars
      <3>1. UNCHANGED <<completed, queue, index, refused>>
        BY <2>5 DEF Connect, SendNext, HangUp, Break, Closes, vars, clientVars, esVars
      <3> QED BY <3>1, LogStutter
    <2> QED BY <2>1, <2>2, <2>3, <2>4, <2>5 DEF Next, Client
  <1> QED BY <1>1, <1>2, InvHolds, PTL DEF Spec, ImplementsActionLog, Log!Spec
=============================================================================
