------------------------------- MODULE Ingester -------------------------------
(***************************************************************************)
(* bb_completed_actions_ingester: a scheduler streams CompletedActions to  *)
(* LogCompletedActions (pkg/completedaction/ingester.go), which flattens   *)
(* each one, puts it in an Elasticsearch index and acknowledges it.        *)
(*                                                                         *)
(* The client is not part of the repository.  From the ingester's comments *)
(* ("let the client drop it from its queue", "let the client know that it  *)
(* needs to retry") it keeps a queue, sends it in order, drops its head    *)
(* for every acknowledgement, and after a broken stream opens another one  *)
(* and sends what is left again.  An acknowledgement carries no identity.  *)
(*                                                                         *)
(* A restart of the ingester is a stream that breaks and a handler that    *)
(* fails at its next step.                                                 *)
(***************************************************************************)
EXTENDS Naturals, Sequences, SequencesExt

CONSTANTS
    Actions,    \* completed actions, each with a UUID of its own
    Refusable,  \* those Elasticsearch may answer with a status below 500
    MaxFaults   \* bound: streams broken and Put calls failed

ASSUME FaultsAssumption  == MaxFaults \in Nat
ASSUME RefusedAssumption == Refusable \subseteq Actions

(* What FlattenCompletedAction makes of an action: a document with the     *)
(* Action and the Command, or with an action_fetch_error in place of the   *)
(* Command or of both.                                                     *)
Documents == {"complete", "partial"}

Streams  == 1 .. MaxFaults + 1
Idle     == [pc |-> "recv"]
Ended    == [pc |-> "ended"]
Busy     == [pc : {"flatten", "put", "ack"}, action : Actions, doc : Documents \cup {"none"}]

VARIABLES
    completed,  \* actions handed to the client's queue so far
    queue,      \* the client's queue
    sent,       \* how much of the queue went out on the current stream
    stream,     \* the number of the current stream; 0 before the first
    up,         \* the client takes the current stream for open
    inbox,      \* inbox[s]: sent on s, not yet received
    acks,       \* acks[s]: acknowledgements under way on s
    handler,    \* handler[s]: the LogCompletedActions call of stream s
    index,      \* the Elasticsearch index
    late,       \* index requests given up that the server may still execute
    refused,    \* actions acknowledged although they were not indexed
    faults

clientVars == <<completed, queue, sent, stream, up>>
esVars     == <<index, late, refused>>
vars       == <<clientVars, inbox, acks, handler, esVars, faults>>

Init ==
    /\ completed = {} /\ queue = <<>> /\ sent = 0 /\ stream = 0 /\ up = FALSE
    /\ inbox = [s \in Streams |-> <<>>]
    /\ acks = [s \in Streams |-> 0]
    /\ handler = [s \in Streams |-> Idle]
    /\ index = [a \in Actions |-> "none"]
    /\ late = {} /\ refused = {} /\ faults = 0

-----------------------------------------------------------------------------
(* The client and the network (external).                                  *)

Complete(a) ==
    /\ a \notin completed
    /\ completed' = completed \cup {a}
    /\ queue' = Append(queue, a)
    /\ UNCHANGED <<sent, stream, up, inbox, acks, handler, esVars, faults>>

Connect ==
    /\ ~up /\ stream + 1 \in Streams
    /\ up' = TRUE /\ stream' = stream + 1
    /\ UNCHANGED <<completed, queue, sent, inbox, acks, handler, esVars, faults>>

SendNext ==
    /\ up /\ sent < Len(queue)
    /\ sent' = sent + 1
    /\ inbox' = [inbox EXCEPT ![stream] = Append(@, queue[sent + 1])]
    /\ UNCHANGED <<completed, queue, stream, up, acks, handler, esVars, faults>>

ReceiveAck ==
    /\ up /\ acks[stream] > 0 /\ sent > 0
    /\ acks' = [acks EXCEPT ![stream] = @ - 1]
    /\ queue' = Tail(queue) /\ sent' = sent - 1
    /\ UNCHANGED <<completed, stream, up, inbox, handler, esVars, faults>>

(* The acknowledgements under way are lost; the messages may still come in.*)
Closes == up' = FALSE /\ sent' = 0 /\ acks' = [acks EXCEPT ![stream] = 0]

Break ==
    /\ up /\ faults < MaxFaults
    /\ Closes /\ faults' = faults + 1
    /\ UNCHANGED <<completed, queue, stream, inbox, handler, esVars>>

(* The client learns that the handler has returned an error.               *)
HangUp ==
    /\ up /\ handler[stream] = Ended
    /\ Closes
    /\ UNCHANGED <<completed, queue, stream, inbox, handler, esVars, faults>>

Broken(s) == s < stream \/ (s = stream /\ ~up)

-----------------------------------------------------------------------------
(* LogCompletedActions: one call per stream.                               *)

Recv(s) ==
    /\ handler[s] = Idle /\ inbox[s] # <<>>
    /\ inbox' = [inbox EXCEPT ![s] = Tail(@)]
    /\ handler' = [handler EXCEPT ![s] =
                     [pc |-> "flatten", action |-> Head(inbox[s]), doc |-> "none"]]
    /\ UNCHANGED <<clientVars, acks, esVars, faults>>

RecvFails(s) ==
    /\ handler[s] = Idle /\ Broken(s)
    /\ handler' = [handler EXCEPT ![s] = Ended]
    /\ UNCHANGED <<clientVars, inbox, acks, esVars, faults>>

(* The Action and then the Command are fetched from the CAS; what cannot   *)
(* be fetched is left out and the call succeeds nevertheless: the error    *)
(* return of ingester.go:66-69 is one that the converter never takes.      *)
(* (Mutation: it succeeds without a document.)                             *)
NoDocument == {"none"}
Flattened  == Documents
Flatten(s) ==
    /\ handler[s].pc = "flatten"
    /\ \E d \in Flattened : handler' = [handler EXCEPT ![s] =
                                 [pc |-> "put", action |-> handler[s].action, doc |-> d]]
    /\ UNCHANGED <<clientVars, inbox, acks, esVars, faults>>

PutApplied(s) ==
    /\ handler[s].pc = "put"
    /\ index' = [index EXCEPT ![handler[s].action] = handler[s].doc]
    /\ handler' = [handler EXCEPT ![s].pc = "ack"]
    /\ UNCHANGED <<clientVars, inbox, acks, late, refused, faults>>

(* A status below 500 becomes InvalidArgument, which is no infrastructure  *)
(* error: the action is acknowledged.  (Mutation: the loop continues       *)
(* without an acknowledgement.)                                            *)
AfterRefusalContinue(s) == Idle
AfterRefusal(s) == [handler[s] EXCEPT !.pc = "ack"]
PutRefused(s) ==
    /\ handler[s].pc = "put" /\ handler[s].action \in Refusable
    /\ refused' = refused \cup {handler[s].action}
    /\ handler' = [handler EXCEPT ![s] = AfterRefusal(s)]
    /\ UNCHANGED <<clientVars, inbox, acks, index, late, faults>>

(* No answer, a status of 500 or above, or a cancelled context: the call   *)
(* returns.  The server may have the request all the same.  (Mutation: the *)
(* error is ignored.)                                                      *)
AfterFailedPutContinue(s) == [handler[s] EXCEPT !.pc = "ack"]
AfterFailedPut(s) == Ended
PutFails(s) ==
    /\ handler[s].pc = "put"
    /\ \/ Broken(s) /\ UNCHANGED faults
       \/ ~Broken(s) /\ faults < MaxFaults /\ faults' = faults + 1
    /\ \/ UNCHANGED late
       \/ late' = late \cup {<<handler[s].action, handler[s].doc>>}
    /\ handler' = [handler EXCEPT ![s] = AfterFailedPut(s)]
    /\ UNCHANGED <<clientVars, inbox, acks, index, refused>>

(* The result of Send is not looked at: on a broken stream it is lost.     *)
(* (Mutation: every answer is sent twice.)                                 *)
AcksAfterTwo(s) == IF Broken(s) THEN acks[s] ELSE acks[s] + 2
AcksAfter(s)    == IF Broken(s) THEN acks[s] ELSE acks[s] + 1
Ack(s) ==
    /\ handler[s].pc = "ack"
    /\ acks' = [acks EXCEPT ![s] = AcksAfter(s)]
    /\ handler' = [handler EXCEPT ![s] = Idle]
    /\ UNCHANGED <<clientVars, inbox, esVars, faults>>

(* Elasticsearch (external) executes a request nobody waits for.           *)
Land ==
    /\ \E w \in late :
         /\ late' = late \ {w}
         /\ index' = [index EXCEPT ![w[1]] = w[2]]
    /\ UNCHANGED <<clientVars, inbox, acks, handler, refused, faults>>

Client == Connect \/ SendNext \/ ReceiveAck \/ HangUp
Put(s) == PutApplied(s) \/ PutRefused(s)
Handler(s) == Recv(s) \/ RecvFails(s) \/ Flatten(s) \/ Put(s) \/ PutFails(s) \/ Ack(s)

Next ==
    \/ \E a \in Actions : Complete(a)
    \/ Client \/ Break \/ Land
    \/ \E s \in Streams : Handler(s)

Spec == Init /\ [][Next]_vars

(* The client keeps reconnecting, sending and listening; a handler never   *)
(* stays at a call: gRPC, the CAS and Elasticsearch answer, or fail.       *)
Fairness ==
    /\ WF_vars(Connect) /\ WF_vars(SendNext) /\ WF_vars(ReceiveAck) /\ WF_vars(HangUp)
    /\ \A s \in Streams : WF_vars(Handler(s))

FairSpec == Spec /\ Fairness

-----------------------------------------------------------------------------
Settled(a) == index[a] # "none" \/ a \in refused

(* Every variable keeps its type.                                          *)
TypeOK ==
    /\ completed \subseteq Actions /\ queue \in Seq(Actions)
    /\ stream \in 0 .. MaxFaults + 1 /\ up \in BOOLEAN /\ faults \in 0 .. MaxFaults
    /\ sent \in Nat
    /\ inbox \in [Streams -> Seq(Actions)] /\ acks \in [Streams -> Nat]
    /\ handler \in [Streams -> {Idle, Ended} \cup Busy]
    /\ index \in [Actions -> Documents \cup {"none"}]
    /\ late \subseteq Actions \X Documents
    /\ refused \subseteq Actions

(* What the handler of the current stream holds and has still to receive   *)
(* is exactly the part of the client's queue that follows the              *)
(* acknowledgements under way: the n-th anonymous acknowledgement belongs  *)
(* to the n-th action, through losses, retries and reconnections.          *)
Held(s) == IF handler[s] \in {Idle, Ended} THEN <<>> ELSE <<handler[s].action>>
Aligned ==
    up => /\ sent <= Len(queue) /\ acks[stream] <= sent
          /\ handler[stream] # Ended =>
               SubSeq(queue, acks[stream] + 1, sent) = Held(stream) \o inbox[stream]

(* An acknowledgement under way makes the client drop an action that is    *)
(* indexed or was refused for good; a handler about to acknowledge has     *)
(* reached that state.                                                     *)
AcksAreEarned ==
    /\ up => \A i \in 1 .. acks[stream] : Settled(queue[i])
    /\ \A s \in Streams : handler[s] \notin {Idle, Ended} /\ handler[s].pc = "ack"
                            => Settled(handler[s].action)

(* No completed action is lost: the client still has it, or it is indexed, *)
(* or Elasticsearch refused it.                                            *)
NothingLost == \A a \in completed : Settled(a) \/ a \in ToSet(queue)

(* Once the faults are over, every completed action leaves the client's    *)
(* queue.                                                                  *)
EveryActionSettles == \A a \in Actions : a \in completed ~> a \notin ToSet(queue)

(* Streams, retries, late requests and anonymous acknowledgements          *)
(* implement the abstract log: the client's queue only ever loses its      *)
(* first action, and only when that very action is settled.                *)
Log == INSTANCE ActionLog WITH
         logged <- completed, waiting <- queue, settled <- {a \in Actions : Settled(a)}
ImplementsActionLog == Log!Spec
=============================================================================
