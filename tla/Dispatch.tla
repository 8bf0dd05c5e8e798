------------------------------- MODULE Dispatch -------------------------------
(***************************************************************************)
(* `re-dispatch execute SPEC...` (src/cmd/re_dispatch/src/execute.rs): up  *)
(* to Jobs actions are uploaded, executed remotely and read back at a      *)
(* time, and reported one by one in the order in which they end.           *)
(*                                                                         *)
(* Everything runs in the task of run(): the futures of buffer_unordered   *)
(* only move while it waits for the next result, so a report is one step.  *)
(* The server is external: it stores what is written to it whole, executes *)
(* an action whose blobs it has, and may drop a stream, fail a call, stop  *)
(* early or answer a read with something else.  The bytes of a blob are    *)
(* numbers, so that a byte in the wrong place is a different content.      *)
(***************************************************************************)
EXTENDS Naturals, Sequences, FiniteSets, SequencesExt

CONSTANTS
    Spec,        \* Spec[i]: what the i-th argument says
    Jobs,        \* --jobs
    Blobs,
    EmptyBlob,   \* the encoding of an empty Directory; servers always have it
    Size,        \* the size of each blob that is uploaded
    ChunkSize,   \* WRITE_CHUNK_SIZE
    Outcomes,    \* what an execution may be answered with
    Evictable,   \* blobs the server may drop at any moment
    MaxFaults,   \* bound: calls failed, streams damaged, writes refused
    PrintFails   \* whether stdout or stderr may refuse a write

Args       == DOMAIN Spec
Command(i) == <<"command", i>>
Action(i)  == <<"action", i>>
AllBlobs   == Blobs \cup {Command(i) : i \in Args} \cup {Action(i) : i \in Args}

(* The root of a spec is the root of a mounted tree, or composed of inputs *)
(* and trees that are on the server already and directories that are not.  *)
ASSUME SpecAssumption ==
    /\ EmptyBlob \in Blobs
    /\ Spec \in Seq([usable : BOOLEAN,  \* readable, decodable, paths disjoint
                     mounted : BOOLEAN, root : Blobs, dirs : Seq(Blobs), present : SUBSET Blobs])
    /\ \A i \in Args : Spec[i].mounted => Spec[i].root \in Spec[i].present

(* A result holds a stream itself, or the digest of a blob of so many      *)
(* bytes, or neither.                                                      *)
Streams == {"stdout", "stderr"}
Held    == {"raw", "digest", "none"}
ASSUME OutcomesAssumption ==
    \A o \in Outcomes :
      /\ o.status \in Nat /\ o.hasResult \in BOOLEAN /\ o.code \in Nat
      /\ \A s \in Streams : o[s].held \in Held /\ o[s].size \in Nat
ASSUME BoundsAssumption ==
    /\ Jobs \in Nat /\ MaxFaults \in Nat /\ PrintFails \in BOOLEAN
    /\ ChunkSize \in Nat \ {0} /\ Size \in [AllBlobs -> Nat]

Bytes(n) == [k \in 1 .. n |-> k]
Wrong    == 0

(* What run_one uploads, in order.                                         *)
Uploads(i) ==
    <<Command(i), Action(i)>>
    \o (IF Spec[i].mounted \/ Spec[i].root = EmptyBlob THEN <<>> ELSE <<Spec[i].root>>)
    \o Spec[i].dirs

(* What the server reads to execute the action.                            *)
Needed(i) == {Command(i), Action(i), Spec[i].root} \cup ToSet(Spec[i].dirs) \cup Spec[i].present

VARIABLES
    connected, \* the channel is there, and the headers of the credential helper
    expired,   \* the server no longer takes these headers
    started,   \* arguments handed to run_one so far
    job,       \* job[i]: where run_one is
    cas,       \* blobs on the server
    executed,  \* history: what the server's executions of each action left
    harmed,    \* history: arguments that met a fault or a missing blob
    reports,   \* the arguments reported, in order
    hadFailure,
    exit,      \* what the process ended with
    faults

serverVars == <<cas, executed>>
vars == <<connected, expired, started, job, serverVars, harmed, reports, hadFailure, exit, faults>>

Waiting  == [at |-> "waiting"]
Failed   == [at |-> "failed"]

(* Where run_one is once n blobs are uploaded: about to write the next, of *)
(* which the server has got nothing yet, or about to execute.              *)
Uploaded(i, n) ==
    IF n < Len(Uploads(i)) THEN [at |-> "write", done |-> n, offset |-> 0, got |-> <<>>]
                           ELSE [at |-> "execute"]

(* (Mutation: a slot is never given back.)                                 *)
InFlightForever == {i \in Args : job[i].at # "waiting"}
InFlight == {i \in Args : job[i].at \notin {"waiting", "reported"}}

Init ==
    /\ connected = FALSE /\ expired = FALSE /\ started = 0
    /\ job = [i \in Args |-> Waiting]
    /\ cas = {EmptyBlob} \cup (UNION {Spec[i].present : i \in Args})
    /\ executed = [i \in Args |-> <<>>] /\ harmed = {}
    /\ reports = <<>> /\ hadFailure = FALSE /\ faults = 0
    /\ exit = IF Jobs = 0 THEN "error" ELSE "none"

Becomes(i, j) == job' = [job EXCEPT ![i] = j]
Fault == faults < MaxFaults /\ faults' = faults + 1
Harms(i) == harmed' = harmed \cup {i}

(* The steps of run_one(i) between its first and its last.                 *)
Moves(i) ==
    exit = "none" /\ UNCHANGED <<connected, expired, started, reports, hadFailure, exit>>
Well(i)  == Moves(i) /\ UNCHANGED <<harmed, faults>>
Badly(i) == Moves(i) /\ Fault /\ Harms(i)

-----------------------------------------------------------------------------
(* The helper is asked and the channel opened once, before anything else.  *)
Connect ==
    /\ exit = "none" /\ ~connected
    /\ \/ connected' = TRUE /\ UNCHANGED <<exit, faults>>
       \/ Fault /\ exit' = "error" /\ UNCHANGED connected
    /\ UNCHANGED <<expired, started, job, serverVars, harmed, reports, hadFailure>>

(* External: the server stops taking the headers, which nobody renews.     *)
Expire ==
    /\ exit = "none" /\ connected /\ ~expired
    /\ Fault /\ expired' = TRUE
    /\ UNCHANGED <<connected, started, job, serverVars, harmed, reports, hadFailure, exit>>

(* buffer_unordered takes the next argument while fewer than Jobs futures  *)
(* are in flight; one that has ended counts until it is reported.          *)
(* (Mutation: the iterator is not advanced.)                               *)
AdvancedNot == started
Advanced == started + 1
Start ==
    /\ exit = "none" /\ connected /\ Cardinality(InFlight) < Jobs /\ started < Len(Spec)
    /\ started' = Advanced
    /\ Becomes(started + 1, IF Spec[started + 1].usable THEN Uploaded(started + 1, 0) ELSE Failed)
    /\ UNCHANGED <<connected, expired, serverVars, harmed, reports, hadFailure, exit, faults>>

-----------------------------------------------------------------------------
(* upload_blobs: the blob is cut into WriteRequests, the first of which is *)
(* sent whatever the size; the last one says that it is.                   *)
Writing(i) == job[i].at = "write"
Blob(i)    == Uploads(i)[job[i].done + 1]
Data(i)    == Bytes(Size[Blob(i)])
End(i)     == LET end == job[i].offset + ChunkSize
              IN IF end < Size[Blob(i)] THEN end ELSE Size[Blob(i)]

(* The server answered: the next blob, if it committed all of this one.    *)
(* (Mutation: committed_size is not looked at.)                            *)
AfterAnyCommit(i, committed) == Uploaded(i, job[i].done + 1)
AfterCommit(i, committed) ==
    IF committed = Size[Blob(i)] THEN Uploaded(i, job[i].done + 1) ELSE Failed

(* A RPC is refused at its start once the headers have expired.            *)
Accepted(i) == expired => job[i].at # "execute" /\ job[i].got # <<>>

(* The server takes a chunk only at the end of what it has got, and stores *)
(* the blob when the client has finished and the content is the digest's.  *)
(* (Mutation: a byte is left out between two chunks.)                      *)
FollowsPast(i) == End(i) + 1
Follows(i) == End(i)
WriteChunk(i) ==
    LET got == job[i].got \o SubSeq(Data(i), job[i].offset + 1, End(i)) IN
    /\ Writing(i) /\ Accepted(i) /\ Well(i)
    /\ IF job[i].offset # Len(job[i].got) THEN Becomes(i, Failed) /\ UNCHANGED cas
       ELSE IF End(i) < Size[Blob(i)]
       THEN /\ UNCHANGED cas
            /\ Becomes(i, [at |-> "write", done |-> job[i].done, offset |-> Follows(i), got |-> got])
       ELSE IF got = Data(i)
       THEN cas' = cas \cup {Blob(i)} /\ Becomes(i, AfterCommit(i, Size[Blob(i)]))
       ELSE Becomes(i, Failed) /\ UNCHANGED cas
    /\ UNCHANGED executed

(* A server that has the blob need not read it to the end.                 *)
AnswerEarly(i) ==
    /\ Writing(i) /\ Accepted(i) /\ Well(i)
    /\ Blob(i) \in cas /\ Becomes(i, AfterCommit(i, Size[Blob(i)]))
    /\ UNCHANGED serverVars

(* It may also stop and say how much of it it kept.                        *)
StopEarly(i) ==
    /\ Writing(i) /\ Accepted(i) /\ Badly(i)
    /\ Len(job[i].got) < Size[Blob(i)] /\ Becomes(i, AfterCommit(i, Len(job[i].got)))
    /\ UNCHANGED serverVars

(* The call fails; the server may have all of the blob nevertheless.       *)
UploadFails(i) ==
    /\ Writing(i) /\ Badly(i) /\ Becomes(i, Failed)
    /\ \/ UNCHANGED cas
       \/ Accepted(i) /\ End(i) = Size[Blob(i)] /\ cas' = cas \cup {Blob(i)}
    /\ UNCHANGED executed

-----------------------------------------------------------------------------
Execute(i) ==
    /\ job[i].at = "execute" /\ Accepted(i) /\ Moves(i)
    /\ \/ /\ Needed(i) \subseteq cas
          /\ \E o \in Outcomes :
               /\ executed' = [executed EXCEPT ![i] = Append(@, o)]
               /\ Becomes(i, [at |-> "running", outcome |-> o])
          /\ UNCHANGED harmed
       \/ /\ ~(Needed(i) \subseteq cas)
          /\ Becomes(i, [at |-> "refused", missing |-> Needed(i) \ cas])
          /\ Harms(i) /\ UNCHANGED executed
    /\ UNCHANGED <<cas, faults>>

(* The stream of operations ends, or fails, before a done operation.       *)
StreamEnds(i) ==
    /\ job[i].at = "running" /\ Badly(i) /\ Becomes(i, Failed)
    /\ UNCHANGED serverVars

(* The headers have expired: any call that begins now is refused.          *)
CallRefused(i) ==
    /\ job[i].at \in {"write", "execute", "read"} /\ ~Accepted(i)
    /\ Moves(i) /\ Becomes(i, Failed) /\ Harms(i)
    /\ UNCHANGED <<serverVars, faults>>

(* Where run_one is with what it has read of the streams: about to read    *)
(* the next one that the result only has a digest of, or at its end.       *)
(* stdout is read before stderr.                                           *)
ToRead(o, output) == {s \in Streams : o[s].held = "digest"} \ DOMAIN output
Whole(o, output) ==
    [s \in Streams |-> IF s \in DOMAIN output THEN output[s]
                       ELSE IF o[s].held = "raw" THEN Bytes(o[s].size) ELSE <<>>]
AfterRead(o, output) ==
    LET left == ToRead(o, output) IN
    IF left = {} THEN [at |-> "done", code |-> o.code, output |-> Whole(o, output)]
    ELSE [at |-> "read", outcome |-> o, output |-> output, got |-> <<>>,
          stream |-> IF "stdout" \in left THEN "stdout" ELSE "stderr"]

(* The done operation: an error, a status, no result, or a result.         *)
Response(i) ==
    /\ job[i].at \in {"running", "refused"} /\ Well(i)
    /\ Becomes(i, IF /\ job[i].at = "running"
                     /\ job[i].outcome.status = 0 /\ job[i].outcome.hasResult
                  THEN AfterRead(job[i].outcome, <<>>) ELSE Failed)
    /\ UNCHANGED serverVars

-----------------------------------------------------------------------------
(* read_blob: chunks of any length, and the checks on what has come in.    *)
Reading(i)  == job[i].at = "read"
Expected(i) == job[i].outcome[job[i].stream].size
Left(i)     == Expected(i) - Len(job[i].got)

(* (Mutation: the hash is not compared.)                                   *)
VerifiedSize(i) == Len(job[i].got) = Expected(i)
Verified(i) == job[i].got = Bytes(Expected(i))

AfterChunk(i, data) ==
    IF Len(data) > Left(i) THEN Failed ELSE [job[i] EXCEPT !.got = @ \o data]

ReadChunk(i) ==
    /\ Reading(i) /\ Accepted(i) /\ Well(i)
    /\ \E n \in 1 .. Left(i) :
         Becomes(i, AfterChunk(i, SubSeq(Bytes(Expected(i)), Len(job[i].got) + 1,
                                         Len(job[i].got) + n)))
    /\ UNCHANGED serverVars

(* Other bytes, or more than there are.                                    *)
ReadDamaged(i) ==
    /\ Reading(i) /\ Accepted(i) /\ Badly(i)
    /\ \E n \in 1 .. Left(i) + 1 : Becomes(i, AfterChunk(i, [k \in 1 .. n |-> Wrong]))
    /\ UNCHANGED serverVars

AfterStream(i) ==
    IF Verified(i)
    THEN AfterRead(job[i].outcome, [s \in DOMAIN job[i].output \cup {job[i].stream} |->
                                      IF s = job[i].stream THEN job[i].got ELSE job[i].output[s]])
    ELSE Failed

ReadEnds(i) ==
    /\ Reading(i) /\ Accepted(i) /\ Left(i) = 0 /\ Well(i)
    /\ Becomes(i, AfterStream(i))
    /\ UNCHANGED serverVars

(* The stream ends before its time, or fails.                              *)
ReadFails(i) ==
    /\ Reading(i) /\ Badly(i)
    /\ \/ Accepted(i) /\ Left(i) > 0 /\ Becomes(i, AfterStream(i))
       \/ Becomes(i, Failed)
    /\ UNCHANGED serverVars

-----------------------------------------------------------------------------
Ended(i) == job[i].at \in {"failed", "done"}

(* (Mutation: a report replaces what the earlier ones said.)               *)
FailsThisOnly(i, before) == job[i].at = "failed" \/ job[i].code # 0
Fails(i, before) == before \/ job[i].at = "failed" \/ job[i].code # 0

Report(i) ==
    /\ exit = "none" /\ Ended(i)
    /\ hadFailure' = Fails(i, hadFailure)
    /\ reports' = Append(reports,
                    IF job[i].at = "done"
                    THEN [arg |-> i, read |-> TRUE, ok |-> job[i].code = 0, output |-> job[i].output]
                    ELSE [arg |-> i, read |-> FALSE, ok |-> FALSE])
    /\ Becomes(i, [at |-> "reported"])
    /\ UNCHANGED <<connected, expired, started, serverVars, harmed, exit, faults>>

(* print_action_output fails, or eprintln! panics: the process ends and    *)
(* drops what is in flight.                                                *)
PrintFailure(i) ==
    /\ exit = "none" /\ PrintFails /\ Ended(i)
    /\ Fault /\ exit' = "error"
    /\ UNCHANGED <<connected, expired, started, job, serverVars, harmed, reports, hadFailure>>

Finish ==
    /\ exit = "none" /\ connected /\ started = Len(Spec) /\ InFlight = {}
    /\ exit' = IF hadFailure THEN "FAILURE" ELSE "SUCCESS"
    /\ UNCHANGED <<connected, expired, started, job, serverVars, harmed, reports, hadFailure, faults>>

(* External: the server forgets a blob.                                    *)
Evict(b) ==
    /\ b \in cas /\ exit = "none"
    /\ cas' = cas \ {b}
    /\ UNCHANGED <<connected, expired, started, job, executed, harmed, reports, hadFailure,
                   exit, faults>>

RunOne(i) == \/ WriteChunk(i) \/ AnswerEarly(i) \/ Execute(i) \/ Response(i)
             \/ ReadChunk(i) \/ ReadEnds(i) \/ CallRefused(i)
Breaks(i) == \/ UploadFails(i) \/ StopEarly(i) \/ StreamEnds(i)
             \/ ReadDamaged(i) \/ ReadFails(i) \/ PrintFailure(i)

Next == \/ Connect \/ Expire \/ Start \/ Finish
        \/ \E i \in Args : RunOne(i) \/ Breaks(i) \/ Report(i)
        \/ \E b \in Evictable : Evict(b)

Behaviour == Init /\ [][Next]_vars

(* The executor polls every future it was woken for, and the server        *)
(* answers or fails every call.                                            *)
FairBehaviour ==
    Behaviour /\ WF_vars(Connect) /\ WF_vars(Start) /\ WF_vars(Finish)
              /\ \A i \in Args : WF_vars(RunOne(i)) /\ WF_vars(Report(i))

-----------------------------------------------------------------------------
(* Every variable keeps its type, and the iterator is where the futures    *)
(* say it is.                                                              *)
TypeOK ==
    /\ connected \in BOOLEAN /\ expired \in BOOLEAN
    /\ started \in 0 .. Len(Spec)
    /\ \A i \in Args : job[i].at = "waiting" <=> i > started
    /\ \A i \in Args : job[i].at \in {"waiting", "write", "execute", "running", "refused",
                                      "read", "done", "failed", "reported"}
    /\ cas \subseteq AllBlobs /\ harmed \subseteq Args
    /\ executed \in [Args -> Seq(Outcomes)]
    /\ hadFailure \in BOOLEAN
    /\ exit \in {"none", "SUCCESS", "FAILURE", "error"}
    /\ faults \in 0 .. MaxFaults

(* The server never refuses an action for a blob that it does not have,    *)
(* unless it dropped it: all of them are uploaded, whole, before Execute,  *)
(* shared blobs and empty roots included.                                  *)
NothingMissing == \A i \in Args : job[i].at = "refused" => job[i].missing \subseteq Evictable

(* What the streams of an outcome are, however the result holds them.      *)
Produced(o) == [s \in Streams |-> IF o[s].held = "none" THEN <<>> ELSE Bytes(o[s].size)]

(* A report tells of one execution, whole: each stream is printed as it    *)
(* was produced, however the server cut it or damaged it on the way, and   *)
(* the exit code decides whether it is a success.                          *)
ReportsTell ==
    \A n \in DOMAIN reports :
      LET r == reports[n] IN
      r.read => /\ Len(executed[r.arg]) = 1
                /\ executed[r.arg][1].status = 0 /\ executed[r.arg][1].hasResult
                /\ r.output = Produced(executed[r.arg][1])
                /\ r.ok <=> executed[r.arg][1].code = 0

(* No argument fails by the tool's own doing: the server takes every chunk *)
(* of every blob, whatever its size, and every output that arrives whole   *)
(* passes the checks.  A failure is that of an unusable spec, of the       *)
(* execution, or of a fault, an eviction or an expiry that the argument    *)
(* met.                                                                    *)
FailsOnlyByFault ==
    \A i \in Args :
      job[i].at = "failed" =>
        \/ ~Spec[i].usable \/ i \in harmed
        \/ executed[i] # <<>> /\ (executed[i][1].status # 0 \/ ~executed[i][1].hasResult)

(* A process that ends by itself has executed no action twice, has         *)
(* reported every argument exactly once, and says SUCCESS exactly when     *)
(* every one of them was executed and returned 0.                          *)
ExitTells ==
    exit \in {"SUCCESS", "FAILURE"} =>
      /\ Len(reports) = Len(Spec)
      /\ \A i \in Args : Len(executed[i]) <= 1 /\ \E n \in DOMAIN reports : reports[n].arg = i
      /\ exit = "SUCCESS" <=> \A n \in DOMAIN reports : reports[n].ok

(* The process ends, with or without faults.                               *)
Ends == <>(exit # "none")
=============================================================================
