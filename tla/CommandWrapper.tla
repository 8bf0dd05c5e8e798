---------------------------- MODULE CommandWrapper ----------------------------
(***************************************************************************)
(* NewCommandWrapperCreator (pkg/runner/command_wrapper.go): every Run of  *)
(* bb_slow_generic_runner builds its command line with                     *)
(*                                                                         *)
(*   append(append(wrapper, root, dir), arguments...)                      *)
(*                                                                         *)
(* on one slice that all calls share.  Where the backing array has spare   *)
(* capacity, append writes into it; exec.CommandContext then copies the    *)
(* slice.  Calls run in goroutines of their own and nothing orders them.   *)
(*                                                                         *)
(* A Go string is two words, a pointer and a length, so unsynchronised     *)
(* accesses are modelled word by word: a slot is the words 2s-1 and 2s.    *)
(***************************************************************************)
EXTENDS Naturals, Sequences

CONSTANTS
    Calls,        \* Run requests
    Arguments,    \* Arguments[c]: the command line of the action
    Spares        \* possible spare capacities of the configured slice

Root(c) == <<"input root", c>>
Dir(c)  == <<"working directory", c>>

(* What a call appends, in order.                                          *)
Appended(c) == <<Root(c), Dir(c)>> \o Arguments[c]

VARIABLES
    spare,  \* capacity of the configured slice beyond its length
    words,  \* the spare words, shared by all calls
    call,   \* call[c]: where it is and how many words it has dealt with
    built   \* built[c]: the words of the command line so far

vars == <<spare, words, call, built>>

WordsOf(s) == [w \in 1 .. 2 * Len(s) |-> s[(w + 1) \div 2]]

(* How many of the appended strings the call writes to the shared array:   *)
(* none, those of the inner append, or all.                                *)
Shared(c) == IF spare < 2 THEN 0
             ELSE IF spare < Len(Appended(c)) THEN 2 ELSE Len(Appended(c))

(* The rest goes to an array of the call's own.                            *)
Private(c) == SubSeq(Appended(c), Shared(c) + 1, Len(Appended(c)))

Init ==
    /\ spare \in Spares
    /\ words = [w \in 1 .. 2 * spare |-> "zero"]
    /\ call = [c \in Calls |-> [at |-> "idle"]]
    /\ built = [c \in Calls |-> <<>>]

Becomes(c, state) == call' = [call EXCEPT ![c] = state]

Begin(c) ==
    /\ call[c].at = "idle"
    /\ Becomes(c, [at |-> "write", done |-> 0])
    /\ UNCHANGED <<spare, words, built>>

WriteWord(c) ==
    /\ call[c].at = "write" /\ call[c].done < 2 * Shared(c)
    /\ words' = [words EXCEPT ![call[c].done + 1] = WordsOf(Appended(c))[call[c].done + 1]]
    /\ Becomes(c, [at |-> "write", done |-> call[c].done + 1])
    /\ UNCHANGED <<spare, built>>

Copy(c) ==
    /\ call[c].at = "write" /\ call[c].done = 2 * Shared(c)
    /\ Becomes(c, [at |-> "read", done |-> 0])
    /\ UNCHANGED <<spare, words, built>>

ReadWord(c) ==
    /\ call[c].at = "read" /\ call[c].done < 2 * Shared(c)
    /\ built' = [built EXCEPT ![c] = Append(@, words[call[c].done + 1])]
    /\ Becomes(c, [at |-> "read", done |-> call[c].done + 1])
    /\ UNCHANGED <<spare, words>>

Return(c) ==
    /\ call[c].at = "read" /\ call[c].done = 2 * Shared(c)
    /\ built' = [built EXCEPT ![c] = @ \o WordsOf(Private(c))]
    /\ Becomes(c, [at |-> "done"])
    /\ UNCHANGED <<spare, words>>

Next == \E c \in Calls : Begin(c) \/ WriteWord(c) \/ Copy(c) \/ ReadWord(c) \/ Return(c)

Spec == Init /\ [][Next]_vars

-----------------------------------------------------------------------------
(* bb_slow_generic_runner.proto:20-26: the wrapper is followed by the      *)
(* input root directory, the working directory, the command and the rest   *)
(* of the arguments, all of the action that is run.                        *)
Promised(c) == <<Root(c), Dir(c)>> \o Arguments[c]
OwnArguments == \A c \in Calls : call[c].at = "done" => built[c] = WordsOf(Promised(c))
=============================================================================
