--------------------------- MODULE MCCommandWrapper ---------------------------
(* Instances of CommandWrapper for TLC.                                    *)
EXTENDS CommandWrapper

MCArguments == [c \in Calls |-> IF c = 1 THEN <<"cc", "-c">> ELSE <<"ld">>]
=============================================================================
