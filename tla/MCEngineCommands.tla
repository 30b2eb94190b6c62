--------------------------- MODULE MCEngineCommands ---------------------------
(* TLC instances of EngineCommands. *)
EXTENDS EngineCommands, TLC

CONSTANTS Earlier, Later    \* two calls that differ in nothing else

\* The calls are made in any order, of those two in one.
InOrder == phase[Later] # "unused" => phase[Earlier] # "unused"

\* Once the reader has stopped, or the last call is over, what is on the line
\* reaches no call that waits.
LineMatters ==
    \/ up /\ \E c \in Calls : phase[c] \notin Ended
    \/ UNCHANGED <<outbox, copies, line, acks>>

\* To all others a write that fails is one that is cancelled: one call's may.
OneFails == \A c \in Calls \ {Later} : phase[c] # "error"

MCSpec == Init /\ [][Next /\ InOrder' /\ OneFails' /\ LineMatters]_vars /\ Fairness
===============================================================================
