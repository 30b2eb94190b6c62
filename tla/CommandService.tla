---------------------------- MODULE CommandService ----------------------------
(***************************************************************************)
(* What `Engine::do_command` promises its callers (src/src/engine/mod.rs): *)
(* the calls made on one dongle are served one at a time, in the order in  *)
(* which they asked; a call that is served ends in one of four ways, and   *)
(* a call that waits for its turn can only be withdrawn.  Nothing is said  *)
(* here of packets, reply keys or timers: `EngineCommands` adds those.     *)
(***************************************************************************)
EXTENDS Sequences, SequencesExt

CONSTANTS
    Calls,      \* the invocations of do_command on one engine
    NoCall      \* "no call": the engine is free

VARIABLES
    state,      \* state[c]: how far call c has come
    turn,       \* the calls waiting for their turn, first come first
    serving     \* the call being served, or NoCall

serviceVars == <<state, turn, serving>>

Outcomes == {"ok", "timeout", "error", "cancelled"}

ServiceInit ==
    /\ state = [c \in Calls |-> "idle"]
    /\ turn = <<>>
    /\ serving = NoCall

\* A task calls do_command and queues behind the calls made before it.
Ask(c) ==
    /\ state[c] = "idle"
    /\ state' = [state EXCEPT ![c] = "waiting"]
    /\ turn' = Append(turn, c)
    /\ UNCHANGED serving

\* The first of the waiting calls gets the engine to itself.
Serve ==
    /\ serving = NoCall
    /\ turn # <<>>
    /\ serving' = Head(turn)
    /\ turn' = Tail(turn)
    /\ state' = [state EXCEPT ![Head(turn)] = "served"]

\* The call being served ends and frees the engine.
Finish ==
    /\ serving # NoCall
    /\ \E o \in Outcomes : state' = [state EXCEPT ![serving] = o]
    /\ serving' = NoCall
    /\ UNCHANGED turn

\* A waiting call's future is dropped before its turn came.
Withdraw ==
    /\ \E i \in DOMAIN turn :
          /\ state' = [state EXCEPT ![turn[i]] = "cancelled"]
          /\ turn' = RemoveAt(turn, i)
    /\ UNCHANGED serving

ServiceNext ==
    \/ \E c \in Calls : Ask(c)
    \/ Serve
    \/ Finish
    \/ Withdraw

\* What may happen, and what must.
ServiceSafety == ServiceInit /\ [][ServiceNext]_serviceVars

ServiceSpec ==
    /\ ServiceSafety
    /\ WF_serviceVars(Serve)
    /\ WF_serviceVars(Finish)
===============================================================================
