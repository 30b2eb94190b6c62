---------------------------- MODULE EngineCommands ----------------------------
(***************************************************************************)
(* The request/reply core of `Engine` (src/src/engine/mod.rs): the tasks   *)
(* that call `do_command_with_timeout` on one dongle, the lock that makes  *)
(* them take turns, the map of pending requests, the reader task that      *)
(* completes them, and a dongle behind a line that loses, delays and       *)
(* repeats packets.                                                        *)
(*                                                                         *)
(* A reply names the kind of command it answers (its key), never the       *)
(* request: everything subtle here follows from that.  In the model a      *)
(* packet from the dongle is the call it answers, which the code cannot    *)
(* see; `key` is all the code looks at.                                    *)
(***************************************************************************)
EXTENDS Naturals, Sequences, SequencesExt

CONSTANTS
    Calls,      \* the invocations of do_command_with_timeout on this engine
    NoCall,     \* no call: a free lock, an empty slot, no reply yet
    Keys,       \* the response keys (expected_response_cmd)
    AsyncKeys,  \* the keys whose replies are async packets: ACKed and re-sent
    Resent,     \* bound: the calls whose reply the dongle may send again
    MaxCopies   \* bound: how often the dongle sends one reply

ASSUME EngineAssumption ==
    /\ NoCall \notin Calls
    /\ AsyncKeys \subseteq Keys
    /\ MaxCopies \in Nat

VARIABLES
    phase,      \* phase[c]: where call c stands in do_command_with_timeout
    key,        \* key[c]: the response key call c waits for
    waiters,    \* calls blocked on cmd_lock, which tokio serves in order
    holder,     \* the call that holds cmd_lock
    pending,    \* pending_requests: the call whose sender is in each slot
    taken,      \* taken[c]: the reply that consumed the sender of call c
    up,         \* the reader task runs (no read error, no exit signal)
    asked,      \* calls whose request the dongle has and did not answer yet
    outbox,     \* replies the dongle sent and saw no ACK for, oldest first
    copies,     \* copies[c]: how often the dongle sent the reply to c
    line,       \* packets on their way from the dongle to the reader
    current,    \* the packet the reader is working on, past the resend check
    recent,     \* replies the reader remembers, in the order they came
    acks,       \* acks[k]: ACKs of k on their way to the dongle
    handled,    \* history: the replies handled
    outlived    \* history: those of which a copy came when they were forgotten

callVars == <<phase, key, waiters, holder, taken>>
readerVars == <<recent, handled, outlived>>
lineVars == <<asked, outbox, copies, line, current, acks, readerVars>>
vars == <<phase, key, waiters, holder, pending, taken, up, asked, outbox,
          copies, line, current, acks, recent, handled, outlived>>

Abandoned == {"timeout", "error", "cancelled"}
Ended == Abandoned \cup {"ok", "aborted"}
Holding == {"writing", "awaiting", "expired"}
Phases == {"unused", "queued"} \cup Holding \cup Ended

TypeOK ==
    /\ phase \in [Calls -> Phases]
    /\ key \in [Calls -> Keys]
    /\ waiters \in Seq(Calls)
    /\ holder \in Calls \cup {NoCall}
    /\ pending \in [Keys -> Calls \cup {NoCall}]
    /\ taken \in [Calls -> Calls \cup {NoCall}]
    /\ up \in BOOLEAN
    /\ asked \in SUBSET Calls
    /\ outbox \in Seq(Calls)
    /\ copies \in [Calls -> Nat]
    /\ line \in Seq(Calls)
    /\ current \in Calls \cup {NoCall}
    /\ recent \in Seq(Calls)
    /\ acks \in [Keys -> Nat]
    /\ handled \in SUBSET Calls
    /\ outlived \in SUBSET handled

Init ==
    /\ phase = [c \in Calls |-> "unused"]
    /\ key \in [Calls -> Keys]
    /\ waiters = <<>>
    /\ holder = NoCall
    /\ pending = [k \in Keys |-> NoCall]
    /\ taken = [c \in Calls |-> NoCall]
    /\ up = TRUE
    /\ asked = {}
    /\ outbox = <<>>
    /\ copies = [c \in Calls |-> 0]
    /\ line = <<>>
    /\ current = NoCall
    /\ recent = <<>>
    /\ acks = [k \in Keys |-> 0]
    /\ handled = {} /\ outlived = {}

-------------------------------------------------------------------------------
(* The calling tasks. *)

\* A task calls do_command and waits for cmd_lock behind the earlier callers.
Call(c) ==
    /\ phase[c] = "unused"
    /\ phase' = [phase EXCEPT ![c] = "queued"]
    /\ waiters' = Append(waiters, c)
    /\ UNCHANGED <<key, holder, pending, taken, up, lineVars>>

\* The lock is handed to the first waiter, which puts its sender in the slot
\* of its key (dropping whatever was there) and starts writing the packet.
GrantLock ==
    /\ waiters # <<>>
    /\ LET c == Head(waiters)
       IN /\ holder' = c
          /\ phase' = [phase EXCEPT ![c] = "writing"]
          /\ pending' = [pending EXCEPT ![key[c]] = c]
    /\ waiters' = Tail(waiters)
    /\ UNCHANGED <<key, taken, up, lineVars>>

\* Mutation of Acquire: do_command without cmd_lock.
AcquireUnlocked == GrantLock

Acquire == holder = NoCall /\ GrantLock

\* The packet reaches the dongle, or is lost without the host noticing.
Deliver(c) == asked' \in {asked, asked \cup {c}}

\* The write returns Ok.
Written(c) ==
    /\ phase[c] = "writing"
    /\ phase' = [phase EXCEPT ![c] = "awaiting"]
    /\ Deliver(c)
    /\ UNCHANGED <<key, waiters, holder, pending, taken, up,
                   outbox, copies, line, current, acks, readerVars>>

\* The write returns an error: `?` leaves at once.  The guard is dropped, the
\* slot keeps its sender, and the dongle may have the packet all the same.
WriteFailed(c) ==
    /\ phase[c] = "writing"
    /\ phase' = [phase EXCEPT ![c] = "error"]
    /\ holder' = NoCall
    /\ Deliver(c)
    /\ UNCHANGED <<key, waiters, pending, taken, up,
                   outbox, copies, line, current, acks, readerVars>>

HasReply(c) == taken[c] # NoCall

\* The sender was dropped without a reply: another one took its slot.
SenderDropped(c) == ~HasReply(c) /\ pending[key[c]] # c

\* The wait ends: with the reply, or because the oneshot channel closed.
Return(c) ==
    /\ phase[c] = "awaiting"
    /\ HasReply(c) \/ SenderDropped(c)
    /\ phase' = [phase EXCEPT ![c] = IF HasReply(c) THEN "ok" ELSE "aborted"]
    /\ holder' = NoCall
    /\ UNCHANGED <<key, waiters, pending, taken, up, lineVars>>

\* Mutation of Expire: the guard is dropped before the slot is emptied.
ExpireUnlocking(c) ==
    /\ phase[c] = "awaiting"
    /\ ~HasReply(c)
    /\ ~SenderDropped(c)
    /\ phase' = [phase EXCEPT ![c] = "expired"]
    /\ holder' = NoCall
    /\ UNCHANGED <<key, waiters, pending, taken, up, lineVars>>

\* The timer fires while no reply is there ...
Expire(c) ==
    /\ phase[c] = "awaiting"
    /\ ~HasReply(c)
    /\ ~SenderDropped(c)
    /\ phase' = [phase EXCEPT ![c] = "expired"]
    /\ UNCHANGED <<key, waiters, holder, pending, taken, up, lineVars>>

\* ... and a moment later the slot of the key is emptied.
TimedOut(c) ==
    /\ phase[c] = "expired"
    /\ phase' = [phase EXCEPT ![c] = "timeout"]
    /\ pending' = [pending EXCEPT ![key[c]] = NoCall]
    /\ holder' = NoCall
    /\ UNCHANGED <<key, waiters, taken, up, lineVars>>

\* The caller's future is dropped: by an outer timeout (the handshake's), or
\* with the HTTP request it serves.  The guard goes, the slot stays.
CancelWaiting(c) ==
    /\ phase[c] = "queued"
    /\ \E i \in DOMAIN waiters :
          /\ waiters[i] = c
          /\ waiters' = RemoveAt(waiters, i)
    /\ phase' = [phase EXCEPT ![c] = "cancelled"]
    /\ UNCHANGED <<key, holder, pending, taken, up, lineVars>>

CancelHolding(c) ==
    /\ phase[c] \in {"writing", "awaiting"}
    /\ phase' = [phase EXCEPT ![c] = "cancelled"]
    /\ holder' = NoCall
    /\ IF phase[c] = "writing" THEN Deliver(c) ELSE UNCHANGED asked
    /\ UNCHANGED <<key, waiters, pending, taken, up,
                   outbox, copies, line, current, acks, readerVars>>

-------------------------------------------------------------------------------
(* The reader task. *)

\* Mutation of PendingKey: all replies are taken for the same kind.
PendingKeyMerged(p) == CHOOSE k \in Keys : TRUE

\* The slot a packet completes: all the reader can tell of a reply.
PendingKey(p) == key[p]

\* Mutation of IsResend: every copy is handled and ACKed.
IsResendNever(p, known) == FALSE

\* Async replies nobody waits for: only of these may a copy be dropped.
Unawaited(p) == PendingKey(p) \in AsyncKeys /\ pending[PendingKey(p)] = NoCall

\* A copy of a reply that is known.  (The code compares bytes: it drops the same
\* reply to another request, too, which is one way to Lose it.)
IsResend(p, known) == Unawaited(p) /\ Contains(known, p)

\* A copy of a reply that was handled, and forgotten since: the code cannot tell.
Outlives(p, known) == Unawaited(p) /\ p \in handled /\ ~Contains(known, p)

\* The reader takes the next packet off the line.  First it forgets the replies
\* that came RESEND_WINDOW (300 ms) ago: the dongle re-sends every 160 ms and the
\* line delays packets, so that may be any, the oldest first.  A copy of one it
\* still knows is dropped, and does not renew the memory of it.  (A reply that is
\* not sent again need not be remembered.)
Inspect ==
    /\ up
    /\ current = NoCall
    /\ line # <<>>
    /\ line' = Tail(line)
    /\ \E n \in 0 .. Len(recent) :
          LET p == Head(line)
              known == SubSeq(recent, n + 1, Len(recent))
          IN /\ current' = IF IsResend(p, known) THEN NoCall ELSE p
             /\ recent' = IF ~IsResend(p, known) /\ PendingKey(p) \in AsyncKeys /\ p \in Resent
                          THEN Append(known, p) ELSE known
             /\ outlived' = IF Outlives(p, known) THEN outlived \cup {p} ELSE outlived
    /\ UNCHANGED <<callVars, pending, up, asked, outbox, copies, acks, handled>>

\* The ACK of an async packet is written; the line may lose it.
Acknowledge(k) ==
    acks' \in IF k \in AsyncKeys THEN {acks, [acks EXCEPT ![k] = @ + 1]}
                                 ELSE {acks}

\* handle_packet: the packet completes whatever request its key's slot holds,
\* and is acknowledged.
HandlePacket ==
    /\ current # NoCall
    /\ LET k == PendingKey(current)
           q == pending[k]
       IN /\ pending' = [pending EXCEPT ![k] = NoCall]
          /\ taken' = IF q = NoCall THEN taken
                                    ELSE [taken EXCEPT ![q] = current]
          /\ Acknowledge(k)
    /\ handled' = handled \cup {current}
    /\ current' = NoCall
    /\ UNCHANGED <<phase, key, waiters, holder, up, asked, outbox, copies, line,
                   recent, outlived>>

\* A read error or the exit signal ends the reader; callers are not told.
ReaderStops ==
    /\ up
    /\ current = NoCall
    /\ up' = FALSE
    /\ UNCHANGED <<callVars, pending, lineVars>>

-------------------------------------------------------------------------------
(* The dongle and the line to the host. *)

\* The dongle answers a request, whenever it gets to it.
Answer(c) ==
    /\ c \in asked
    /\ asked' = asked \ {c}
    /\ copies[c] < MaxCopies
    /\ copies' = [copies EXCEPT ![c] = @ + 1]
    /\ line' = Append(line, c)
    /\ outbox' = IF key[c] \in AsyncKeys THEN Append(outbox, c) ELSE outbox
    /\ UNCHANGED <<callVars, pending, up, current, acks, readerVars>>

\* It saw no ACK for a reply and sends it again.
Resend(c) ==
    /\ c \in Resent
    /\ \E i \in DOMAIN outbox : outbox[i] = c
    /\ copies[c] < MaxCopies
    /\ copies' = [copies EXCEPT ![c] = @ + 1]
    /\ line' = Append(line, c)
    /\ UNCHANGED <<callVars, pending, up, asked, outbox, current, acks, readerVars>>

\* An ACK names only a command: the dongle takes it for the oldest reply of
\* that kind it has no ACK for.
ForgetOldest(k) ==
    LET mine == {i \in DOMAIN outbox : key[outbox[i]] = k}
    IN IF mine = {} THEN UNCHANGED outbox
       ELSE \E i \in mine : /\ \A j \in mine : i <= j
                            /\ outbox' = RemoveAt(outbox, i)

ReceiveAck(k) ==
    /\ acks' = [acks EXCEPT ![k] = @ - 1]
    /\ ForgetOldest(k)
    /\ UNCHANGED <<callVars, pending, up, asked, copies, line, current, readerVars>>

TakeAck(k) == acks[k] > 0 /\ ReceiveAck(k)

\* The line loses a packet.
Lose ==
    /\ \E i \in DOMAIN line : line' = RemoveAt(line, i)
    /\ UNCHANGED <<callVars, pending, up, asked, outbox, copies, current,
                   acks, readerVars>>

-------------------------------------------------------------------------------
Caller(c) ==
    \/ Call(c)
    \/ Written(c)
    \/ WriteFailed(c)
    \/ Return(c)
    \/ Expire(c)
    \/ TimedOut(c)
    \/ CancelWaiting(c)
    \/ CancelHolding(c)

Dongle(c) == Answer(c) \/ Resend(c)

Next ==
    \/ Acquire
    \/ \E c \in Calls : Caller(c)
    \/ Inspect
    \/ HandlePacket
    \/ ReaderStops
    \/ \E c \in Calls : Dongle(c)
    \/ \E k \in Keys : TakeAck(k)
    \/ Lose

Spec == Init /\ [][Next]_vars

\* The runtime wakes the first waiter, a write returns, a timer fires, and a
\* woken task runs on.  Nothing is assumed of the dongle, the line or the
\* reader: a call must end whatever they do.
Fairness ==
    /\ WF_vars(Acquire)
    /\ \A c \in Calls :
          /\ WF_vars(Written(c) \/ WriteFailed(c))
          /\ WF_vars(Return(c))
          /\ WF_vars(Expire(c))
          /\ WF_vars(TimedOut(c))

FairSpec == Spec /\ Fairness

-------------------------------------------------------------------------------
(* Properties. *)

\* What cmd_lock is for (the comment on the field): a call that waits for its
\* reply has its sender in the slot of its key until a reply takes it out.  No
\* other call clobbers it, and no call ever ends with "Oneshot channel closed".
WaiterKeepsSlot ==
    \A c \in Calls :
        /\ phase[c] \in {"writing", "awaiting"} => HasReply(c) \/ pending[key[c]] = c
        /\ phase[c] # "aborted"

\* A call is between taking and releasing cmd_lock exactly while it holds it.
LockInv == \A c \in Calls : phase[c] \in Holding <=> holder = c

\* A sender sits in the slot of the key its call waits for.
SlotInv == \A k \in Keys : pending[k] # NoCall => key[pending[k]] = k

\* The inductive invariant behind WaiterKeepsSlot: since at most one call is
\* past cmd_lock, nobody else can overwrite or empty the slot it waits on.
SlotIInv == TypeOK /\ LockInv /\ SlotInv /\ WaiterKeepsSlot

\* A call got a reply that was not the answer to it.
Misdelivered(c) == taken[c] \notin {NoCall, c}

\* A reply reaches the wrong call only in one of three ways: the call it
\* answers had given up, the dongle sent it more than once, or that call was
\* itself served with an earlier reply (one late reply shifts all that follow).
MisdeliveryExplained ==
    \A c \in Calls :
        Misdelivered(c) => LET d == taken[c]
                           IN /\ key[d] = key[c]
                              /\ \/ phase[d] \in Abandoned \cup {"expired"}
                                 \/ copies[d] > 1
                                 \/ Misdelivered(d)

\* The dongle believes its reply to c was acknowledged and will not send it
\* again, but the host never got it.
Silenced(c) ==
    /\ copies[c] > 0
    /\ key[c] \in AsyncKeys
    /\ \A i \in DOMAIN outbox : outbox[i] # c
    /\ \A i \in DOMAIN line : line[i] # c
    /\ current # c
    /\ c \notin handled

\* Why resends are dropped unACKed (comment of is_resend): the ACK of a copy is
\* not mistaken for the ACK of a newer reply somebody waits for, unless a call
\* for the same key was given up or served with the wrong reply before, or a copy
\* of another reply outlived the memory: only the copies that come within
\* RESEND_WINDOW of the first are dropped.
SilencedExplained ==
    \A c \in Calls :
        phase[c] = "awaiting" /\ ~HasReply(c) /\ Silenced(c) =>
            \E d \in Calls \ {c} :
                /\ key[d] = key[c]
                /\ phase[d] \in Abandoned \/ Misdelivered(d) \/ d \in outlived

\* The engine implements the command service: one call at a time, in order.
ServiceState(p) ==
    CASE p = "unused" -> "idle"
      [] p = "queued" -> "waiting"
      [] p \in Holding -> "served"
      [] OTHER -> p

Service == INSTANCE CommandService
             WITH state <- [c \in Calls |-> ServiceState(phase[c])],
                  turn <- waiters,
                  serving <- holder

ImplementsService == Service!ServiceSpec
===============================================================================
