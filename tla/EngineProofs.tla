------------------------------ MODULE EngineProofs ------------------------------
(***************************************************************************)
(* Theorems about the engines: the commands of one (EngineCommands), for   *)
(* any number of calls, any response keys and any number of resends; and   *)
(* the scans and pairings of all (Scanning), for any number of dongles,    *)
(* requests and upsets.                                                    *)
(***************************************************************************)
EXTENDS EngineCommands, Scanning, FiniteSets, SequenceTheorems, FiniteSetTheorems, TLAPS

\* Removing an element of a sequence leaves a sequence over the same set (used
\* for a waiter that gives up, a lost packet, an acknowledged reply).
LEMMA RemoveAtType ==
    ASSUME NEW S, NEW s \in Seq(S), NEW i \in DOMAIN s
    PROVE  RemoveAt(s, i) \in Seq(S)
<1>1. i \in 1 .. Len(s)
  OBVIOUS
<1>2. SubSeq(s, 1, i - 1) \in Seq(S)
  BY <1>1, SubSeqProperties
<1>3. SubSeq(s, i + 1, Len(s)) \in Seq(S)
  BY <1>1, SubSeqProperties
<1>4. QED
  BY <1>2, <1>3, ConcatProperties DEF RemoveAt

\* Every variable keeps its type, whatever the callers, the reader, the line
\* and the dongle do.
THEOREM TypeCorrect == Spec => []TypeOK
<1>1. Init => TypeOK
  BY EngineAssumption DEF Init, TypeOK, Phases
<1>2. TypeOK /\ [Next]_vars => TypeOK'
  <2> SUFFICES ASSUME TypeOK, [Next]_vars PROVE TypeOK'
    OBVIOUS
  <2> USE EngineAssumption DEF TypeOK, Phases, Holding, Ended, Abandoned, callVars, lineVars, readerVars
  <2>1. CASE Acquire
    BY <2>1, HeadTailProperties DEF Acquire, GrantLock
  <2>2. ASSUME NEW c \in Calls, Call(c) PROVE TypeOK'
    BY <2>2 DEF Call
  <2>3. ASSUME NEW c \in Calls, Written(c) PROVE TypeOK'
    BY <2>3 DEF Written, Deliver
  <2>4. ASSUME NEW c \in Calls, WriteFailed(c) PROVE TypeOK'
    BY <2>4 DEF WriteFailed, Deliver
  <2>5. ASSUME NEW c \in Calls, Return(c) PROVE TypeOK'
    BY <2>5 DEF Return
  <2>6. ASSUME NEW c \in Calls, Expire(c) PROVE TypeOK'
    BY <2>6 DEF Expire
  <2>7. ASSUME NEW c \in Calls, TimedOut(c) PROVE TypeOK'
    BY <2>7 DEF TimedOut
  <2>8. ASSUME NEW c \in Calls, CancelWaiting(c) PROVE TypeOK'
    BY <2>8, RemoveAtType DEF CancelWaiting
  <2>9. ASSUME NEW c \in Calls, CancelHolding(c) PROVE TypeOK'
    BY <2>9 DEF CancelHolding, Deliver
  <2>10. CASE Inspect
    <3>1. line # <<>> /\ Head(line) \in Calls /\ line' = Tail(line) /\ line' \in Seq(Calls)
      BY <2>10, HeadTailProperties DEF Inspect
    <3>2. PICK n \in 0 .. Len(recent) :
            LET p == Head(line)
                known == SubSeq(recent, n + 1, Len(recent))
            IN /\ current' \in {NoCall, p}
               /\ recent' \in {known, Append(known, p)}
               /\ outlived' = IF Outlives(p, known) THEN outlived \cup {p} ELSE outlived
      BY <2>10 DEF Inspect
    <3>3. recent' \in Seq(Calls)
      <4> DEFINE known == SubSeq(recent, n + 1, Len(recent))
      <4>1. known \in Seq(Calls)
        BY SubSeqProperties
      <4>2. recent' \in {known, Append(known, Head(line))}
        BY <3>2
      <4> HIDE DEF known
      <4>3. Append(known, Head(line)) \in Seq(Calls)
        BY <3>1, <4>1, AppendProperties
      <4>4. QED
        BY <4>1, <4>2, <4>3
    <3>4. outlived' \in SUBSET handled
      BY <3>2 DEF Outlives
    <3>5. QED
      BY <2>10, <3>1, <3>2, <3>3, <3>4 DEF Inspect
  <2>11. CASE HandlePacket
    <3>1. current \in Calls
      BY <2>11 DEF HandlePacket
    <3> DEFINE k == PendingKey(current)
    <3>2. k \in Keys
      BY <3>1 DEF PendingKey
    <3>3. acks' \in [Keys -> Nat]
      BY <2>11, <3>2 DEF HandlePacket, Acknowledge
    <3>4. taken' \in [Calls -> Calls \cup {NoCall}]
      BY <2>11, <3>1, <3>2 DEF HandlePacket
    <3>5. pending' \in [Keys -> Calls \cup {NoCall}]
      BY <2>11, <3>2 DEF HandlePacket
    <3>6. QED
      BY <2>11, <3>1, <3>3, <3>4, <3>5 DEF HandlePacket
  <2>12. CASE ReaderStops
    BY <2>12 DEF ReaderStops
  <2>13. ASSUME NEW c \in Calls, Answer(c) PROVE TypeOK'
    BY <2>13 DEF Answer
  <2>14. ASSUME NEW c \in Calls, Resend(c) PROVE TypeOK'
    <3>1. line' \in Seq(Calls)
      BY <2>14, AppendProperties DEF Resend
    <3>2. copies' \in [Calls -> Nat]
      BY <2>14 DEF Resend
    <3>3. UNCHANGED <<callVars, pending, up, asked, outbox, current, acks, readerVars>>
      BY <2>14 DEF Resend
    <3>4. QED
      BY <3>1, <3>2, <3>3
  <2>15. ASSUME NEW k \in Keys, TakeAck(k) PROVE TypeOK'
    <3>1. acks' \in [Keys -> Nat]
      BY <2>15 DEF TakeAck, ReceiveAck
    <3>2. outbox' \in Seq(Calls)
      BY <2>15, RemoveAtType DEF TakeAck, ReceiveAck, ForgetOldest
    <3>3. QED
      BY <2>15, <3>1, <3>2 DEF TakeAck, ReceiveAck
  <2>16. CASE Lose
    BY <2>16, RemoveAtType DEF Lose
  <2>17. CASE UNCHANGED vars
    BY <2>17 DEF vars
  <2>18. QED
    BY <2>1, <2>2, <2>3, <2>4, <2>5, <2>6, <2>7, <2>8, <2>9, <2>10, <2>11,
       <2>12, <2>13, <2>14, <2>15, <2>16, <2>17
    DEF Next, Caller, Dongle
<1>3. QED
  BY <1>1, <1>2, PTL DEF Spec

-------------------------------------------------------------------------------
\* Actions that touch neither the callers nor the slots preserve SlotIInv.
LEMMA SlotIInvFrame ==
    ASSUME SlotIInv, TypeOK', UNCHANGED <<callVars, pending>>
    PROVE  SlotIInv'
BY DEF SlotIInv, LockInv, SlotInv, WaiterKeepsSlot, HasReply, callVars

\* The initial state has no call on its way and no sender in any slot.
LEMMA SlotIInvInit == Init => SlotIInv
<1> SUFFICES ASSUME Init PROVE SlotIInv
  OBVIOUS
<1>1. TypeOK
  BY EngineAssumption DEF Init, TypeOK, Phases
<1>2. LockInv /\ SlotInv /\ WaiterKeepsSlot
  BY EngineAssumption DEF Init, LockInv, SlotInv, WaiterKeepsSlot, Holding
<1>3. QED
  BY <1>1, <1>2 DEF SlotIInv

\* The step that matters: the lock is free, so nobody waits on any slot when
\* the first waiter fills its own.
LEMMA SlotIInvAcquire ==
    ASSUME SlotIInv, TypeOK', Acquire
    PROVE  SlotIInv'
<1> DEFINE c == Head(waiters)
<1>1. /\ c \in Calls
      /\ holder = NoCall
      /\ holder' = c
      /\ phase' = [phase EXCEPT ![c] = "writing"]
      /\ pending' = [pending EXCEPT ![key[c]] = c]
      /\ UNCHANGED <<key, taken>>
  BY HeadTailProperties DEF Acquire, GrantLock, SlotIInv, TypeOK
<1>2. \A d \in Calls : phase[d] \notin Holding
  BY <1>1, EngineAssumption DEF SlotIInv, LockInv
<1>3. LockInv'
  BY <1>1, <1>2, EngineAssumption DEF LockInv, SlotIInv, TypeOK, Holding
<1>4. SlotInv'
  BY <1>1, EngineAssumption DEF SlotInv, SlotIInv, TypeOK
<1>5. WaiterKeepsSlot'
  BY <1>1, <1>2 DEF WaiterKeepsSlot, HasReply, SlotIInv, TypeOK, Holding
<1>6. QED
  BY <1>3, <1>4, <1>5 DEF SlotIInv

\* The reader empties a slot only together with handing over its reply.
LEMMA SlotIInvHandlePacket ==
    ASSUME SlotIInv, TypeOK', HandlePacket
    PROVE  SlotIInv'
<1> DEFINE k == PendingKey(current)
           q == pending[k]
<1>1. /\ current \in Calls
      /\ k \in Keys
      /\ q \in Calls \cup {NoCall}
      /\ pending' = [pending EXCEPT ![k] = NoCall]
      /\ taken' = IF q = NoCall THEN taken ELSE [taken EXCEPT ![q] = current]
      /\ UNCHANGED <<phase, key, holder>>
  BY DEF HandlePacket, SlotIInv, TypeOK, PendingKey
<1>2. LockInv'
  BY <1>1 DEF LockInv, SlotIInv
<1>3. SlotInv'
  BY <1>1 DEF SlotInv, SlotIInv, TypeOK
<1>4. WaiterKeepsSlot'
  <2> SUFFICES ASSUME NEW d \in Calls
               PROVE  /\ phase[d] \in {"writing", "awaiting"} =>
                           HasReply(d)' \/ pending'[key[d]] = d
                      /\ phase[d] # "aborted"
    BY <1>1 DEF WaiterKeepsSlot
  <2>1. phase[d] # "aborted"
    BY DEF SlotIInv, WaiterKeepsSlot
  <2>2. ASSUME HasReply(d) PROVE HasReply(d)'
    BY <1>1, <2>2, EngineAssumption DEF HasReply, SlotIInv, TypeOK
  <2>3. ASSUME pending[key[d]] = d, ~HasReply(d)
        PROVE  HasReply(d)' \/ pending'[key[d]] = d
    <3>1. key[d] \in Keys
      BY DEF SlotIInv, TypeOK
    <3>2. CASE key[d] = k
      BY <1>1, <2>3, <3>2, EngineAssumption DEF HasReply, SlotIInv, TypeOK
    <3>3. CASE key[d] # k
      BY <1>1, <2>3, <3>1, <3>3 DEF SlotIInv, TypeOK
    <3>4. QED
      BY <3>2, <3>3
  <2>4. QED
    BY <2>1, <2>2, <2>3 DEF SlotIInv, WaiterKeepsSlot
<1>5. QED
  BY <1>2, <1>3, <1>4 DEF SlotIInv

\* A call that leaves takes only its own place and, on a timeout, only its own
\* slot: it holds the lock, so no other call waits.
LEMMA SlotIInvCaller ==
    ASSUME SlotIInv, TypeOK', NEW c \in Calls, Caller(c)
    PROVE  SlotIInv'
<1> USE EngineAssumption
    DEF SlotIInv, LockInv, SlotInv, WaiterKeepsSlot, HasReply, Holding, lineVars, readerVars
<1>1. CASE Call(c)
  BY <1>1 DEF Call, TypeOK
<1>2. CASE Written(c)
  BY <1>2 DEF Written, TypeOK
<1>3. CASE WriteFailed(c)
  BY <1>3 DEF WriteFailed, TypeOK
<1>4. CASE Return(c)
  BY <1>4 DEF Return, SenderDropped, TypeOK
<1>5. CASE Expire(c)
  BY <1>5 DEF Expire, TypeOK
<1>6. CASE TimedOut(c)
  BY <1>6 DEF TimedOut, TypeOK
<1>7. CASE CancelWaiting(c)
  BY <1>7 DEF CancelWaiting, TypeOK
<1>8. CASE CancelHolding(c)
  BY <1>8 DEF CancelHolding, TypeOK
<1>9. QED
  BY <1>1, <1>2, <1>3, <1>4, <1>5, <1>6, <1>7, <1>8 DEF Caller

LEMMA SlotInvariant == Spec => []SlotIInv
<1>1. SlotIInv /\ [Next]_vars /\ TypeOK' => SlotIInv'
  <2> SUFFICES ASSUME SlotIInv, [Next]_vars, TypeOK' PROVE SlotIInv'
    OBVIOUS
  <2>1. CASE Acquire
    BY <2>1, SlotIInvAcquire
  <2>2. ASSUME NEW c \in Calls, Caller(c) PROVE SlotIInv'
    BY <2>2, SlotIInvCaller
  <2>3. CASE HandlePacket
    BY <2>3, SlotIInvHandlePacket
  <2>4. CASE Inspect \/ ReaderStops \/ Lose
    BY <2>4, SlotIInvFrame DEF Inspect, ReaderStops, Lose
  <2>5. ASSUME NEW c \in Calls, Dongle(c) PROVE SlotIInv'
    BY <2>5, SlotIInvFrame DEF Dongle, Answer, Resend
  <2>6. ASSUME NEW k \in Keys, TakeAck(k) PROVE SlotIInv'
    BY <2>6, SlotIInvFrame DEF TakeAck, ReceiveAck
  <2>7. CASE UNCHANGED vars
    BY <2>7, SlotIInvFrame DEF vars, callVars
  <2>8. QED
    BY <2>1, <2>2, <2>3, <2>4, <2>5, <2>6, <2>7 DEF Next
<1>2. QED
  BY <1>1, SlotIInvInit, TypeCorrect, PTL DEF Spec
-------------------------------------------------------------------------------
\* No call's slot is taken from under it and no call ends with a closed
\* channel: the promise made in the comment on Engine::cmd_lock.
THEOREM SlotSafety == Spec => []WaiterKeepsSlot
BY SlotInvariant, PTL DEF SlotIInv

-------------------------------------------------------------------------------
\* Call c is an element of s, and not two of its elements.
Has(s, c) == \E i \in DOMAIN s : s[i] = c
Once(s, c) == \A i, j \in DOMAIN s : s[i] = c /\ s[j] = c => i = j

\* Call c is in s and not behind d.
Before(s, c, d) == \E i, j \in DOMAIN s : i <= j /\ s[i] = c /\ s[j] = d

\* A call waits for its turn once, and only before it is served.
QueueInv ==
    \A c \in Calls : Once(waiters, c) /\ (Has(waiters, c) => phase[c] = "queued")

\* Where the replies to c are: nowhere before the dongle sent one, and one that
\* was sent once is at one place.
SentInv ==
    \A c \in Calls :
        /\ phase[c] \in {"unused", "queued", "writing"} =>
              c \notin asked /\ copies[c] = 0
        /\ c \in asked => copies[c] = 0
        /\ copies[c] = 0 => /\ ~Has(line, c) /\ ~Has(outbox, c)
                            /\ current # c /\ c \notin handled
        /\ copies[c] = 1 => /\ Once(line, c)
                            /\ Has(line, c) => current # c /\ c \notin handled
                            /\ current = c => c \notin handled
        /\ Once(outbox, c)

\* A call gets one reply, of its kind, out of its own slot.
ReplyInv ==
    \A c \in Calls :
        /\ HasReply(c) => taken[c] \in handled /\ key[taken[c]] = key[c]
        /\ HasReply(c) => pending[key[c]] # c
        /\ phase[c] = "ok" => HasReply(c)
        /\ phase[c] = "expired" => HasReply(c) \/ pending[key[c]] = c
        /\ phase[c] \in {"unused", "queued"} => ~HasReply(c) /\ pending[key[c]] # c

\* The inductive invariant behind MisdeliveryExplained.
DeliveryIInv == SlotIInv /\ QueueInv /\ SentInv /\ ReplyInv /\ MisdeliveryExplained

\* Something went wrong with a call for key k: it was given up, it was served with
\* the reply to another, or a copy of the reply to it outlived the memory of it.
Upset(k) ==
    \E d \in Calls :
        key[d] = k /\ (phase[d] \in Abandoned \/ Misdelivered(d) \/ d \in outlived)

\* The replies of kind k that were handled and that the dongle has no ACK for.
Owed(k) == {d \in handled : key[d] = k /\ Has(outbox, d)}

\* As long as nothing went wrong, the dongle's bookkeeping of ACKs by kind is
\* right: an ACK on its way is one for the oldest reply.
AckRight(k) ==
    /\ \A d \in Calls : key[d] = k /\ copies[d] > 0 /\ d \notin handled => Has(outbox, d)
    /\ acks[k] <= Cardinality(Owed(k))
    /\ \A d, e \in Calls :
          /\ Before(outbox, d, e)
          /\ key[d] = k /\ key[e] = k
          /\ e \in handled
          => d \in handled
    /\ \A d \in handled : key[d] = k => taken[d] = d
    /\ current # NoCall /\ key[current] = k /\ current \in handled =>
          pending[k] # NoCall

AckInv == \A k \in AsyncKeys : Upset(k) \/ AckRight(k)

\* The inductive invariant behind SilencedExplained.
SilenceIInv == DeliveryIInv /\ IsFiniteSet(handled) /\ AckInv

-------------------------------------------------------------------------------
\* What appending, taking the first element and removing one do to Has and Once.
LEMMA HasAppend ==
    ASSUME NEW S, NEW s \in Seq(S), NEW e \in S, NEW c
    PROVE  /\ Has(Append(s, e), c) <=> Has(s, c) \/ e = c
           /\ Once(s, c) /\ ~(Has(s, c) /\ e = c) => Once(Append(s, e), c)
<1>1. /\ DOMAIN s = 1 .. Len(s) /\ DOMAIN Append(s, e) = 1 .. Len(s) + 1
      /\ Len(s) \in Nat
      /\ Append(s, e)[Len(s) + 1] = e
      /\ \A i \in 1 .. Len(s) : Append(s, e)[i] = s[i]
  BY AppendProperties, LenProperties
<1>2. Has(Append(s, e), c) <=> Has(s, c) \/ e = c
  BY <1>1 DEF Has
<1>3. Once(s, c) /\ ~(Has(s, c) /\ e = c) => Once(Append(s, e), c)
  BY <1>1 DEF Has, Once
<1>4. QED
  BY <1>2, <1>3

LEMMA HasTail ==
    ASSUME NEW S, NEW s \in Seq(S), s # <<>>, NEW c
    PROVE  /\ Has(Tail(s), c) => Has(s, c)
           /\ Once(s, c) => Once(Tail(s), c) /\ (Head(s) = c => ~Has(Tail(s), c))
           /\ Has(s, c) => Head(s) = c \/ Has(Tail(s), c)
           /\ Has(s, Head(s))
<1>1. /\ DOMAIN s = 1 .. Len(s) /\ DOMAIN Tail(s) = 1 .. Len(s) - 1
      /\ Len(s) \in Nat \ {0}
      /\ Head(s) = s[1]
      /\ \A i \in 1 .. Len(s) - 1 : Tail(s)[i] = s[i + 1]
  BY HeadTailProperties, EmptySeq, LenProperties
<1>2. /\ Has(Tail(s), c) => Has(s, c)
      /\ Has(s, Head(s))
  BY <1>1 DEF Has
<1>3. ASSUME Has(s, c), Head(s) # c PROVE Has(Tail(s), c)
  <2>1. PICK i \in 1 .. Len(s) : s[i] = c
    BY <1>1, <1>3 DEF Has
  <2>2. i - 1 \in 1 .. Len(s) - 1 /\ (i - 1) + 1 = i
    BY <1>1, <1>3, <2>1
  <2>3. i - 1 \in DOMAIN Tail(s) /\ Tail(s)[i - 1] = c
    BY <1>1, <2>1, <2>2
  <2>4. QED
    BY <2>3 DEF Has
<1>4. Once(s, c) => Once(Tail(s), c) /\ (Head(s) = c => ~Has(Tail(s), c))
  <2> SUFFICES ASSUME Once(s, c)
               PROVE  Once(Tail(s), c) /\ (Head(s) = c => ~Has(Tail(s), c))
    OBVIOUS
  <2>1. ASSUME NEW i \in DOMAIN Tail(s), NEW j \in DOMAIN Tail(s),
               Tail(s)[i] = c, Tail(s)[j] = c
        PROVE  i = j
    <3>1. i + 1 \in DOMAIN s /\ j + 1 \in DOMAIN s /\ s[i + 1] = c /\ s[j + 1] = c
      BY <1>1, <2>1
    <3>2. i + 1 = j + 1
      BY <3>1 DEF Once
    <3>3. QED
      BY <1>1, <3>2
  <2>2. ASSUME Head(s) = c, NEW i \in DOMAIN Tail(s), Tail(s)[i] = c PROVE FALSE
    <3>1. i \in 1 .. Len(s) - 1 /\ i + 1 \in DOMAIN s /\ 1 \in DOMAIN s
      BY <1>1, <2>2
    <3>2. s[i + 1] = c /\ s[1] = c
      BY <1>1, <2>2, <3>1
    <3>3. i + 1 = 1
      BY <3>1, <3>2 DEF Once
    <3>4. QED
      BY <1>1, <3>1, <3>3
  <2>3. QED
    BY <2>1, <2>2 DEF Once, Has
<1>5. QED
  BY <1>2, <1>3, <1>4

LEMMA RemoveAtEntries ==
    ASSUME NEW S, NEW s \in Seq(S), NEW i \in DOMAIN s
    PROVE  /\ Len(RemoveAt(s, i)) = Len(s) - 1
           /\ DOMAIN RemoveAt(s, i) = 1 .. Len(s) - 1
           /\ \A j \in 1 .. Len(s) - 1 :
                 RemoveAt(s, i)[j] = IF j < i THEN s[j] ELSE s[j + 1]
<1> DEFINE a == SubSeq(s, 1, i - 1)
           b == SubSeq(s, i + 1, Len(s))
<1>1. i \in 1 .. Len(s) /\ Len(s) \in Nat
  BY LenProperties
<1>2. /\ a \in Seq(S) /\ Len(a) = i - 1
      /\ \A j \in 1 .. i - 1 : a[j] = s[j]
  BY <1>1, SubSeqProperties
<1>3. /\ b \in Seq(S) /\ Len(b) = Len(s) - i
      /\ \A j \in 1 .. Len(s) - i : b[j] = s[i + j]
  BY <1>1, SubSeqProperties
<1> HIDE DEF a, b
<1>4. /\ a \o b \in Seq(S) /\ Len(a \o b) = Len(s) - 1
      /\ \A j \in 1 .. Len(s) - 1 :
            (a \o b)[j] = IF j < i THEN a[j] ELSE b[j - (i - 1)]
  <2>1. /\ a \o b \in Seq(S) /\ Len(a \o b) = Len(a) + Len(b)
        /\ \A j \in 1 .. Len(a) + Len(b) :
              (a \o b)[j] = IF j <= Len(a) THEN a[j] ELSE b[j - Len(a)]
    BY <1>2, <1>3, ConcatProperties
  <2>2. Len(a) = i - 1 /\ Len(a) + Len(b) = Len(s) - 1
    BY <1>1, <1>2, <1>3
  <2>3. \A j \in 1 .. Len(s) - 1 : j <= i - 1 <=> j < i
    BY <1>1
  <2>4. QED
    BY <2>1, <2>2, <2>3
<1>5. \A j \in 1 .. Len(s) - 1 : (a \o b)[j] = IF j < i THEN s[j] ELSE s[j + 1]
  <2> SUFFICES ASSUME NEW j \in 1 .. Len(s) - 1
               PROVE  (a \o b)[j] = IF j < i THEN s[j] ELSE s[j + 1]
    OBVIOUS
  <2>1. CASE j < i
    BY <1>1, <1>2, <1>4, <2>1
  <2>2. CASE ~(j < i)
    <3>1. j - (i - 1) \in 1 .. Len(s) - i /\ i + (j - (i - 1)) = j + 1
      BY <1>1, <2>2
    <3>2. QED
      BY <1>3, <1>4, <2>2, <3>1
  <2>3. QED
    BY <2>1, <2>2
<1>6. RemoveAt(s, i) = a \o b
  BY DEF RemoveAt, a, b
<1>7. QED
  BY <1>4, <1>5, <1>6, LenProperties

LEMMA HasRemoveAt ==
    ASSUME NEW S, NEW s \in Seq(S), NEW i \in DOMAIN s, NEW c
    PROVE  /\ Has(RemoveAt(s, i), c) => Has(s, c)
           /\ Has(s, c) => s[i] = c \/ Has(RemoveAt(s, i), c)
           /\ Once(s, c) => /\ Once(RemoveAt(s, i), c)
                            /\ s[i] = c => ~Has(RemoveAt(s, i), c)
<1> DEFINE r == RemoveAt(s, i)
           From(j) == IF j < i THEN j ELSE j + 1
<1>1. i \in 1 .. Len(s) /\ DOMAIN s = 1 .. Len(s) /\ Len(s) \in Nat
  BY LenProperties
<1>2. /\ DOMAIN r = 1 .. Len(s) - 1
      /\ \A j \in DOMAIN r : From(j) \in DOMAIN s /\ From(j) # i /\ r[j] = s[From(j)]
  BY <1>1, RemoveAtEntries
<1>3. \A j, k \in DOMAIN r : From(j) = From(k) => j = k
  BY <1>1, <1>2
<1>4. \A j \in DOMAIN s \ {i} : \E k \in DOMAIN r : From(k) = j
  <2> SUFFICES ASSUME NEW j \in DOMAIN s \ {i} PROVE \E k \in DOMAIN r : From(k) = j
    OBVIOUS
  <2>1. CASE j < i
    <3>1. j \in DOMAIN r /\ From(j) = j
      BY <1>1, <1>2, <2>1
    <3>2. QED
      BY <3>1
  <2>2. CASE ~(j < i)
    <3>1. j - 1 \in DOMAIN r /\ From(j - 1) = j
      BY <1>1, <1>2, <2>2
    <3>2. QED
      BY <3>1
  <2>3. QED
    BY <2>1, <2>2
<1> HIDE DEF r, From
<1>5. Has(r, c) => Has(s, c)
  BY <1>2 DEF Has
<1>6. Has(s, c) => s[i] = c \/ Has(r, c)
  BY <1>2, <1>4 DEF Has
<1>7. Once(s, c) => Once(r, c) /\ (s[i] = c => ~Has(r, c))
  BY <1>2, <1>3 DEF Has, Once
<1>8. QED
  BY <1>5, <1>6, <1>7 DEF r

-------------------------------------------------------------------------------
\* What a step of the queue's lock does to the calls that wait.
LEMMA QueueStep ==
    ASSUME SlotIInv, QueueInv, [Next]_vars
    PROVE  QueueInv'
<1> USE DEF SlotIInv
<1>1. CASE Acquire
  <2>1. /\ waiters \in Seq(Calls) /\ waiters # <<>>
        /\ Head(waiters) \in Calls
        /\ phase' = [phase EXCEPT ![Head(waiters)] = "writing"]
        /\ waiters' = Tail(waiters)
    BY <1>1, HeadTailProperties DEF Acquire, GrantLock, TypeOK
  <2>2. QED
    BY <2>1, HasTail DEF QueueInv, TypeOK
<1>2. ASSUME NEW c \in Calls, Call(c) PROVE QueueInv'
  <2>1. waiters \in Seq(Calls) /\ ~Has(waiters, c)
    BY <1>2 DEF Call, QueueInv, TypeOK
  <2>2. QED
    BY <1>2, <2>1, HasAppend DEF Call, QueueInv, TypeOK
<1>3. ASSUME NEW c \in Calls, CancelWaiting(c) PROVE QueueInv'
  <2>1. PICK i \in DOMAIN waiters : waiters[i] = c /\ waiters' = RemoveAt(waiters, i)
    BY <1>3 DEF CancelWaiting
  <2>2. waiters \in Seq(Calls) /\ phase' = [phase EXCEPT ![c] = "cancelled"]
    BY <1>3 DEF CancelWaiting, TypeOK
  <2>3. QED
    BY <2>1, <2>2, HasRemoveAt DEF QueueInv, TypeOK
<1>4. ASSUME NEW c \in Calls,
             \/ Written(c) \/ WriteFailed(c) \/ Return(c) \/ Expire(c)
             \/ TimedOut(c) \/ CancelHolding(c)
      PROVE  QueueInv'
  <2>1. phase[c] # "queued" /\ UNCHANGED waiters
    BY <1>4 DEF Written, WriteFailed, Return, Expire, TimedOut, CancelHolding
  <2>2. \A d \in Calls \ {c} : phase'[d] = phase[d]
    BY <1>4 DEF Written, WriteFailed, Return, Expire, TimedOut, CancelHolding, TypeOK
  <2>3. QED
    BY <2>1, <2>2 DEF QueueInv
<1>5. CASE UNCHANGED <<phase, waiters>>
  BY <1>5 DEF QueueInv
<1>6. QED
  BY <1>1, <1>2, <1>3, <1>4, <1>5
  DEF Next, Caller, Inspect, HandlePacket, ReaderStops, Dongle, Answer, Resend,
      TakeAck, ReceiveAck, Lose, callVars, vars

\* The phases in which the dongle cannot have the request.
Unsent == {"unused", "queued", "writing"}

\* A call whose request is not sent goes on, and nothing else moves.
LEMMA SentFrame ==
    ASSUME SentInv, UNCHANGED lineVars,
           \A c \in Calls : phase'[c] \in Unsent => phase[c] \in Unsent
    PROVE  SentInv'
BY DEF SentInv, lineVars, readerVars, Unsent

LEMMA SentCaller ==
    ASSUME SlotIInv, SentInv, NEW c \in Calls, Caller(c)
    PROVE  SentInv'
<1> USE DEF SlotIInv, TypeOK, Unsent
<1>1. CASE Call(c)
  BY <1>1, SentFrame DEF Call
<1>2. CASE Return(c)
  BY <1>2, SentFrame DEF Return
<1>3. CASE Expire(c)
  BY <1>3, SentFrame DEF Expire
<1>4. CASE TimedOut(c)
  BY <1>4, SentFrame DEF TimedOut
<1>5. CASE CancelWaiting(c)
  BY <1>5, SentFrame DEF CancelWaiting
<1>6. CASE Written(c) \/ WriteFailed(c) \/ CancelHolding(c)
  <2>1. /\ phase[c] # "writing" => UNCHANGED asked
        /\ asked' \in {asked, asked \cup {c}}
        /\ phase'[c] \notin Unsent
        /\ \A d \in Calls \ {c} : phase'[d] = phase[d]
        /\ UNCHANGED <<outbox, copies, line, current, handled>>
    BY <1>6 DEF Written, WriteFailed, CancelHolding, Deliver, readerVars
  <2>2. QED
    BY <2>1 DEF SentInv
<1>7. QED
  BY <1>1, <1>2, <1>3, <1>4, <1>5, <1>6 DEF Caller

LEMMA SentReader ==
    ASSUME SlotIInv, SentInv, Inspect \/ HandlePacket
    PROVE  SentInv'
<1>1. CASE Inspect
  <2>1. /\ line \in Seq(Calls) /\ line # <<>> /\ line' = Tail(line)
        /\ current = NoCall /\ current' \in {NoCall, Head(line)}
        /\ UNCHANGED <<phase, asked, outbox, copies, handled>>
    BY <1>1 DEF Inspect, SlotIInv, TypeOK, callVars, readerVars
  <2>2. ASSUME NEW c \in Calls
        PROVE  /\ Has(Tail(line), c) => Has(line, c)
               /\ Once(line, c) => Once(Tail(line), c) /\ (Head(line) = c => ~Has(Tail(line), c))
               /\ Head(line) = c => Has(line, c)
               /\ c # NoCall
    BY <2>1, HasTail, EngineAssumption
  <2>3. QED
    BY <2>1, <2>2 DEF SentInv
<1>2. CASE HandlePacket
  BY <1>2, EngineAssumption DEF HandlePacket, SentInv, SlotIInv, TypeOK
<1>3. QED
  BY <1>1, <1>2

LEMMA SentDongle ==
    ASSUME SlotIInv, SentInv,
           \/ \E c \in Calls : Dongle(c)
           \/ \E k \in Keys : TakeAck(k)
           \/ Lose
    PROVE  SentInv'
<1>1. ASSUME NEW c \in Calls, Answer(c) PROVE SentInv'
  <2>1. /\ line \in Seq(Calls) /\ outbox \in Seq(Calls)
        /\ c \in asked /\ asked' = asked \ {c}
        /\ copies[c] = 0 /\ copies' = [copies EXCEPT ![c] = 1]
        /\ line' = Append(line, c)
        /\ outbox' \in {outbox, Append(outbox, c)}
        /\ UNCHANGED <<phase, current, handled>>
    <3>1. c \in asked /\ copies[c] = 0
      BY <1>1 DEF Answer, SentInv
    <3>2. copies' = [copies EXCEPT ![c] = 1]
      BY <1>1, <3>1 DEF Answer
    <3>3. outbox' \in {outbox, Append(outbox, c)}
      BY <1>1 DEF Answer
    <3>4. QED
      BY <1>1, <3>1, <3>2, <3>3 DEF Answer, SlotIInv, TypeOK, callVars, readerVars
  <2>2. ASSUME NEW d \in Calls
        PROVE  /\ Has(line', d) <=> Has(line, d) \/ c = d
               /\ Once(line, d) /\ ~(Has(line, d) /\ c = d) => Once(line', d)
               /\ Has(outbox', d) => Has(outbox, d) \/ c = d
               /\ Once(outbox, d) /\ ~(Has(outbox, d) /\ c = d) => Once(outbox', d)
    <3>1. /\ Has(Append(line, c), d) <=> Has(line, d) \/ c = d
          /\ Once(line, d) /\ ~(Has(line, d) /\ c = d) => Once(Append(line, c), d)
          /\ Has(Append(outbox, c), d) <=> Has(outbox, d) \/ c = d
          /\ Once(outbox, d) /\ ~(Has(outbox, d) /\ c = d) => Once(Append(outbox, c), d)
      BY <2>1, HasAppend
    <3>2. QED
      BY <2>1, <3>1
  <2>3. ~Has(line, c) => Once(line, c)
    BY DEF Has, Once
  <2>4. QED
    BY <2>1, <2>2, <2>3 DEF SentInv, SlotIInv, TypeOK
<1>2. ASSUME NEW c \in Calls, Resend(c) PROVE SentInv'
  <2>1. /\ line \in Seq(Calls) /\ Has(outbox, c)
        /\ copies' = [copies EXCEPT ![c] = @ + 1]
        /\ line' = Append(line, c)
        /\ UNCHANGED <<phase, asked, outbox, current, handled>>
    BY <1>2 DEF Resend, SlotIInv, TypeOK, callVars, readerVars, Has
  <2>2. copies[c] \in Nat \ {0} /\ copies'[c] \notin {0, 1}
        /\ \A d \in Calls \ {c} : copies'[d] = copies[d]
    BY <2>1 DEF SentInv, SlotIInv, TypeOK
  <2>3. ASSUME NEW d \in Calls
        PROVE  /\ Has(line', d) <=> Has(line, d) \/ c = d
               /\ Once(line, d) /\ ~(Has(line, d) /\ c = d) => Once(line', d)
    BY <2>1, HasAppend
  <2>4. QED
    BY <2>1, <2>2, <2>3 DEF SentInv
<1>3. ASSUME NEW k \in Keys, TakeAck(k) PROVE SentInv'
  <2>1. /\ outbox \in Seq(Calls)
        /\ UNCHANGED <<phase, asked, copies, line, current, handled>>
        /\ outbox' = outbox \/ \E i \in DOMAIN outbox : outbox' = RemoveAt(outbox, i)
    BY <1>3 DEF TakeAck, ReceiveAck, ForgetOldest, SlotIInv, TypeOK, callVars, readerVars
  <2>2. ASSUME NEW d \in Calls
        PROVE  (Has(outbox', d) => Has(outbox, d)) /\ (Once(outbox, d) => Once(outbox', d))
    <3>1. CASE outbox' = outbox
      BY <3>1
    <3>2. CASE \E i \in DOMAIN outbox : outbox' = RemoveAt(outbox, i)
      BY <2>1, <3>2, HasRemoveAt
    <3>3. QED
      BY <2>1, <3>1, <3>2
  <2>3. QED
    BY <2>1, <2>2 DEF SentInv
<1>4. CASE Lose
  <2>1. /\ line \in Seq(Calls)
        /\ UNCHANGED <<phase, asked, copies, outbox, current, handled>>
        /\ \E i \in DOMAIN line : line' = RemoveAt(line, i)
    BY <1>4 DEF Lose, SlotIInv, TypeOK, callVars, readerVars
  <2>2. ASSUME NEW d \in Calls
        PROVE  (Has(line', d) => Has(line, d)) /\ (Once(line, d) => Once(line', d))
    BY <2>1, HasRemoveAt
  <2>3. QED
    BY <2>1, <2>2 DEF SentInv
<1>5. QED
  BY <1>1, <1>2, <1>3, <1>4 DEF Dongle

LEMMA SentStep ==
    ASSUME SlotIInv, QueueInv, SentInv, [Next]_vars
    PROVE  SentInv'
<1>1. CASE Acquire
  <2>1. /\ Head(waiters) \in Calls /\ phase[Head(waiters)] = "queued"
        /\ phase' = [phase EXCEPT ![Head(waiters)] = "writing"]
        /\ UNCHANGED lineVars
    <3>1. Has(waiters, Head(waiters)) /\ Head(waiters) \in Calls
      BY <1>1, HasTail, HeadTailProperties DEF Acquire, GrantLock, SlotIInv, TypeOK
    <3>2. QED
      BY <1>1, <3>1 DEF Acquire, GrantLock, QueueInv
  <2>2. QED
    BY <2>1, SentFrame DEF SlotIInv, TypeOK, Unsent
<1>2. CASE ReaderStops \/ UNCHANGED vars
  BY <1>2, SentFrame DEF ReaderStops, vars, lineVars, readerVars, callVars
<1>3. QED
  BY <1>1, <1>2, SentCaller, SentReader, SentDongle DEF Next

\* Steps that leave the slots and the replies alone: only the phases that
\* ReplyInv speaks of matter.
LEMMA ReplyFrame ==
    ASSUME ReplyInv, UNCHANGED <<key, pending, taken>>, handled \subseteq handled',
           \A c \in Calls :
               /\ phase'[c] = "ok" => phase[c] = "ok" \/ HasReply(c)
               /\ phase'[c] = "expired" =>
                     phase[c] = "expired" \/ HasReply(c) \/ pending[key[c]] = c
               /\ phase'[c] \in {"unused", "queued"} => phase[c] \in {"unused", "queued"}
    PROVE  ReplyInv'
BY DEF ReplyInv, HasReply

LEMMA ReplyCaller ==
    ASSUME SlotIInv, SlotIInv', ReplyInv, NEW c \in Calls, Caller(c)
    PROVE  ReplyInv'
<1> USE DEF SlotIInv, TypeOK
<1>1. CASE Call(c)
  BY <1>1, ReplyFrame DEF Call, lineVars, readerVars
<1>2. CASE Written(c)
  BY <1>2, ReplyFrame DEF Written, readerVars
<1>3. CASE WriteFailed(c)
  BY <1>3, ReplyFrame DEF WriteFailed, lineVars, readerVars
<1>4. CASE Return(c)
  <2>1. phase'[c] # "aborted"
    BY DEF WaiterKeepsSlot
  <2>2. HasReply(c)
    BY <1>4, <2>1 DEF Return
  <2>3. QED
    BY <1>4, <2>2, ReplyFrame DEF Return, lineVars, readerVars
<1>5. CASE Expire(c)
  BY <1>5, ReplyFrame DEF Expire, SenderDropped, lineVars, readerVars
<1>6. CASE TimedOut(c)
  <2>1. /\ phase' = [phase EXCEPT ![c] = "timeout"]
        /\ pending' = [pending EXCEPT ![key[c]] = NoCall]
        /\ phase[c] = "expired" /\ key[c] \in Keys
        /\ UNCHANGED <<key, taken, handled>>
    BY <1>6 DEF TimedOut, lineVars, readerVars
  <2>2. \A d \in Calls : phase[d] = "expired" => d = c
    BY <2>1, EngineAssumption DEF LockInv, Holding
  <2>3. QED
    BY <2>1, <2>2, EngineAssumption DEF ReplyInv, HasReply
<1>7. CASE CancelWaiting(c)
  BY <1>7, ReplyFrame DEF CancelWaiting, lineVars, readerVars
<1>8. CASE CancelHolding(c)
  BY <1>8, ReplyFrame DEF CancelHolding, readerVars
<1>9. QED
  BY <1>1, <1>2, <1>3, <1>4, <1>5, <1>6, <1>7, <1>8 DEF Caller

LEMMA ReplyStep ==
    ASSUME SlotIInv, SlotIInv', QueueInv, ReplyInv, [Next]_vars
    PROVE  ReplyInv'
<1> USE DEF SlotIInv
<1>1. CASE Acquire
  <2>1. PICK c \in Calls : c = Head(waiters) /\ phase[c] = "queued"
    <3>1. Has(waiters, Head(waiters)) /\ Head(waiters) \in Calls
      BY <1>1, HasTail, HeadTailProperties DEF Acquire, GrantLock, TypeOK
    <3>2. QED
      BY <3>1 DEF QueueInv
  <2>2. /\ phase' = [phase EXCEPT ![c] = "writing"]
        /\ pending' = [pending EXCEPT ![key[c]] = c]
        /\ key[c] \in Keys
        /\ UNCHANGED <<key, taken, handled>>
    BY <1>1, <2>1 DEF Acquire, GrantLock, lineVars, readerVars, TypeOK
  <2>3. \A d \in Calls : phase[d] # "expired"
    BY <1>1, EngineAssumption DEF Acquire, LockInv, Holding
  <2>4. QED
    BY <2>1, <2>2, <2>3, EngineAssumption DEF ReplyInv, HasReply, TypeOK
<1>2. CASE HandlePacket
  <2> DEFINE k == PendingKey(current)
             q == pending[k]
  <2>1. /\ current \in Calls /\ k = key[current] /\ k \in Keys
        /\ pending' = [pending EXCEPT ![k] = NoCall]
        /\ taken' = IF q = NoCall THEN taken ELSE [taken EXCEPT ![q] = current]
        /\ handled' = handled \cup {current}
        /\ UNCHANGED <<phase, key>>
        /\ q # NoCall => q \in Calls /\ key[q] = k
    BY <1>2, EngineAssumption DEF HandlePacket, TypeOK, PendingKey, SlotInv
  <2> HIDE DEF k, q
  <2>2. \A d \in Calls : pending[key[d]] = d => (d = q /\ key[d] = k) \/ key[d] # k
    BY DEF q
  <2>3. ASSUME NEW d \in Calls, q # d
        PROVE  /\ taken'[d] = taken[d]
               /\ pending'[key[d]] = d <=> pending[key[d]] = d /\ key[d] # k
               /\ key[d] \in Keys
    BY <2>1, <2>3, EngineAssumption DEF TypeOK
  <2>4. q # NoCall => /\ taken'[q] = current /\ pending'[key[q]] = NoCall
                      /\ pending[key[q]] = q
    BY <2>1 DEF TypeOK, q
  <2>5. QED
    BY <2>1, <2>2, <2>3, <2>4, EngineAssumption DEF ReplyInv, HasReply
<1>3. CASE \/ Inspect \/ ReaderStops \/ Lose \/ UNCHANGED vars
           \/ (\E c \in Calls : Dongle(c)) \/ (\E k \in Keys : TakeAck(k))
  BY <1>3, ReplyFrame
  DEF Inspect, ReaderStops, Lose, vars, Dongle, Answer, Resend, TakeAck, ReceiveAck,
      callVars, lineVars, readerVars
<1>4. QED
  BY <1>1, <1>2, <1>3, ReplyCaller DEF Next

\* A reply once got is kept, and a call given up stays given up.
LEMMA MisdeliveryFrame ==
    ASSUME SlotIInv, MisdeliveryExplained, UNCHANGED <<key, taken>>,
           \A c \in Calls :
               /\ phase[c] \in Abandoned \cup {"expired"} =>
                     phase'[c] \in Abandoned \cup {"expired"}
               /\ copies[c] <= copies'[c],
           copies' \in [Calls -> Nat]
    PROVE  MisdeliveryExplained'
<1> SUFFICES ASSUME NEW c \in Calls, Misdelivered(c)
             PROVE  /\ key[taken[c]] = key[c]
                    /\ \/ phase'[taken[c]] \in Abandoned \cup {"expired"}
                       \/ copies'[taken[c]] > 1
                       \/ Misdelivered(taken[c])
  BY DEF MisdeliveryExplained, Misdelivered
<1>1. taken[c] \in Calls
  BY DEF SlotIInv, TypeOK, Misdelivered
<1>2. copies[taken[c]] \in Nat /\ copies'[taken[c]] \in Nat
  BY <1>1 DEF SlotIInv, TypeOK
<1>3. QED
  BY <1>1, <1>2 DEF MisdeliveryExplained

\* The reader serves another call than the one the packet answers.
LEMMA MisdeliveryHandlePacket ==
    ASSUME SlotIInv, SentInv, ReplyInv, MisdeliveryExplained, HandlePacket
    PROVE  MisdeliveryExplained'
<1> USE DEF SlotIInv
<1>0. PICK d \in Calls, k \in Keys, q \in Calls \cup {NoCall} :
        d = current /\ k = key[d] /\ q = pending[k]
  <2>1. current \in Calls
    BY DEF HandlePacket, TypeOK
  <2>2. key[current] \in Keys /\ pending[key[current]] \in Calls \cup {NoCall}
    BY <2>1 DEF TypeOK
  <2>3. QED
    BY <2>1, <2>2
<1>1. /\ d = current /\ k = key[d] /\ q = pending[k]
      /\ taken' = IF q = NoCall THEN taken ELSE [taken EXCEPT ![q] = d]
      /\ UNCHANGED <<phase, key, copies>>
      /\ q # NoCall => key[q] = k /\ pending[key[q]] = q
  BY <1>0 DEF HandlePacket, PendingKey, SlotInv
<1>2. \A c \in Calls : c # q => taken'[c] = taken[c]
  BY <1>1 DEF TypeOK
<1>3. q # NoCall => taken'[q] = d /\ ~HasReply(q)
  BY <1>1, EngineAssumption DEF TypeOK, ReplyInv
<1>4. \A c \in Calls : Misdelivered(c) => c # q /\ taken[c] \in Calls
  BY <1>3, EngineAssumption DEF Misdelivered, HasReply, TypeOK
<1>5. \A c \in Calls : Misdelivered(c) => taken'[c] \notin {NoCall, c}
  BY <1>2, <1>4 DEF Misdelivered
<1>6. ASSUME q # NoCall, q # d
      PROVE  \/ phase[d] \in Abandoned \cup {"expired"}
             \/ copies[d] > 1
             \/ Misdelivered(d)
  <2>1. copies[d] \in Nat \ {0} /\ phase[d] \in Phases \ {"unused", "queued", "writing"}
    BY <1>1 DEF SentInv, TypeOK
  <2>2. CASE phase[d] \in {"awaiting", "ok"}
    <3>1. HasReply(d)
      BY <1>1, <1>6, <2>2 DEF ReplyInv, WaiterKeepsSlot
    <3>2. CASE taken[d] = d
      <4>1. d \in handled
        BY <3>1, <3>2 DEF ReplyInv
      <4>2. QED
        BY <1>1, <2>1, <4>1 DEF SentInv
    <3>3. CASE taken[d] # d
      BY <3>1, <3>3 DEF Misdelivered, HasReply
    <3>4. QED
      BY <3>2, <3>3
  <2>3. QED
    BY <2>1, <2>2 DEF Phases, Holding, Ended, Abandoned, WaiterKeepsSlot
<1>7. SUFFICES ASSUME NEW c \in Calls, taken'[c] \notin {NoCall, c}
               PROVE  /\ key[taken'[c]] = key[c]
                      /\ \/ phase[taken'[c]] \in Abandoned \cup {"expired"}
                         \/ copies[taken'[c]] > 1
                         \/ taken'[taken'[c]] \notin {NoCall, taken'[c]}
  BY <1>1 DEF MisdeliveryExplained, Misdelivered
<1>8. CASE c = q
  BY <1>1, <1>3, <1>5, <1>6, <1>7, <1>8, EngineAssumption
<1>9. CASE c # q
  <2>1. Misdelivered(c) /\ taken'[c] = taken[c]
    BY <1>2, <1>7, <1>9 DEF Misdelivered
  <2>2. QED
    BY <1>4, <1>5, <2>1 DEF MisdeliveryExplained
<1>10. QED
  BY <1>8, <1>9

LEMMA MisdeliveryStep ==
    ASSUME SlotIInv, SlotIInv', QueueInv, SentInv, ReplyInv, MisdeliveryExplained,
           [Next]_vars
    PROVE  MisdeliveryExplained'
<1>0. /\ phase \in [Calls -> Phases] /\ copies' \in [Calls -> Nat]
      /\ copies \in [Calls -> Nat]
  BY DEF SlotIInv, TypeOK
<1>1. CASE Acquire
  <2>1. PICK c \in Calls : c = Head(waiters) /\ phase[c] = "queued"
    <3>1. Has(waiters, Head(waiters)) /\ Head(waiters) \in Calls
      BY <1>1, HasTail, HeadTailProperties DEF Acquire, GrantLock, SlotIInv, TypeOK
    <3>2. QED
      BY <3>1 DEF QueueInv
  <2>2. /\ UNCHANGED <<key, taken, copies>>
        /\ \A d \in Calls \ {c} : phase'[d] = phase[d]
    BY <1>0, <1>1, <2>1 DEF Acquire, GrantLock, lineVars, readerVars
  <2>3. QED
    BY <1>0, <2>1, <2>2, MisdeliveryFrame DEF Abandoned
<1>2. ASSUME NEW c \in Calls, Caller(c) PROVE MisdeliveryExplained'
  <2>1. UNCHANGED <<key, taken, copies>>
    BY <1>2 DEF Caller, Call, Written, WriteFailed, Return, Expire, TimedOut,
                CancelWaiting, CancelHolding, lineVars, readerVars
  <2>2. \A d \in Calls \ {c} : phase'[d] = phase[d]
    BY <1>0, <1>2
    DEF Caller, Call, Written, WriteFailed, Return, Expire, TimedOut, CancelWaiting,
        CancelHolding
  <2>3. phase[c] \in Abandoned \cup {"expired"} => phase'[c] = "timeout"
    BY <1>0, <1>2
    DEF Caller, Call, Written, WriteFailed, Return, Expire, TimedOut, CancelWaiting,
        CancelHolding, Abandoned
  <2>4. \A d \in Calls : copies[d] <= copies'[d]
    BY <1>0, <2>1
  <2>5. QED
    BY <1>0, <2>1, <2>2, <2>3, <2>4, MisdeliveryFrame DEF Abandoned
<1>3. ASSUME NEW c \in Calls, Dongle(c) PROVE MisdeliveryExplained'
  BY <1>0, <1>3, MisdeliveryFrame DEF Dongle, Answer, Resend, callVars, readerVars
<1>4. CASE \/ Inspect \/ ReaderStops \/ Lose \/ UNCHANGED vars
           \/ (\E k \in Keys : TakeAck(k))
  BY <1>0, <1>4, MisdeliveryFrame
  DEF Inspect, ReaderStops, Lose, vars, TakeAck, ReceiveAck, callVars, lineVars, readerVars
<1>5. QED
  BY <1>1, <1>2, <1>3, <1>4, MisdeliveryHandlePacket DEF Next

LEMMA DeliveryInvariant == Spec => []DeliveryIInv
<1>1. Init => QueueInv /\ SentInv /\ ReplyInv /\ MisdeliveryExplained
  BY EngineAssumption
  DEF Init, QueueInv, SentInv, ReplyInv, MisdeliveryExplained, Has, Once, HasReply,
      Misdelivered
<1>2. DeliveryIInv /\ SlotIInv' /\ [Next]_vars => DeliveryIInv'
  BY QueueStep, SentStep, ReplyStep, MisdeliveryStep DEF DeliveryIInv
<1>3. QED
  BY <1>1, <1>2, SlotInvariant, PTL DEF Spec, DeliveryIInv

\* A reply reaches the wrong call only if the call it answers was given up, it
\* was sent more than once, or that call was served with another's reply.
THEOREM MisdeliveriesExplained == Spec => []MisdeliveryExplained
BY DeliveryInvariant, PTL DEF DeliveryIInv

-------------------------------------------------------------------------------
\* What appending and removing do to the order of the elements.
LEMMA BeforeAppend ==
    ASSUME NEW S, NEW s \in Seq(S), NEW e \in S, NEW c, NEW d,
           Before(Append(s, e), c, d)
    PROVE  Before(s, c, d) \/ d = e
<1>1. /\ DOMAIN s = 1 .. Len(s) /\ DOMAIN Append(s, e) = 1 .. Len(s) + 1
      /\ Len(s) \in Nat
      /\ Append(s, e)[Len(s) + 1] = e
      /\ \A i \in 1 .. Len(s) : Append(s, e)[i] = s[i]
  BY AppendProperties, LenProperties
<1>2. PICK i \in 1 .. Len(s) + 1, j \in 1 .. Len(s) + 1 :
        i <= j /\ Append(s, e)[i] = c /\ Append(s, e)[j] = d
  BY <1>1 DEF Before
<1>3. CASE j = Len(s) + 1
  BY <1>1, <1>2, <1>3
<1>4. CASE j # Len(s) + 1
  <2>1. i \in DOMAIN s /\ j \in DOMAIN s
    BY <1>1, <1>2, <1>4
  <2>2. QED
    BY <1>1, <1>2, <2>1 DEF Before
<1>5. QED
  BY <1>3, <1>4

LEMMA BeforeRemoveAt ==
    ASSUME NEW S, NEW s \in Seq(S), NEW i \in DOMAIN s, NEW c, NEW d,
           Before(RemoveAt(s, i), c, d)
    PROVE  Before(s, c, d)
<1> DEFINE r == RemoveAt(s, i)
           From(j) == IF j < i THEN j ELSE j + 1
<1>1. i \in 1 .. Len(s) /\ DOMAIN s = 1 .. Len(s) /\ Len(s) \in Nat
  BY LenProperties
<1>2. /\ DOMAIN r = 1 .. Len(s) - 1
      /\ \A j \in DOMAIN r : From(j) \in DOMAIN s /\ r[j] = s[From(j)]
  BY <1>1, RemoveAtEntries
<1>3. \A j, k \in DOMAIN r : j <= k => From(j) <= From(k)
  BY <1>1, <1>2
<1> HIDE DEF r, From
<1>4. PICK j \in DOMAIN r, k \in DOMAIN r : j <= k /\ r[j] = c /\ r[k] = d
  BY DEF Before, r
<1>5. QED
  BY <1>2, <1>3, <1>4 DEF Before

-------------------------------------------------------------------------------
\* What goes wrong for a key stays wrong.
LEMMA UpsetStays ==
    ASSUME DeliveryIInv, [Next]_vars, NEW k, Upset(k)
    PROVE  Upset(k)'
<1> USE DEF DeliveryIInv, SlotIInv
<1>1. PICK d \in Calls :
        key[d] = k /\ (phase[d] \in Abandoned \/ Misdelivered(d) \/ d \in outlived)
  BY DEF Upset
<1>2. UNCHANGED key
  BY DEF Next, Acquire, GrantLock, Caller, Call, Written, WriteFailed, Return, Expire,
         TimedOut, CancelWaiting, CancelHolding, Inspect, HandlePacket, ReaderStops,
         Dongle, Answer, Resend, TakeAck, ReceiveAck, Lose, callVars, readerVars, vars
<1>3. HasReply(d) => taken'[d] = taken[d]
  <2>1. CASE HandlePacket
    <3>1. PICK q \in Calls \cup {NoCall} :
            /\ q = pending[key[current]]
            /\ taken' = IF q = NoCall THEN taken ELSE [taken EXCEPT ![q] = current]
            /\ q # NoCall => key[q] = key[current]
      <4>1. current \in Calls /\ key[current] \in Keys
        BY <2>1 DEF HandlePacket, TypeOK
      <4>2. pending[key[current]] \in Calls \cup {NoCall}
        BY <4>1 DEF TypeOK
      <4>3. QED
        BY <2>1, <4>1, <4>2 DEF HandlePacket, PendingKey, SlotInv
    <3>2. HasReply(d) => q # d
      BY <3>1, EngineAssumption DEF ReplyInv
    <3>3. QED
      BY <3>1, <3>2 DEF TypeOK
  <2>2. CASE ~HandlePacket
    BY <2>2
    DEF Next, Acquire, GrantLock, Caller, Call, Written, WriteFailed, Return, Expire,
        TimedOut, CancelWaiting, CancelHolding, Inspect, ReaderStops, Dongle, Answer,
        Resend, TakeAck, ReceiveAck, Lose, callVars, readerVars, vars
  <2>3. QED
    BY <2>1, <2>2
<1>4. ASSUME phase[d] \in Abandoned PROVE phase'[d] \in Abandoned
  <2>1. CASE Acquire
    <3>1. PICK c \in Calls : c = Head(waiters) /\ phase[c] = "queued"
      <4>1. Has(waiters, Head(waiters)) /\ Head(waiters) \in Calls
        BY <2>1, HasTail, HeadTailProperties DEF Acquire, GrantLock, TypeOK
      <4>2. QED
        BY <4>1 DEF QueueInv
    <3>2. phase' = [phase EXCEPT ![c] = "writing"]
      BY <2>1, <3>1 DEF Acquire, GrantLock
    <3>3. QED
      BY <1>4, <3>1, <3>2 DEF TypeOK, Abandoned
  <2>2. ASSUME NEW c \in Calls, Caller(c) PROVE phase'[d] \in Abandoned
    BY <1>4, <2>2
    DEF Caller, Call, Written, WriteFailed, Return, Expire, TimedOut, CancelWaiting,
        CancelHolding, Abandoned, TypeOK
  <2>3. CASE UNCHANGED phase
    BY <1>4, <2>3
  <2>4. QED
    BY <2>1, <2>2, <2>3
    DEF Next, Inspect, HandlePacket, ReaderStops, Dongle, Answer, Resend, TakeAck,
        ReceiveAck, Lose, callVars, readerVars, vars
<1>5. CASE phase[d] \in Abandoned
  BY <1>1, <1>2, <1>4, <1>5 DEF Upset
<1>6. CASE Misdelivered(d)
  <2>1. taken'[d] = taken[d]
    BY <1>3, <1>6 DEF Misdelivered, HasReply
  <2>2. QED
    BY <1>1, <1>2, <1>6, <2>1 DEF Upset, Misdelivered
<1>7. CASE d \in outlived
  <2>1. outlived \subseteq outlived'
    BY DEF Next, Acquire, GrantLock, Caller, Call, Written, WriteFailed, Return, Expire,
           TimedOut, CancelWaiting, CancelHolding, Inspect, HandlePacket, ReaderStops,
           Dongle, Answer, Resend, TakeAck, ReceiveAck, Lose, lineVars, readerVars, vars
  <2>2. QED
    BY <1>1, <1>2, <1>7, <2>1 DEF Upset
<1>8. QED
  BY <1>1, <1>5, <1>6, <1>7

\* Steps that change none of the ACKs, replies and slots of kind k.
LEMMA AckFrame ==
    ASSUME NEW k, AckRight(k),
           UNCHANGED <<key, copies, handled, outbox, acks, taken>>,
           current' \in {current, NoCall},
           pending[k] # NoCall => pending'[k] # NoCall
    PROVE  AckRight(k)'
<1>1. UNCHANGED Owed(k)
  BY DEF Owed
<1>2. QED
  BY <1>1 DEF AckRight

\* A request that was sent, of a kind for which nothing went wrong, is handled,
\* or its call still holds the lock.
LEMMA OpenHolds ==
    ASSUME DeliveryIInv, NEW d \in Calls, copies[d] > 0, ~Upset(key[d]),
           d \notin handled
    PROVE  phase[d] \in {"awaiting", "expired"} /\ holder = d /\ ~HasReply(d)
<1> USE DEF DeliveryIInv, SlotIInv
<1>1. phase[d] \notin Abandoned /\ ~Misdelivered(d)
  BY DEF Upset
<1>2. ~HasReply(d)
  BY <1>1 DEF ReplyInv, HasReply, Misdelivered
<1>3. phase[d] \in Phases /\ phase[d] \notin {"unused", "queued", "writing"}
  BY DEF SentInv, TypeOK
<1>4. phase[d] \in {"awaiting", "expired"}
  BY <1>1, <1>2, <1>3
  DEF Phases, Holding, Ended, Abandoned, WaiterKeepsSlot, ReplyInv
<1>5. QED
  BY <1>2, <1>4 DEF LockInv, Holding


\* A request that goes out adds a reply to wait an ACK for, and none is handled.
LEMMA AckAnswer ==
    ASSUME DeliveryIInv, NEW k \in AsyncKeys, AckRight(k), NEW c \in Calls, Answer(c)
    PROVE  AckRight(k)'
<1>1. /\ copies[c] = 0 /\ c \notin handled /\ ~Has(outbox, c)
      /\ copies' = [copies EXCEPT ![c] = @ + 1]
      /\ outbox \in Seq(Calls) /\ copies \in [Calls -> Nat]
      /\ UNCHANGED <<key, handled, acks, taken, current, pending>>
      /\ handled \subseteq Calls
  BY DEF Answer, DeliveryIInv, SentInv, SlotIInv, TypeOK, callVars, readerVars
<1>2. \A d \in Calls : d # c => (Has(outbox', d) <=> Has(outbox, d))
  <2>1. \A d \in Calls : d # c => (Has(Append(outbox, c), d) <=> Has(outbox, d))
    BY <1>1, HasAppend
  <2>2. QED
    BY <2>1 DEF Answer
<1>3. key[c] = k => Has(outbox', c)
  <2>1. Has(Append(outbox, c), c)
    BY <1>1, HasAppend
  <2>2. QED
    BY <2>1 DEF Answer
<1>4. \A d, e \in Calls : e # c /\ Before(outbox', d, e) => Before(outbox, d, e)
  <2>1. \A d, e \in Calls : e # c /\ Before(Append(outbox, c), d, e) =>
          Before(outbox, d, e)
    BY <1>1, BeforeAppend
  <2>2. QED
    BY <2>1 DEF Answer
<1>5. Owed(k)' = Owed(k)
  BY <1>1, <1>2 DEF Owed
<1>6. \A d \in Calls : key[d] = k /\ copies'[d] > 0 /\ d \notin handled =>
        Has(outbox', d)
  <2> SUFFICES ASSUME NEW d \in Calls, key[d] = k, copies'[d] > 0, d \notin handled
               PROVE  Has(outbox', d)
    OBVIOUS
  <2>1. CASE d = c
    BY <1>3, <2>1
  <2>2. CASE d # c
    BY <1>1, <1>2, <2>2 DEF AckRight
  <2>3. QED
    BY <2>1, <2>2
<1>7. QED
  BY <1>1, <1>4, <1>5, <1>6 DEF AckRight

\* The packet of kind k that the reader handles answers the call in the slot.
LEMMA AckHandlePacket ==
    ASSUME DeliveryIInv, IsFiniteSet(handled), NEW k \in AsyncKeys, AckRight(k),
           ~Upset(k), ~Upset(k)', HandlePacket
    PROVE  AckRight(k)'
<1>0. PICK d \in Calls, q \in Calls \cup {NoCall} :
        d = current /\ q = pending[key[d]] /\ key[d] \in Keys
  <2>1. current \in Calls
    BY DEF HandlePacket, DeliveryIInv, SlotIInv, TypeOK
  <2>2. key[current] \in Keys /\ pending[key[current]] \in Calls \cup {NoCall}
    BY <2>1 DEF DeliveryIInv, SlotIInv, TypeOK
  <2>3. QED
    BY <2>1, <2>2
<1>1. /\ pending' = [pending EXCEPT ![key[d]] = NoCall]
      /\ taken' = IF q = NoCall THEN taken ELSE [taken EXCEPT ![q] = d]
      /\ acks' \in {acks, [acks EXCEPT ![key[d]] = @ + 1]}
      /\ handled' = handled \cup {d}
      /\ current' = NoCall
      /\ UNCHANGED <<phase, key, copies, outbox>>
  BY <1>0 DEF HandlePacket, PendingKey, Acknowledge
<1>2. /\ k \in Keys /\ acks \in [Keys -> Nat] /\ handled \subseteq Calls
      /\ taken \in [Calls -> Calls \cup {NoCall}]
      /\ copies[d] > 0
  <2>1. copies[d] \in Nat /\ copies[d] # 0
    BY <1>0 DEF DeliveryIInv, SentInv, SlotIInv, TypeOK
  <2>2. QED
    BY <2>1, EngineAssumption DEF DeliveryIInv, SlotIInv, TypeOK
<1>3. CASE key[d] # k
  <2>1. Owed(k)' = Owed(k)
    BY <1>1, <1>3 DEF Owed
  <2>2. acks'[k] = acks[k]
    BY <1>1, <1>2, <1>3
  <2>3. q # NoCall => key[q] = key[d]
    BY <1>0 DEF DeliveryIInv, SlotIInv, SlotInv
  <2>4. \A e \in handled' : key[e] = k => e \in handled /\ taken'[e] = taken[e]
    BY <1>1, <1>2, <1>3, <2>3
  <2>5. QED
    BY <1>1, <1>2, <1>3, <2>1, <2>2, <2>4 DEF AckRight
<1>4. CASE key[d] = k
  <2>1. d \notin handled
    <3> SUFFICES ASSUME d \in handled PROVE FALSE
      OBVIOUS
    <3>1. taken[d] = d /\ q # NoCall
      BY <1>0, <1>4, EngineAssumption DEF AckRight
    <3>2. q # d /\ key[q] = k
      BY <1>0, <1>4, <3>1, EngineAssumption
      DEF DeliveryIInv, ReplyInv, HasReply, SlotIInv, SlotInv
    <3>3. q \in Calls /\ taken'[q] = d
      BY <1>1, <1>2, <3>1
    <3>4. QED
      BY <1>1, <3>2, <3>3, EngineAssumption DEF Upset, Misdelivered
  <2>2. holder = d /\ ~HasReply(d) /\ phase[d] \in {"awaiting", "expired"}
    BY <1>2, <1>4, <2>1, OpenHolds
  <2>3. q = d
    BY <1>0, <2>2 DEF DeliveryIInv, ReplyInv, SlotIInv, WaiterKeepsSlot
  <2>4. /\ taken'[d] = d
        /\ \A e \in Calls : e # d => taken'[e] = taken[e]
    BY <1>1, <1>2, <2>3, EngineAssumption
  <2>5. Has(outbox, d)
    BY <1>2, <1>4, <2>1 DEF AckRight
  <2>6. acks'[k] <= Cardinality(Owed(k)')
    <3>1. Owed(k)' = Owed(k) \cup {d} /\ d \notin Owed(k)
      BY <1>1, <1>4, <2>1, <2>5 DEF Owed
    <3>2. IsFiniteSet(Owed(k))
      BY FS_Subset DEF Owed
    <3>3. /\ Cardinality(Owed(k)') = Cardinality(Owed(k)) + 1
          /\ Cardinality(Owed(k)) \in Nat
      BY <3>1, <3>2, FS_AddElement, FS_CardinalityType
    <3>4. acks[k] \in Nat /\ acks'[k] \in {acks[k], acks[k] + 1}
      BY <1>1, <1>2, <1>4
    <3>5. acks[k] <= Cardinality(Owed(k))
      BY DEF AckRight
    <3>6. QED
      BY <3>3, <3>4, <3>5
  <2>7. ASSUME NEW x \in Calls, NEW e \in handled',
               Before(outbox, x, e), key[x] = k, key[e] = k
        PROVE  x \in handled'
    <3>1. CASE e \in handled
      BY <1>1, <1>2, <2>7, <3>1 DEF AckRight
    <3>2. CASE e = d /\ x \notin handled
      <4>1. Has(outbox, x)
        BY <2>7 DEF Before, Has
      <4>2. copies[x] > 0
        <5>1. copies[x] \in Nat /\ copies[x] # 0
          BY <4>1 DEF DeliveryIInv, SentInv, SlotIInv, TypeOK
        <5>2. QED
          BY <5>1
      <4>3. holder = x
        BY <2>7, <3>2, <4>2, OpenHolds
      <4>4. QED
        BY <1>1, <2>2, <4>3
    <3>3. QED
      BY <1>1, <2>7, <3>1, <3>2
  <2>8. QED
    BY <1>1, <1>2, <2>4, <2>6, <2>7, EngineAssumption DEF AckRight
<1>5. QED
  BY <1>3, <1>4

\* An ACK of another kind leaves the replies of kind k alone; one of kind k is
\* for a handled reply, the oldest.
LEMMA AckTake ==
    ASSUME DeliveryIInv, IsFiniteSet(handled), NEW k \in AsyncKeys, AckRight(k),
           NEW kk \in Keys, TakeAck(kk)
    PROVE  AckRight(k)'
<1>1. /\ acks[kk] > 0
      /\ acks' = [acks EXCEPT ![kk] = @ - 1]
      /\ UNCHANGED <<key, copies, handled, taken, current, pending>>
      /\ k \in Keys /\ acks \in [Keys -> Nat] /\ outbox \in Seq(Calls)
      /\ handled \subseteq Calls
      /\ \A c \in Calls : Once(outbox, c)
  BY EngineAssumption
  DEF TakeAck, ReceiveAck, DeliveryIInv, SentInv, SlotIInv, TypeOK, callVars, readerVars
<1>2. \/ outbox' = outbox /\ \A j \in DOMAIN outbox : key[outbox[j]] # kk
      \/ \E i \in DOMAIN outbox :
            /\ key[outbox[i]] = kk
            /\ \A j \in DOMAIN outbox : key[outbox[j]] = kk => i <= j
            /\ outbox' = RemoveAt(outbox, i)
  BY DEF TakeAck, ReceiveAck, ForgetOldest
<1>3. IsFiniteSet(Owed(k)) /\ Cardinality(Owed(k)) \in Nat
  BY FS_Subset, FS_CardinalityType DEF Owed
<1>4. CASE outbox' = outbox /\ \A j \in DOMAIN outbox : key[outbox[j]] # kk
  <2>1. kk # k
    <3>1. SUFFICES ASSUME kk = k PROVE FALSE
      OBVIOUS
    <3>2. Owed(k) = {}
      BY <1>4, <3>1 DEF Owed, Has
    <3>3. QED
      BY <1>1, <3>1, <3>2, FS_EmptySet DEF AckRight
  <2>2. QED
    BY <1>1, <1>4, <2>1, AckFrame DEF AckRight, Owed
<1>5. ASSUME NEW i \in DOMAIN outbox,
             key[outbox[i]] = kk,
             \A j \in DOMAIN outbox : key[outbox[j]] = kk => i <= j,
             outbox' = RemoveAt(outbox, i)
      PROVE  AckRight(k)'
  <2>1. outbox[i] \in Calls
    BY <1>1, ElementOfSeq, LenProperties
  <2>2. PICK x \in Calls : x = outbox[i] /\ key[x] = kk
    BY <1>5, <2>1
  <2>3. \A d \in Calls : /\ Has(outbox', d) => Has(outbox, d)
                         /\ Has(outbox, d) /\ d # x => Has(outbox', d)
                         /\ ~Has(outbox', x)
    BY <1>1, <1>5, <2>2, HasRemoveAt
  <2>4. \A d, e \in Calls : Before(outbox', d, e) => Before(outbox, d, e)
    BY <1>1, <1>5, BeforeRemoveAt
  <2>5. /\ key[x] = k => x \in handled
        /\ acks'[k] <= Cardinality(Owed(k)')
    <3>1. CASE kk # k
      <4>1. Owed(k)' = Owed(k) /\ acks'[k] = acks[k]
        BY <1>1, <2>2, <2>3, <3>1 DEF Owed
      <4>2. QED
        BY <2>2, <3>1, <4>1 DEF AckRight
    <3>2. CASE kk = k
      <4>1. acks[k] \in Nat \ {0} /\ acks'[k] = acks[k] - 1
        BY <1>1, <3>2
      <4>2. Owed(k) # {}
        <5>1. acks[k] <= Cardinality(Owed(k))
          BY DEF AckRight
        <5>2. Cardinality(Owed(k)) # 0
          BY <1>3, <4>1, <5>1
        <5>3. QED
          BY <5>2, FS_EmptySet, Zenon
      <4>3. PICK e \in handled, j \in DOMAIN outbox : key[e] = k /\ outbox[j] = e
        BY <4>2 DEF Owed, Has
      <4>4. Before(outbox, x, e)
        BY <1>5, <2>2, <3>2, <4>3 DEF Before
      <4>5. x \in handled
        BY <1>1, <2>2, <3>2, <4>3, <4>4 DEF AckRight
      <4>6. x \in Owed(k)
        BY <2>2, <3>2, <4>5 DEF Owed, Has
      <4>7. Owed(k)' = Owed(k) \ {x}
        BY <1>1, <2>3 DEF Owed
      <4>8. Cardinality(Owed(k)') = Cardinality(Owed(k)) - 1
        BY <1>3, <4>6, <4>7, FS_RemoveElement
      <4>9. acks[k] <= Cardinality(Owed(k))
        BY DEF AckRight
      <4>10. QED
        BY <1>3, <4>1, <4>5, <4>8, <4>9
    <3>3. QED
      BY <3>1, <3>2
  <2>6. QED
    BY <1>1, <2>3, <2>4, <2>5 DEF AckRight
<1>6. QED
  BY <1>2, <1>4, <1>5

\* A kind of reply for which nothing went wrong stays right until it does.
LEMMA AckStep ==
    ASSUME DeliveryIInv, SlotIInv', IsFiniteSet(handled), NEW k \in AsyncKeys,
           AckRight(k), ~Upset(k), ~Upset(k)', [Next]_vars
    PROVE  AckRight(k)'
<1> USE DEF DeliveryIInv, SlotIInv
<1>1. CASE Acquire
  <2>1. PICK c \in Calls, kk \in Keys :
          pending' = [pending EXCEPT ![kk] = c] /\ UNCHANGED <<key, taken, lineVars>>
    <3>1. Head(waiters) \in Calls /\ key[Head(waiters)] \in Keys
      BY <1>1, HeadTailProperties DEF Acquire, GrantLock, TypeOK
    <3>2. QED
      BY <1>1, <3>1 DEF Acquire, GrantLock
  <2>2. pending[k] # NoCall => pending'[k] # NoCall
    BY <2>1, EngineAssumption DEF TypeOK
  <2>3. QED
    BY <2>1, <2>2, AckFrame DEF lineVars, readerVars
<1>2. ASSUME NEW c \in Calls, Caller(c) PROVE AckRight(k)'
  <2>1. UNCHANGED <<key, copies, handled, outbox, acks, taken, current>>
    BY <1>2
    DEF Caller, Call, Written, WriteFailed, Return, Expire, TimedOut, CancelWaiting,
        CancelHolding, lineVars, readerVars
  <2>2. CASE TimedOut(c)
    <3>1. key[c] # k
      <4>1. phase'[c] \in Abandoned /\ UNCHANGED key
        BY <2>2 DEF TimedOut, TypeOK, Abandoned
      <4>2. QED
        BY <4>1 DEF Upset
    <3>2. pending'[k] = pending[k]
      BY <2>2, <3>1, EngineAssumption DEF TimedOut, TypeOK
    <3>3. QED
      BY <2>1, <3>2, AckFrame
  <2>3. CASE ~TimedOut(c)
    <3>1. UNCHANGED pending
      BY <1>2, <2>3
      DEF Caller, Call, Written, WriteFailed, Return, Expire, CancelWaiting,
          CancelHolding
    <3>2. QED
      BY <2>1, <3>1, AckFrame
  <2>4. QED
    BY <2>2, <2>3
<1>3. CASE Inspect
  <2>1. PICK known :
          /\ UNCHANGED <<key, copies, handled, outbox, acks, taken, pending>>
          /\ current' = IF IsResend(Head(line), known) THEN NoCall ELSE Head(line)
          /\ outlived' = IF Outlives(Head(line), known) THEN outlived \cup {Head(line)}
                                                       ELSE outlived
    BY <1>3 DEF Inspect, callVars
  <2>2. CASE current' = NoCall
    BY <2>1, <2>2, AckFrame
  <2>3. CASE current' # NoCall
    <3>1. current' = Head(line) /\ ~IsResend(Head(line), known) /\ current' \in Calls
      BY <2>1, <2>3 DEF TypeOK
    <3>2. ASSUME key[current'] = k, current' \in handled, pending[k] = NoCall PROVE FALSE
      <4>1. Outlives(Head(line), known)
        BY <3>1, <3>2 DEF Outlives, IsResend, Unawaited, PendingKey
      <4>2. current' \in outlived'
        BY <2>1, <3>1, <4>1
      <4>3. QED
        BY <2>1, <3>1, <3>2, <4>2 DEF Upset
    <3>3. Owed(k)' = Owed(k)
      BY <2>1 DEF Owed
    <3>4. QED
      BY <2>1, <3>2, <3>3 DEF AckRight
  <2>4. QED
    BY <2>2, <2>3
<1>4. ASSUME NEW c \in Calls, Resend(c) PROVE AckRight(k)'
  <2>1. /\ UNCHANGED <<key, handled, outbox, acks, taken, pending, current>>
        /\ Has(outbox, c)
        /\ \A d \in Calls : d # c => copies'[d] = copies[d]
    BY <1>4 DEF Resend, callVars, readerVars, Has, TypeOK
  <2>2. Owed(k)' = Owed(k)
    BY <2>1 DEF Owed
  <2>3. QED
    BY <2>1, <2>2 DEF AckRight
<1>5. CASE ReaderStops \/ Lose \/ UNCHANGED vars
  BY <1>5, AckFrame DEF ReaderStops, Lose, vars, callVars, lineVars, readerVars
<1>6. QED
  BY <1>1, <1>2, <1>3, <1>4, <1>5, AckAnswer, AckHandlePacket, AckTake
  DEF Next, Dongle

LEMMA HandledFinite ==
    ASSUME IsFiniteSet(handled), [Next]_vars
    PROVE  IsFiniteSet(handled)'
<1>1. CASE HandlePacket
  BY <1>1, FS_AddElement DEF HandlePacket
<1>2. CASE ~HandlePacket
  <2>1. UNCHANGED handled
    BY <1>2
    DEF Next, Acquire, GrantLock, Caller, Call, Written, WriteFailed, Return, Expire,
        TimedOut, CancelWaiting, CancelHolding, Inspect, ReaderStops, Dongle, Answer,
        Resend, TakeAck, ReceiveAck, Lose, callVars, lineVars, readerVars, vars
  <2>2. QED
    BY <2>1
<1>3. QED
  BY <1>1, <1>2

LEMMA SilenceInvariant == Spec => []SilenceIInv
<1>1. Init => IsFiniteSet(handled) /\ AckInv
  <2> SUFFICES ASSUME Init PROVE IsFiniteSet(handled) /\ AckInv
    OBVIOUS
  <2>1. IsFiniteSet(handled)
    BY FS_EmptySet DEF Init
  <2>2. ASSUME NEW k \in AsyncKeys PROVE AckRight(k)
    <3>1. Owed(k) = {} /\ acks[k] = 0
      BY EngineAssumption DEF Init, Owed
    <3>2. acks[k] <= Cardinality(Owed(k))
      BY <3>1, FS_EmptySet
    <3>3. QED
      BY <3>2 DEF Init, AckRight
  <2>3. QED
    BY <2>1, <2>2 DEF AckInv
<1>2. SilenceIInv /\ DeliveryIInv' /\ [Next]_vars => SilenceIInv'
  <2> SUFFICES ASSUME SilenceIInv, DeliveryIInv', [Next]_vars PROVE SilenceIInv'
    OBVIOUS
  <2>1. IsFiniteSet(handled)'
    BY HandledFinite DEF SilenceIInv
  <2>2. ASSUME NEW k \in AsyncKeys PROVE Upset(k)' \/ AckRight(k)'
    <3>1. CASE Upset(k)
      BY <3>1, UpsetStays DEF SilenceIInv
    <3>2. CASE ~Upset(k) /\ AckRight(k)
      BY <3>2, AckStep DEF SilenceIInv, DeliveryIInv
    <3>3. QED
      BY <3>1, <3>2 DEF SilenceIInv, AckInv
  <2>3. QED
    BY <2>1, <2>2 DEF SilenceIInv, AckInv
<1>3. QED
  BY <1>1, <1>2, DeliveryInvariant, PTL DEF Spec, SilenceIInv

\* The dongle drops a reply the host never got only after another call for the
\* same key was given up or served with the wrong reply, or after a copy of the
\* reply to it came when the reader had forgotten it, nobody waiting: however
\* long the reader remembers, and however often the dongle sends a reply.
THEOREM SilencesExplained == Spec => []SilencedExplained
<1>1. SilenceIInv => SilencedExplained
  <2> SUFFICES ASSUME SilenceIInv, NEW c \in Calls,
                      phase[c] = "awaiting", ~HasReply(c), Silenced(c)
               PROVE  \E d \in Calls \ {c} :
                         /\ key[d] = key[c]
                         /\ phase[d] \in Abandoned \/ Misdelivered(d) \/ d \in outlived
    BY DEF SilencedExplained
  <2>1. ~Has(outbox, c) /\ copies[c] > 0 /\ c \notin handled /\ key[c] \in AsyncKeys
    BY DEF Silenced, Has
  <2>2. Upset(key[c])
    BY <2>1 DEF SilenceIInv, AckInv, AckRight
  <2>3. phase[c] \notin Abandoned /\ ~Misdelivered(c)
    BY DEF Abandoned, Misdelivered, HasReply
  <2>4. c \notin outlived
    BY <2>1 DEF SilenceIInv, DeliveryIInv, SlotIInv, TypeOK
  <2>5. QED
    BY <2>2, <2>3, <2>4 DEF Upset
<1>2. QED
  BY <1>1, SilenceInvariant, PTL
\* The state of a call as the service sees it, phase by phase.
LEMMA ServiceStates ==
    /\ ServiceState("unused") = "idle"
    /\ ServiceState("queued") = "waiting"
    /\ \A p \in Holding : ServiceState(p) = "served"
    /\ \A p \in Ended : ServiceState(p) = p
BY DEF ServiceState, Holding, Ended, Abandoned

\* Every step of the engine is a step of the service, or none of its business:
\* calls are served one at a time, in the order of the calls.
THEOREM ImplementsServiceSafely == Spec => Service!ServiceSafety
<1> DEFINE state == [c \in Calls |-> ServiceState(phase[c])]
<1>1. Init => Service!ServiceInit
  BY ServiceStates DEF Init, Service!ServiceInit
<1>2. SlotIInv /\ SlotIInv' /\ [Next]_vars => [Service!ServiceNext]_Service!serviceVars
  <2> SUFFICES ASSUME SlotIInv, SlotIInv', [Next]_vars
               PROVE  [Service!ServiceNext]_Service!serviceVars
    OBVIOUS
  <2>1. ASSUME NEW c \in Calls, NEW p, phase' = [phase EXCEPT ![c] = p]
        PROVE  state' = [state EXCEPT ![c] = ServiceState(p)]
    <3>1. \A d \in Calls : phase'[d] = IF d = c THEN p ELSE phase[d]
      BY <2>1 DEF SlotIInv, TypeOK
    <3>2. QED
      BY <3>1
  <2>2. ASSUME UNCHANGED <<phase, waiters, holder>>
        PROVE  UNCHANGED Service!serviceVars
    BY <2>2 DEF Service!serviceVars
  <2>3. ASSUME NEW c \in Calls, holder = c, holder' = NoCall, UNCHANGED waiters,
               NEW p \in Service!Outcomes, phase' = [phase EXCEPT ![c] = p]
        PROVE  Service!Finish
    <3>1. ServiceState(p) = p
      BY ServiceStates DEF Service!Outcomes, Ended, Abandoned
    <3>2. state' = [state EXCEPT ![holder] = p]
      BY <2>1, <2>3, <3>1
    <3>3. QED
      BY <2>3, <3>2, EngineAssumption DEF Service!Finish
  <2>4. CASE Acquire
    <3>1. PICK c \in Calls : c = Head(waiters)
      BY <2>4, HeadTailProperties DEF Acquire, GrantLock, SlotIInv, TypeOK
    <3>2. phase' = [phase EXCEPT ![c] = "writing"] /\ ServiceState("writing") = "served"
      BY <2>4, <3>1, ServiceStates DEF Acquire, GrantLock, Holding
    <3>3. state' = [state EXCEPT ![c] = "served"]
      BY <2>1, <3>2
    <3>4. Service!Serve
      BY <2>4, <3>1, <3>3 DEF Service!Serve, Acquire, GrantLock
    <3>5. QED
      BY <3>4 DEF Service!ServiceNext
  <2>5. ASSUME NEW c \in Calls, Call(c) PROVE Service!Ask(c)
    <3>1. state' = [state EXCEPT ![c] = "waiting"]
      <4>1. phase' = [phase EXCEPT ![c] = "queued"] /\ ServiceState("queued") = "waiting"
        BY <2>5, ServiceStates DEF Call
      <4>2. QED
        BY <2>1, <4>1
    <3>2. state[c] = "idle"
      BY <2>5, ServiceStates DEF Call
    <3>3. QED
      BY <2>5, <3>1, <3>2 DEF Call, Service!Ask
  <2>6. ASSUME NEW c \in Calls, Written(c) \/ Expire(c)
        PROVE  UNCHANGED Service!serviceVars
    <3>1. PICK p \in Holding : phase' = [phase EXCEPT ![c] = p] /\ phase[c] \in Holding
      BY <2>6 DEF Written, Expire, Holding
    <3>2. state' = [state EXCEPT ![c] = "served"] /\ state[c] = "served"
      BY <2>1, <3>1, ServiceStates
    <3>3. state' = state
      BY <3>2
    <3>4. QED
      BY <2>6, <3>3 DEF Written, Expire, Service!serviceVars
  <2>7. ASSUME NEW c \in Calls,
               WriteFailed(c) \/ Return(c) \/ TimedOut(c) \/ CancelHolding(c)
        PROVE  Service!Finish
    <3>1. holder = c
      BY <2>7 DEF WriteFailed, Return, TimedOut, CancelHolding, SlotIInv, LockInv,
                  Holding
    <3>2. PICK p \in {"error", "ok", "timeout", "cancelled", "aborted"} :
            phase' = [phase EXCEPT ![c] = p]
      BY <2>7 DEF WriteFailed, Return, TimedOut, CancelHolding
    <3>3. p # "aborted"
      <4>1. phase'[c] = p
        BY <3>2 DEF SlotIInv, TypeOK
      <4>2. QED
        BY <4>1 DEF SlotIInv, WaiterKeepsSlot
    <3>4. holder' = NoCall /\ UNCHANGED waiters
      BY <2>7 DEF WriteFailed, Return, TimedOut, CancelHolding
    <3>5. QED
      BY <2>3, <3>1, <3>2, <3>3, <3>4 DEF Service!Outcomes
  <2>8. ASSUME NEW c \in Calls, CancelWaiting(c) PROVE Service!Withdraw
    <3>1. PICK i \in DOMAIN waiters : waiters[i] = c /\ waiters' = RemoveAt(waiters, i)
      BY <2>8 DEF CancelWaiting
    <3>2. state' = [state EXCEPT ![waiters[i]] = "cancelled"]
      <4>1. /\ phase' = [phase EXCEPT ![c] = "cancelled"]
            /\ ServiceState("cancelled") = "cancelled"
        BY <2>8, ServiceStates DEF CancelWaiting, Ended, Abandoned
      <4>2. QED
        BY <2>1, <3>1, <4>1
    <3>3. QED
      BY <2>8, <3>1, <3>2
      DEF CancelWaiting, Service!Withdraw, RemoveAt, Service!RemoveAt
  <2>9. CASE \/ Inspect \/ HandlePacket \/ ReaderStops \/ Lose
             \/ (\E c \in Calls : Dongle(c)) \/ (\E k \in Keys : TakeAck(k))
             \/ UNCHANGED vars
    <3> SUFFICES UNCHANGED <<phase, waiters, holder>>
      BY <2>2
    <3> QED
      BY <2>9
      DEF Inspect, HandlePacket, ReaderStops, Lose, Dongle, Answer, Resend, TakeAck,
          ReceiveAck, callVars, vars
  <2>10. ASSUME NEW c \in Calls, Caller(c)
         PROVE  Service!ServiceNext \/ UNCHANGED Service!serviceVars
    BY <2>5, <2>6, <2>7, <2>8, <2>10 DEF Caller, Service!ServiceNext
  <2>11. QED
    BY <2>4, <2>9, <2>10 DEF Next
<1>3. QED
  BY <1>1, <1>2, SlotInvariant, PTL DEF Spec, Service!ServiceSafety

-------------------------------------------------------------------------------
(* Scanning and pairing. *)

\* Requests, timers and workers are different tasks, and each request has a
\* timer of its own.
LEMMA TaskNames ==
    /\ Requests \subseteq Nat /\ Timers \subseteq Nat
    /\ Requests \cap Timers = {} /\ Requests \cap Dongles = {} /\ Timers \cap Dongles = {}
    /\ \A r \in Requests : Timer(r) \in Timers
    /\ \A r, q \in Requests : Timer(r) = Timer(q) => r = q
  BY ScanningAssumption DEF Requests, Timers, Timer

LEMMA IdleDoing ==
    Idle \in Doing /\ Idle.at = "idle" /\ Idle.from = "web" /\ Idle.dongle = Nobody
  BY DEF Idle, Doing, Steps, Origins

\* A task other than t goes on as it was.
Apart(t) == \A u \in Tasks \ {t} : task'[u] = task[u]
Same(t) == /\ task'[t].from = task[t].from /\ task'[t].dongle = task[t].dongle
           /\ task'[t].other = task[t].other
Goes(t, at) == task' \in [Tasks -> Doing] /\ Apart(t) /\ Same(t) /\ task'[t].at = at
Ends(t) == /\ task' \in [Tasks -> Doing] /\ Apart(t) /\ task'[t].at = "idle"
           /\ IF t \in Dongles THEN Same(t) ELSE task'[t] = Idle

LEMMA MoveTask ==
    ASSUME task \in [Tasks -> Doing], NEW t \in Tasks, NEW at \in Steps, Move(t, at)
    PROVE  Goes(t, at)
<1> DEFINE x == [task[t] EXCEPT !.at = at]
<1>1. task[t] \in Doing
  OBVIOUS
<1>2. /\ x \in Doing /\ x.at = at
      /\ x.from = task[t].from /\ x.dongle = task[t].dongle /\ x.other = task[t].other
  BY <1>1 DEF Doing
<1>3. task' = [task EXCEPT ![t] = x]
  BY DEF Move
<1> HIDE DEF x
<1>4. QED
  BY <1>2, <1>3 DEF Goes, Same, Apart

LEMMA EndTask ==
    ASSUME task \in [Tasks -> Doing], NEW t \in Tasks, End(t)
    PROVE  Ends(t)
<1> DEFINE x == IF t \in Dongles THEN [task[t] EXCEPT !.at = "idle"] ELSE Idle
<1>1. task[t] \in Doing
  OBVIOUS
<1>2. /\ x \in Doing /\ x.at = "idle"
      /\ t \in Dongles => /\ x.from = task[t].from /\ x.dongle = task[t].dongle
                          /\ x.other = task[t].other
      /\ t \notin Dongles => x = Idle
  BY <1>1, IdleDoing DEF Doing, Steps
<1>3. task' = [task EXCEPT ![t] = x]
  BY DEF End
<1> HIDE DEF x
<1>4. QED
  BY <1>2, <1>3 DEF Ends, Same, Apart

\* What has gone wrong at a dongle is not forgotten.
Grows == \A d \in Dongles : causes[d] \subseteq causes'[d]
LEMMA BlameGrows ==
    ASSUME causes \in [Dongles -> SUBSET Causes], NEW d \in Dongles, NEW c \in Causes, Blame(d, c)
    PROVE  causes' \in [Dongles -> SUBSET Causes] /\ Grows /\ c \in causes'[d]
  BY DEF Blame, Grows

LEMMA MishapGrows ==
    ASSUME causes \in [Dongles -> SUBSET Causes], upsets \in Nat,
           NEW d \in Dongles, NEW outcome, Mishap(d, outcome)
    PROVE  /\ causes' \in [Dongles -> SUBSET Causes] /\ upsets' \in Nat /\ Grows
           /\ outcome = "ok" \/ "lost" \in causes'[d]
<1>1. "lost" \in Causes
  BY DEF Causes
<1>2. CASE outcome = "ok"
  BY <1>2 DEF Mishap, Grows
<1>3. CASE outcome # "ok"
  BY <1>1, <1>3, BlameGrows DEF Mishap
<1>4. QED
  BY <1>2, <1>3

LEMMA SetModeGrows ==
    ASSUME causes \in [Dongles -> SUBSET Causes], upsets \in Nat, mode \in [Dongles -> BOOLEAN],
           NEW d \in Dongles, NEW value \in BOOLEAN, NEW outcome, SetMode(d, value, outcome)
    PROVE  /\ causes' \in [Dongles -> SUBSET Causes] /\ upsets' \in Nat /\ Grows
           /\ mode' \in [Dongles -> BOOLEAN]
           /\ \A e \in Dongles \ {d} : mode'[e] = mode[e]
           /\ \/ "lost" \in causes'[d]
              \/ /\ outcome = "ok" /\ mode'[d] = value
                 /\ Unsaid(d, value) => "crossed" \in causes'[d]
           /\ outcome = "ok" \/ "lost" \in causes'[d]
<1>1. mode' \in [Dongles -> BOOLEAN] /\ \A e \in Dongles \ {d} : mode'[e] = mode[e]
  BY DEF SetMode
<1>2. CASE outcome = "ok"
  <2>1. mode'[d] = value /\ upsets' \in Nat
    BY <1>2 DEF SetMode
  <2>2. CASE Unsaid(d, value)
    <3>1. Blame(d, "crossed") /\ "crossed" \in Causes
      BY <1>2, <2>2 DEF SetMode, Causes
    <3>2. QED
      BY <1>1, <1>2, <2>1, <3>1, BlameGrows
  <2>3. CASE ~Unsaid(d, value)
    <3>1. causes' = causes
      BY <1>2, <2>3 DEF SetMode
    <3>2. QED
      BY <1>1, <1>2, <2>1, <2>3, <3>1 DEF Grows
  <2>4. QED
    BY <2>2, <2>3
<1>3. CASE outcome # "ok"
  <2>1. Mishap(d, outcome)
    BY <1>3 DEF SetMode
  <2>2. QED
    BY <1>1, <1>3, <2>1, MishapGrows
<1>4. QED
  BY <1>2, <1>3

-------------------------------------------------------------------------------
\* A task is where the program can take one of its kind, with what it needs.
Placed(t) ==
    /\ t \in Dongles => task[t].from = "worker" /\ task[t].dongle = t
    /\ task[t].at # "idle" => task[t].dongle \in Dongles
    /\ task[t].at \in {"check", "asking", "stop", "stopped", "range", "on", "saying on"} => t \in Requests
    /\ task[t].at = "wait" => t \in Timers
    /\ t \in Timers => task[t].at \in {"idle", "wait", "off", "saying off"}
    /\ task[t].at \in {"stop", "stopped"} => task[t].other \in Dongles
    /\ task[t].at \in {"r1", "verify"} => task[t].from \in {"worker", "verify"}
    /\ task[t].from = "worker" => t \in Dongles
    /\ task[t].from = "verify" => t \in Requests

\* A request is issued once, and its timer starts when it has ended.
Ordered(r) ==
    /\ r > requested => task[r].at = "idle"
    /\ r > requested \/ task[r].at # "idle" => task[Timer(r)].at = "idle"

Places == (\A t \in Tasks : Placed(t)) /\ (\A r \in Requests : Ordered(r))
PlacesIInv == ScanTypeOK /\ Places

LEMMA PlacesUpdate ==
    ASSUME Places, NEW t \in Tasks, task[t].at # "idle" \/ t \in Dongles, requested' = requested,
           Apart(t), Placed(t)'
    PROVE  Places'
<1>1. ASSUME NEW u \in Tasks PROVE Placed(u)'
  <2>1. CASE u # t
    BY <2>1 DEF Places, Placed, Apart
  <2>2. QED
    BY <2>1
<1>2. ASSUME NEW r \in Requests PROVE Ordered(r)'
  <2>1. Ordered(r)
    BY DEF Places
  <2>2. r \in Tasks /\ Timer(r) \in Tasks /\ r # Timer(r) /\ r \notin Dongles /\ Timer(r) \notin Dongles
    BY TaskNames DEF Tasks
  <2>3. CASE t \notin {r, Timer(r)}
    BY <2>1, <2>2, <2>3 DEF Ordered, Apart
  <2>4. CASE t = r
    BY <2>1, <2>2, <2>4 DEF Ordered, Apart
  <2>5. CASE t = Timer(r)
    BY <2>1, <2>2, <2>5 DEF Ordered, Apart
  <2>6. QED
    BY <2>3, <2>4, <2>5
<1>3. QED
  BY <1>1, <1>2 DEF Places

LEMMA EndPlaced ==
    ASSUME NEW t \in Tasks, Placed(t), Ends(t) PROVE Placed(t)'
  BY TaskNames, IdleDoing DEF Placed, Ends, Same, Tasks

LEMMA MovePlaced ==
    ASSUME NEW t \in Tasks, Placed(t), task[t].dongle \in Dongles, NEW at \in Steps, Goes(t, at),
           \/ t \in Requests /\ at \notin {"stop", "stopped", "wait", "r1", "verify"}
           \/ t \in Requests /\ at = "stopped" /\ task[t].other \in Dongles
           \/ at \in {"off", "saying off"}
           \/ task[t].from \in {"worker", "verify"} /\ at \in {"r1", "verify"}
    PROVE  Placed(t)'
  BY TaskNames DEF Placed, Goes, Same

LEMMA PlacesIssue ==
    ASSUME PlacesIInv, NEW d \in Dongles,
           NEW from \in {"web", "mqtt", "verify"}, NEW at \in {"check", "off", "r1"},
           at = "r1" => from = "verify", Issue(d, from, at)
    PROVE  /\ requested + 1 \in Requests /\ requested' = requested + 1
           /\ task' \in [Tasks -> Doing] /\ Apart(requested + 1)
           /\ task'[requested + 1].at = at /\ task'[requested + 1].from = from
           /\ task'[requested + 1].dongle = d
           /\ Places'
<1> DEFINE r == requested + 1
           x == [Idle EXCEPT !.at = at, !.from = from, !.dongle = d]
<1>1. requested \in Nat /\ task \in [Tasks -> Doing]
  BY DEF PlacesIInv, ScanTypeOK
<1>2. r \in Requests /\ r \in Tasks /\ r \notin Dongles /\ r \notin Timers
  BY <1>1, TaskNames, ScanningAssumption DEF Issue, Requests, Tasks
<1>3. x \in Doing /\ x.at = at /\ x.from = from /\ x.dongle = d
  BY DEF Idle, Doing, Steps, Origins
<1>4. task' = [task EXCEPT ![r] = x] /\ requested' = r
  BY DEF Issue
<1> HIDE DEF x
<1>5. task' \in [Tasks -> Doing] /\ task'[r] = x /\ Apart(r)
  BY <1>1, <1>2, <1>3, <1>4 DEF Apart
<1>6. ASSUME NEW u \in Tasks PROVE Placed(u)'
  <2>1. CASE u # r
    BY <1>5, <2>1 DEF Places, PlacesIInv, Placed, Apart
  <2>2. CASE u = r
    BY <1>2, <1>3, <1>5, <2>2 DEF Placed
  <2>3. QED
    BY <2>1, <2>2
<1>7. ASSUME NEW q \in Requests PROVE Ordered(q)'
  <2>1. Ordered(q) /\ q \in Nat
    BY TaskNames DEF Places, PlacesIInv
  <2>2. q \in Tasks /\ Timer(q) \in Tasks /\ Timer(q) # r
    BY <1>2, TaskNames DEF Tasks
  <2>3. task'[Timer(q)] = task[Timer(q)] /\ (q # r => task'[q] = task[q])
    BY <1>5, <2>2 DEF Apart
  <2>4. CASE q = r
    BY <1>1, <1>4, <2>1, <2>3, <2>4 DEF Ordered
  <2>5. CASE q # r
    BY <1>1, <1>4, <2>1, <2>3, <2>5 DEF Ordered
  <2>6. QED
    BY <2>4, <2>5
<1>8. Places'
  BY <1>6, <1>7 DEF Places
<1> QED
  BY <1>2, <1>3, <1>4, <1>5, <1>8

\* What each step of a task does to the tasks.
LEMMA CheckTask ==
    ASSUME PlacesIInv, NEW t \in Tasks, Check(t)
    PROVE  /\ task[t].at = "check" /\ t \in Requests /\ task[t].dongle \in Dongles
           /\ causes' \in [Dongles -> SUBSET Causes] /\ Grows
           /\ \/ Ends(t)
              \/ /\ Goes(t, "asking") \/ Goes(t, "on")
                 /\ \A e \in Dongles \ {task[t].dongle} : ~flag[e]
                 /\ (\E u \in Starting(t) : task[u].dongle # task[t].dongle)
                       => "raced" \in causes'[task[t].dongle]
<1> DEFINE d == task[t].dongle
           scanning == \E e \in Dongles \ {d} : flag[e]
<1>1. task \in [Tasks -> Doing] /\ causes \in [Dongles -> SUBSET Causes] /\ Placed(t)
  BY DEF PlacesIInv, Places, ScanTypeOK
<1>2. Checked(t, scanning)
  BY DEF Check
<1>3. task[t].at = "check" /\ t \in Requests /\ d \in Dongles
  BY <1>1, <1>2 DEF Checked, Placed
<1>4. CASE scanning
  <2>1. End(t) /\ causes' = causes
    BY <1>2, <1>4 DEF Checked
  <2> HIDE DEF d, scanning
  <2>2. QED
    BY <1>1, <1>3, <2>1, EndTask DEF Grows, d
<1>5. CASE ~scanning
  <2> DEFINE x == [task[t] EXCEPT !.at = IF shared THEN "asking" ELSE "on", !.todo = Dongles \ {d}]
  <2>1. task[t] \in Doing
    BY <1>1
  <2>2. /\ x \in Doing /\ x.at \in {"asking", "on"}
        /\ x.from = task[t].from /\ x.dongle = task[t].dongle /\ x.other = task[t].other
    BY <2>1 DEF Doing, Steps
  <2>3. task' = [task EXCEPT ![t].at = IF shared THEN "asking" ELSE "on", ![t].todo = Dongles \ {d}]
    BY <1>2, <1>5 DEF Checked
  <2>4. task' = [task EXCEPT ![t] = x]
    BY <1>1, <2>1, <2>3 DEF Doing
  <2>5. IF \E u \in Starting(t) : task[u].dongle # d THEN Blame(d, "raced") ELSE UNCHANGED causes
    BY <1>2, <1>5 DEF Checked
  <2>6. \A e \in Dongles \ {d} : ~flag[e]
    BY <1>5
  <2> HIDE DEF x
  <2>7. Goes(t, "asking") \/ Goes(t, "on")
    BY <1>1, <2>2, <2>4 DEF Goes, Same, Apart
  <2>8. "raced" \in Causes
    BY DEF Causes
  <2>9. /\ causes' \in [Dongles -> SUBSET Causes] /\ Grows
        /\ (\E u \in Starting(t) : task[u].dongle # d) => "raced" \in causes'[d]
    BY <1>1, <1>3, <2>5, <2>8, BlameGrows DEF Grows
  <2>10. QED
    BY <1>3, <2>6, <2>7, <2>9
<1>6. QED
  BY <1>4, <1>5

LEMMA AskTask ==
    ASSUME PlacesIInv, NEW t \in Tasks, Ask(t)
    PROVE  /\ task[t].at = "asking" /\ t \in Requests /\ task[t].dongle \in Dongles
           /\ task' \in [Tasks -> Doing] /\ Apart(t)
           /\ task'[t].at \in {"asking", "stop", "range"}
           /\ task'[t].from = task[t].from /\ task'[t].dongle = task[t].dongle
           /\ task'[t].at = "stop" => task'[t].other \in Dongles
<1>1. task \in [Tasks -> Doing] /\ Placed(t) /\ task[t] \in Doing
  BY DEF PlacesIInv, Places, ScanTypeOK
<1>2. task[t].at = "asking" /\ t \in Requests /\ task[t].dongle \in Dongles
  BY <1>1 DEF Ask, Placed
<1>3. CASE task[t].todo = {}
  <2>1. Move(t, "range") /\ "range" \in Steps
    BY <1>3 DEF Ask, Steps
  <2>2. QED
    BY <1>1, <1>2, <2>1, MoveTask DEF Goes, Same
<1>4. CASE task[t].todo # {}
  <2>1. PICK o \in task[t].todo :
          task' = [task EXCEPT ![t].todo = @ \ {o}, ![t].other = IF flag[o] THEN o ELSE Nobody,
                               ![t].at = IF flag[o] THEN "stop" ELSE "asking"]
    BY <1>4 DEF Ask
  <2>2. o \in Dongles
    BY <1>1 DEF Doing
  <2> DEFINE x == [task[t] EXCEPT !.todo = @ \ {o}, !.other = IF flag[o] THEN o ELSE Nobody,
                                  !.at = IF flag[o] THEN "stop" ELSE "asking"]
  <2>3. /\ x \in Doing /\ x.at \in {"asking", "stop"}
        /\ x.from = task[t].from /\ x.dongle = task[t].dongle
        /\ x.at = "stop" => x.other = o
    BY <1>1, <2>2 DEF Doing, Steps
  <2>4. task' = [task EXCEPT ![t] = x]
    BY <1>1, <2>1 DEF Doing
  <2> HIDE DEF x
  <2>5. QED
    BY <1>1, <1>2, <2>2, <2>3, <2>4 DEF Apart
<1>5. QED
  BY <1>3, <1>4

LEMMA StopTask ==
    ASSUME PlacesIInv, NEW t \in Tasks, NEW outcome \in Outcomes, Stop(t, outcome)
    PROVE  /\ task[t].at = "stop" /\ task[t].dongle \in Dongles /\ t \in Requests /\ task[t].other \in Dongles
           /\ \/ outcome = "ok" /\ Goes(t, "stopped")
              \/ outcome # "ok" /\ Ends(t)
<1>1. task \in [Tasks -> Doing] /\ Placed(t) /\ "stopped" \in Steps
  BY DEF PlacesIInv, Places, ScanTypeOK, Steps
<1>2. /\ task[t].at = "stop" /\ task[t].dongle \in Dongles /\ t \in Requests /\ task[t].other \in Dongles
      /\ IF outcome = "ok" THEN Move(t, "stopped") ELSE End(t)
  BY <1>1, TaskNames DEF Stop, Placed, Tasks
<1>3. QED
  BY <1>1, <1>2, MoveTask, EndTask

LEMMA SetRangeTask ==
    ASSUME PlacesIInv, NEW t \in Tasks, NEW outcome \in Outcomes, SetRange(t, outcome)
    PROVE  /\ task[t].at = "range" /\ task[t].dongle \in Dongles /\ t \in Requests
           /\ \/ outcome = "ok" /\ Goes(t, "on")
              \/ outcome # "ok" /\ Ends(t)
<1>1. task \in [Tasks -> Doing] /\ Placed(t) /\ "on" \in Steps
  BY DEF PlacesIInv, Places, ScanTypeOK, Steps
<1>2. /\ task[t].at = "range" /\ task[t].dongle \in Dongles /\ t \in Requests
      /\ IF outcome = "ok" THEN Move(t, "on") ELSE End(t)
  BY <1>1, TaskNames DEF SetRange, Placed, Tasks
<1>3. QED
  BY <1>1, <1>2, MoveTask, EndTask

LEMMA TurnOnTask ==
    ASSUME PlacesIInv, NEW t \in Tasks, NEW outcome \in Outcomes, TurnOn(t, outcome)
    PROVE  /\ task[t].at = "on" /\ task[t].dongle \in Dongles /\ t \in Requests
           /\ \/ outcome = "ok" /\ Goes(t, "saying on")
              \/ outcome # "ok" /\ Ends(t)
<1>1. task \in [Tasks -> Doing] /\ Placed(t) /\ "saying on" \in Steps
  BY DEF PlacesIInv, Places, ScanTypeOK, Steps
<1>2. /\ task[t].at = "on" /\ task[t].dongle \in Dongles /\ t \in Requests
      /\ IF outcome = "ok" THEN Move(t, "saying on") ELSE End(t)
  BY <1>1, TaskNames DEF TurnOn, Placed, Tasks
<1>3. QED
  BY <1>1, <1>2, MoveTask, EndTask

LEMMA ExchangeTask ==
    ASSUME PlacesIInv, NEW t \in Tasks, NEW outcome \in Outcomes, Exchange(t, outcome)
    PROVE  /\ task[t].at = "r1" /\ task[t].dongle \in Dongles /\ t \notin Timers
           /\ \/ outcome = "ok" /\ Goes(t, "off")
              \/ outcome # "ok" /\ Ends(t)
<1>1. task \in [Tasks -> Doing] /\ Placed(t) /\ "off" \in Steps
  BY DEF PlacesIInv, Places, ScanTypeOK, Steps
<1>2. /\ task[t].at = "r1" /\ task[t].dongle \in Dongles /\ t \notin Timers
      /\ IF outcome = "ok" THEN Move(t, "off") ELSE End(t)
  BY <1>1, TaskNames DEF Exchange, Placed, Tasks
<1>3. QED
  BY <1>1, <1>2, MoveTask, EndTask

LEMMA TurnOffTask ==
    ASSUME PlacesIInv, NEW t \in Tasks, NEW outcome \in Outcomes, TurnOff(t, outcome)
    PROVE  /\ task[t].at = "off" /\ task[t].dongle \in Dongles
           /\ \/ outcome = "ok" /\ Goes(t, "saying off")
              \/ outcome # "ok" /\ Goes(t, "verify") /\ task[t].from \in {"worker", "verify"}
              \/ outcome # "ok" /\ Ends(t)
<1>1. task \in [Tasks -> Doing] /\ Placed(t) /\ "saying off" \in Steps /\ "verify" \in Steps
  BY DEF PlacesIInv, Places, ScanTypeOK, Steps
<1>2. task[t].at = "off" /\ task[t].dongle \in Dongles
  BY <1>1 DEF TurnOff, Placed
<1>3. \/ outcome = "ok" /\ Move(t, "saying off")
      \/ outcome # "ok" /\ Move(t, "verify") /\ task[t].from \in {"worker", "verify"}
      \/ outcome # "ok" /\ End(t)
  BY DEF TurnOff
<1>4. QED
  BY <1>1, <1>2, <1>3, MoveTask, EndTask

LEMMA VerifyTask ==
    ASSUME PlacesIInv, NEW t \in Tasks, NEW outcome \in Outcomes, Verify(t, outcome)
    PROVE  task[t].at = "verify" /\ task[t].dongle \in Dongles /\ Ends(t)
<1>1. task \in [Tasks -> Doing] /\ Placed(t)
  BY DEF PlacesIInv, Places, ScanTypeOK
<1>2. task[t].at = "verify" /\ task[t].dongle \in Dongles /\ End(t)
  BY <1>1 DEF Verify, Placed
<1>3. QED
  BY <1>1, <1>2, EndTask

LEMMA StoppedTask ==
    ASSUME PlacesIInv, NEW t \in Tasks, Stopped(t)
    PROVE  /\ task[t].at = "stopped" /\ t \in Requests
           /\ task[t].dongle \in Dongles /\ task[t].other \in Dongles
           /\ task' \in [Tasks -> Doing] /\ Apart(t)
           /\ task'[t].at = "asking"
           /\ task'[t].from = task[t].from /\ task'[t].dongle = task[t].dongle
<1>1. task \in [Tasks -> Doing] /\ Placed(t) /\ task[t] \in Doing
  BY DEF PlacesIInv, Places, ScanTypeOK
<1>2. /\ task[t].at = "stopped" /\ t \in Requests
      /\ task[t].dongle \in Dongles /\ task[t].other \in Dongles
  BY <1>1 DEF Stopped, Placed
<1> DEFINE x == [task[t] EXCEPT !.at = "asking", !.other = Nobody]
<1>3. x \in Doing /\ x.at = "asking" /\ x.from = task[t].from /\ x.dongle = task[t].dongle
  BY <1>1 DEF Doing, Steps
<1>4. task' = [task EXCEPT ![t] = x]
  BY <1>1 DEF Stopped, Doing
<1> HIDE DEF x
<1>5. QED
  BY <1>1, <1>2, <1>3, <1>4 DEF Apart

LEMMA SayOnTask ==
    ASSUME PlacesIInv, NEW t \in Tasks, SayOn(t)
    PROVE  /\ task[t].at = "saying on" /\ t \in Requests /\ task[t].dongle \in Dongles
           /\ Timer(t) \in Timers /\ Timer(t) # t /\ task[Timer(t)].at = "idle"
           /\ task' \in [Tasks -> Doing] /\ task'[t] = Idle
           /\ task'[Timer(t)].at = "wait" /\ task'[Timer(t)].dongle = task[t].dongle
           /\ task'[Timer(t)].from \in {"timer", "page"}
           /\ \A u \in Tasks \ {t, Timer(t)} : task'[u] = task[u]
<1>1. task \in [Tasks -> Doing] /\ Placed(t) /\ requested \in Nat
  BY DEF PlacesIInv, Places, ScanTypeOK
<1>2. task[t].at = "saying on" /\ t \in Requests /\ task[t].dongle \in Dongles
  BY <1>1 DEF SayOn, Placed
<1>3. Timer(t) \in Timers /\ Timer(t) # t /\ Timer(t) \in Tasks
  BY <1>2, TaskNames DEF Tasks
<1>4. task[Timer(t)].at = "idle"
  BY <1>2 DEF PlacesIInv, Places, Ordered
<1> DEFINE x == [Idle EXCEPT !.at = "wait", !.dongle = task[t].dongle,
                             !.from = IF task[t].from = "mqtt" THEN "timer" ELSE "page"]
<1>5. /\ x \in Doing /\ x.at = "wait" /\ x.dongle = task[t].dongle
      /\ x.from \in {"timer", "page"}
  BY <1>2 DEF Idle, Doing, Steps, Origins
<1>6. task' = [task EXCEPT ![t] = Idle, ![Timer(t)] = x]
  BY DEF SayOn
<1> HIDE DEF x
<1>7. QED
  BY <1>1, <1>2, <1>3, <1>4, <1>5, <1>6, IdleDoing

LEMMA SayOffTask ==
    ASSUME PlacesIInv, NEW t \in Tasks, SayOff(t)
    PROVE  /\ task[t].at = "saying off" /\ task[t].dongle \in Dongles
           /\ \/ Goes(t, "verify") /\ task[t].from \in {"worker", "verify"}
              \/ Ends(t)
<1>1. task \in [Tasks -> Doing] /\ Placed(t) /\ "verify" \in Steps
  BY DEF PlacesIInv, Places, ScanTypeOK, Steps
<1>2. task[t].at = "saying off" /\ task[t].dongle \in Dongles
  BY <1>1 DEF SayOff, Placed
<1>3. \/ Move(t, "verify") /\ task[t].from \in {"worker", "verify"}
      \/ End(t)
  BY DEF SayOff
<1>4. QED
  BY <1>1, <1>2, <1>3, MoveTask, EndTask

LEMMA FireTask ==
    ASSUME PlacesIInv, NEW t \in Timers, Fire(t) \/ ClosePage(t)
    PROVE  /\ t \in Tasks /\ task[t].at = "wait" /\ task[t].dongle \in Dongles
           /\ Goes(t, "off") \/ Ends(t)
<1>1. task \in [Tasks -> Doing] /\ t \in Tasks /\ "off" \in Steps
  BY DEF PlacesIInv, ScanTypeOK, Steps, Tasks
<1>2. Placed(t)
  BY <1>1 DEF PlacesIInv, Places
<1>3. task[t].at = "wait" /\ task[t].dongle \in Dongles /\ (Move(t, "off") \/ End(t))
  BY <1>2 DEF Fire, ClosePage, Placed
<1>4. QED
  BY <1>1, <1>3, MoveTask, EndTask

LEMMA PickUpTask ==
    ASSUME PlacesIInv, NEW d \in Dongles, PickUp(d)
    PROVE  /\ d \in Tasks /\ d \notin Requests /\ d \notin Timers
           /\ task[d].at = "idle" /\ task[d].dongle = d /\ task[d].from = "worker"
           /\ (flag[d] /\ Goes(d, "r1")) \/ task' = task
<1>1. task \in [Tasks -> Doing] /\ d \in Tasks /\ "r1" \in Steps
  BY DEF PlacesIInv, ScanTypeOK, Steps, Tasks
<1>2. Placed(d)
  BY <1>1 DEF PlacesIInv, Places
<1>3. task[d].at = "idle" /\ IF flag[d] THEN Move(d, "r1") ELSE task' = task
  BY DEF PickUp, Picked
<1>4. QED
  BY <1>1, <1>2, <1>3, MoveTask, TaskNames DEF Placed

\* Every task is in its place, and every variable has its type, whoever scans
\* and whatever is lost.
LEMMA PlacesStep ==
    ASSUME PlacesIInv, [ScanNext]_scanVars
    PROVE  PlacesIInv'
<1> USE DEF sensorVars, boundVars
<1>1. ScanTypeOK /\ Places /\ \A t \in Tasks : Placed(t)
  BY DEF PlacesIInv, Places
<1>2. ASSUME NEW d \in Dongles, NEW from \in {"web", "mqtt"}, AskOn(d, from) \/ AskOff(d, from)
      PROVE  PlacesIInv'
  <2>1. /\ Issue(d, from, "check") \/ Issue(d, from, "off")
        /\ UNCHANGED causes
    BY <1>2 DEF AskOn, AskOff
  <2>2. requested' \in Nat /\ task' \in [Tasks -> Doing] /\ Places'
    BY <1>1, <2>1, PlacesIssue DEF ScanTypeOK
  <2>3. UNCHANGED <<shared, mode, flag, sensorVars, upsets>>
    BY <2>1 DEF Issue
  <2>4. QED
    BY <1>1, <2>1, <2>2, <2>3 DEF PlacesIInv, ScanTypeOK
<1>3. ASSUME NEW d \in Dongles, AskVerify(d) PROVE PlacesIInv'
  <2>1. Issue(d, "verify", "r1") /\ Blame(d, "manual") /\ "manual" \in Causes
    BY <1>3 DEF AskVerify, Causes
  <2>2. requested' \in Nat /\ task' \in [Tasks -> Doing] /\ Places'
    BY <1>1, <2>1, PlacesIssue DEF ScanTypeOK
  <2>3. UNCHANGED <<shared, mode, flag, sensorVars, upsets>>
    BY <2>1 DEF Issue
  <2>4. causes' \in [Dongles -> SUBSET Causes]
    BY <1>1, <2>1, BlameGrows DEF ScanTypeOK
  <2>5. QED
    BY <1>1, <2>2, <2>3, <2>4 DEF PlacesIInv, ScanTypeOK
<1>4. ASSUME NEW t \in Tasks, Step(t) PROVE PlacesIInv'
  <2>1. CASE Check(t)
    <3>1. UNCHANGED <<shared, mode, flag, sensorVars, boundVars>>
      BY <2>1 DEF Check, Checked
    <3>2. Placed(t)' /\ Apart(t) /\ task' \in [Tasks -> Doing]
      BY <1>1, <2>1, CheckTask, MovePlaced, EndPlaced DEF Goes, Ends, Steps
    <3>3. QED
      BY <1>1, <2>1, <3>1, <3>2, CheckTask, PlacesUpdate DEF PlacesIInv, ScanTypeOK
  <2>2. CASE Ask(t)
    <3>1. UNCHANGED <<shared, mode, flag, sensorVars, boundVars, causes>>
      BY <2>2 DEF Ask
    <3>2. Placed(t)'
      BY <1>1, <2>2, AskTask, TaskNames DEF Placed
    <3>3. QED
      BY <1>1, <2>2, <3>1, <3>2, AskTask, PlacesUpdate DEF PlacesIInv, ScanTypeOK
  <2>3. CASE Stopped(t)
    <3>1. /\ UNCHANGED <<shared, mode, sensorVars, boundVars, causes>>
          /\ Say(task[t].other, FALSE)
      BY <2>3 DEF Stopped
    <3>2. Placed(t)'
      BY <1>1, <2>3, StoppedTask, TaskNames DEF Placed
    <3>3. flag' \in [Dongles -> BOOLEAN]
      BY <1>1, <3>1 DEF Say, ScanTypeOK
    <3>4. QED
      BY <1>1, <2>3, <3>1, <3>2, <3>3, StoppedTask, PlacesUpdate DEF PlacesIInv, ScanTypeOK
  <2>4. CASE SayOn(t)
    <3>1. UNCHANGED <<shared, mode, sensorVars, boundVars>>
      BY <2>4 DEF SayOn
    <3>2. flag' \in [Dongles -> BOOLEAN] /\ causes' \in [Dongles -> SUBSET Causes]
      BY <1>1, <2>4 DEF SayOn, Say, ScanTypeOK, Causes
    <3>3. ASSUME NEW u \in Tasks PROVE Placed(u)'
      <4>1. CASE u \notin {t, Timer(t)}
        <5>1. task'[u] = task[u] /\ Placed(u)
          BY <1>1, <2>4, <4>1, SayOnTask
        <5>2. QED
          BY <5>1 DEF Placed
      <4>2. CASE u = t
        BY <1>1, <2>4, <4>2, SayOnTask, IdleDoing, TaskNames DEF Placed
      <4>3. CASE u = Timer(t)
        BY <1>1, <2>4, <4>3, SayOnTask, TaskNames DEF Placed
      <4>4. QED
        BY <4>1, <4>2, <4>3
    <3>4. ASSUME NEW r \in Requests PROVE Ordered(r)'
      <4>1. Ordered(r) /\ Ordered(t) /\ t \in Requests
        BY <1>1, <2>4, SayOnTask DEF Places
      <4>2. /\ r \in Tasks /\ Timer(r) \in Tasks /\ r \notin Timers
            /\ Timer(r) \notin Requests /\ (r # t => Timer(r) # Timer(t))
        BY <4>1, TaskNames DEF Tasks
      <4>3. requested \in Nat /\ r \in Nat /\ t \in Nat /\ requested' = requested
        BY <1>1, <3>1, <4>1, TaskNames DEF ScanTypeOK
      <4>4. CASE r # t
        <5>1. task'[r] = task[r] /\ task'[Timer(r)] = task[Timer(r)]
          BY <1>1, <2>4, <4>1, <4>2, <4>4, SayOnTask
        <5>2. QED
          BY <4>1, <4>3, <5>1 DEF Ordered
      <4>5. CASE r = t
        <5>1. task'[r].at = "idle" /\ task[r].at # "idle"
          BY <2>4, <4>5, SayOnTask, IdleDoing
        <5>2. QED
          BY <4>1, <4>3, <5>1 DEF Ordered
      <4>6. QED
        BY <4>4, <4>5
    <3>5. QED
      BY <1>1, <2>4, <3>1, <3>2, <3>3, <3>4, SayOnTask DEF PlacesIInv, Places, ScanTypeOK
  <2>5. CASE SayOff(t)
    <3>1. /\ UNCHANGED <<shared, mode, sensorVars, boundVars, causes>>
          /\ Say(task[t].dongle, FALSE)
      BY <2>5 DEF SayOff
    <3>2. Placed(t)' /\ Apart(t) /\ task' \in [Tasks -> Doing]
      <4>1. \/ Goes(t, "verify") /\ task[t].from \in {"worker", "verify"}
            \/ Ends(t)
        BY <2>5, SayOffTask
      <4>2. task[t].from \in {"worker", "verify"} => t \in Dongles \/ t \in Requests
        BY <1>1 DEF Placed
      <4>3. QED
        BY <1>1, <2>5, <4>1, <4>2, SayOffTask, MovePlaced, EndPlaced DEF Goes, Ends, Steps
    <3>3. flag' \in [Dongles -> BOOLEAN]
      BY <1>1, <3>1 DEF Say, ScanTypeOK
    <3>4. QED
      BY <1>1, <2>5, <3>1, <3>2, <3>3, SayOffTask, PlacesUpdate DEF PlacesIInv, ScanTypeOK
  <2>6. ASSUME NEW outcome \in Outcomes, Stop(t, outcome) PROVE PlacesIInv'
    <3>1. /\ UNCHANGED <<shared, flag, sensorVars, requested>>
          /\ SetMode(task[t].other, FALSE, outcome)
      BY <2>6 DEF Stop
    <3>2. Placed(t)' /\ Apart(t) /\ task' \in [Tasks -> Doing]
      BY <1>1, <2>6, StopTask, MovePlaced, EndPlaced DEF Goes, Ends, Steps
    <3>3. /\ causes' \in [Dongles -> SUBSET Causes] /\ upsets' \in Nat
          /\ mode' \in [Dongles -> BOOLEAN]
      BY <1>1, <2>6, <3>1, StopTask, SetModeGrows DEF ScanTypeOK
    <3>4. QED
      BY <1>1, <2>6, <3>1, <3>2, <3>3, StopTask, PlacesUpdate DEF PlacesIInv, ScanTypeOK
  <2>7. ASSUME NEW outcome \in Outcomes, SetRange(t, outcome) PROVE PlacesIInv'
    <3>1. /\ UNCHANGED <<shared, mode, flag, sensorVars, requested>>
          /\ Mishap(task[t].dongle, outcome)
      BY <2>7 DEF SetRange
    <3>2. Placed(t)' /\ Apart(t) /\ task' \in [Tasks -> Doing]
      BY <1>1, <2>7, SetRangeTask, MovePlaced, EndPlaced DEF Goes, Ends, Steps
    <3>3. causes' \in [Dongles -> SUBSET Causes] /\ upsets' \in Nat
      BY <1>1, <2>7, <3>1, SetRangeTask, MishapGrows DEF ScanTypeOK
    <3>4. QED
      BY <1>1, <2>7, <3>1, <3>2, <3>3, SetRangeTask, PlacesUpdate DEF PlacesIInv, ScanTypeOK
  <2>8. ASSUME NEW outcome \in Outcomes, TurnOn(t, outcome) PROVE PlacesIInv'
    <3>1. /\ UNCHANGED <<shared, flag, sensorVars, requested>>
          /\ SetMode(task[t].dongle, TRUE, outcome)
      BY <2>8 DEF TurnOn
    <3>2. Placed(t)' /\ Apart(t) /\ task' \in [Tasks -> Doing]
      BY <1>1, <2>8, TurnOnTask, MovePlaced, EndPlaced DEF Goes, Ends, Steps
    <3>3. /\ causes' \in [Dongles -> SUBSET Causes] /\ upsets' \in Nat
          /\ mode' \in [Dongles -> BOOLEAN]
      BY <1>1, <2>8, <3>1, TurnOnTask, SetModeGrows DEF ScanTypeOK
    <3>4. QED
      BY <1>1, <2>8, <3>1, <3>2, <3>3, TurnOnTask, PlacesUpdate DEF PlacesIInv, ScanTypeOK
  <2>9. ASSUME NEW outcome \in Outcomes, TurnOff(t, outcome) PROVE PlacesIInv'
    <3>1. /\ UNCHANGED <<shared, flag, sensorVars, requested>>
          /\ SetMode(task[t].dongle, FALSE, outcome)
      BY <2>9 DEF TurnOff
    <3>2. Placed(t)' /\ Apart(t) /\ task' \in [Tasks -> Doing]
      <4>1. \/ Goes(t, "saying off")
            \/ Goes(t, "verify") /\ task[t].from \in {"worker", "verify"}
            \/ Ends(t)
        BY <2>9, TurnOffTask
      <4>2. task[t].from \in {"worker", "verify"} => t \in Dongles \/ t \in Requests
        BY <1>1 DEF Placed
      <4>3. QED
        BY <1>1, <2>9, <4>1, <4>2, TurnOffTask, MovePlaced, EndPlaced DEF Goes, Ends, Steps
    <3>3. /\ causes' \in [Dongles -> SUBSET Causes] /\ upsets' \in Nat
          /\ mode' \in [Dongles -> BOOLEAN]
      BY <1>1, <2>9, <3>1, TurnOffTask, SetModeGrows DEF ScanTypeOK
    <3>4. QED
      BY <1>1, <2>9, <3>1, <3>2, <3>3, TurnOffTask, PlacesUpdate DEF PlacesIInv, ScanTypeOK
  <2>10. ASSUME NEW outcome \in Outcomes, Exchange(t, outcome) PROVE PlacesIInv'
    <3>1. /\ UNCHANGED <<shared, mode, flag, sensorVars, requested>>
          /\ Mishap(task[t].dongle, outcome)
      BY <2>10 DEF Exchange
    <3>2. Placed(t)' /\ Apart(t) /\ task' \in [Tasks -> Doing]
      BY <1>1, <2>10, ExchangeTask, MovePlaced, EndPlaced DEF Goes, Ends, Steps
    <3>3. causes' \in [Dongles -> SUBSET Causes] /\ upsets' \in Nat
      BY <1>1, <2>10, <3>1, ExchangeTask, MishapGrows DEF ScanTypeOK
    <3>4. QED
      BY <1>1, <2>10, <3>1, <3>2, <3>3, ExchangeTask, PlacesUpdate DEF PlacesIInv, ScanTypeOK
  <2>11. ASSUME NEW outcome \in Outcomes, Verify(t, outcome) PROVE PlacesIInv'
    <3>1. /\ UNCHANGED <<shared, mode, flag, joins, joined, requested>>
          /\ Mishap(task[t].dongle, outcome)
          /\ bound' \in {bound, bound \cup {task[t].dongle}}
          /\ told' \in {told, told \cup {task[t].dongle}}
      BY <2>11 DEF Verify
    <3>2. task[t].at = "verify" /\ task[t].dongle \in Dongles /\ Ends(t)
      BY <2>11, VerifyTask
    <3>3. Placed(t)' /\ Apart(t) /\ task' \in [Tasks -> Doing]
      BY <1>1, <3>2, EndPlaced DEF Ends
    <3>4. causes' \in [Dongles -> SUBSET Causes] /\ upsets' \in Nat
      BY <1>1, <3>1, <3>2, MishapGrows DEF ScanTypeOK
    <3>5. bound' \in SUBSET Dongles /\ told' \in SUBSET Dongles
      BY <1>1, <3>1, <3>2 DEF ScanTypeOK
    <3>6. QED
      BY <1>1, <3>1, <3>2, <3>3, <3>4, <3>5, PlacesUpdate DEF PlacesIInv, ScanTypeOK
  <2>12. QED
    BY <1>4, <2>1, <2>2, <2>3, <2>4, <2>5, <2>6, <2>7, <2>8, <2>9, <2>10, <2>11 DEF Step
<1>5. ASSUME NEW t \in Timers, Fire(t) \/ ClosePage(t) PROVE PlacesIInv'
  <2>1. /\ UNCHANGED <<shared, mode, flag, sensorVars, requested>>
        /\ \/ UNCHANGED <<upsets, causes>>
           \/ upsets' = upsets + 1 /\ Blame(task[t].dongle, "closed")
    BY <1>5 DEF Fire, ClosePage
  <2>2. Placed(t)' /\ Apart(t) /\ task' \in [Tasks -> Doing]
    BY <1>1, <1>5, FireTask, MovePlaced, EndPlaced DEF Goes, Ends, Steps
  <2>3. causes' \in [Dongles -> SUBSET Causes] /\ upsets' \in Nat
    BY <1>1, <1>5, <2>1, FireTask, BlameGrows DEF ScanTypeOK, Causes
  <2>4. QED
    BY <1>1, <1>5, <2>1, <2>2, <2>3, FireTask, PlacesUpdate DEF PlacesIInv, ScanTypeOK
<1>6. ASSUME NEW S \in SUBSET Dongles, Join(S) PROVE PlacesIInv'
  BY <1>1, <1>6 DEF PlacesIInv, Places, Placed, Ordered, ScanTypeOK, Join
<1>7. ASSUME NEW d \in Dongles, PickUp(d) PROVE PlacesIInv'
  <2>1. /\ UNCHANGED <<shared, mode, flag, joined, bound, told, boundVars, causes>>
        /\ joins' = joins \ {d}
    BY <1>7 DEF PickUp, Picked
  <2>2. Placed(d)' /\ Apart(d) /\ task' \in [Tasks -> Doing]
    <3>1. CASE Goes(d, "r1")
      BY <1>1, <1>7, <3>1, PickUpTask, MovePlaced DEF Goes, Steps
    <3>2. CASE task' = task
      BY <1>1, <1>7, <3>2, PickUpTask DEF Apart, Placed, ScanTypeOK
    <3>3. QED
      BY <1>7, <3>1, <3>2, PickUpTask
  <2>3. QED
    BY <1>1, <1>7, <2>1, <2>2, PickUpTask, PlacesUpdate DEF PlacesIInv, ScanTypeOK
<1>8. ASSUME NEW d \in Dongles, Reset(d) PROVE PlacesIInv'
  <2>1. causes' \in [Dongles -> SUBSET Causes]
    BY <1>1, <1>8, BlameGrows DEF ScanTypeOK, Reset, Causes
  <2>2. QED
    <3>1. /\ UNCHANGED <<shared, flag, task, sensorVars, requested>>
          /\ upsets' = upsets + 1 /\ mode' = [mode EXCEPT ![d] = FALSE]
      BY <1>8 DEF Reset
    <3>2. Places'
      BY <1>1, <3>1 DEF Places, Placed, Ordered
    <3>3. mode' \in [Dongles -> BOOLEAN]
      BY <1>1, <3>1 DEF ScanTypeOK
    <3>4. QED
      BY <1>1, <2>1, <3>1, <3>2, <3>3 DEF PlacesIInv, ScanTypeOK
<1>9. CASE UNCHANGED scanVars
  BY <1>1, <1>9 DEF PlacesIInv, Places, Placed, Ordered, ScanTypeOK, scanVars
<1>10. QED
  BY <1>2, <1>3, <1>4, <1>5, <1>6, <1>7, <1>8, <1>9 DEF ScanNext

LEMMA AllIdle ==
    ASSUME ScanInit, NEW t \in Tasks PROVE task[t].at = "idle"
<1> DEFINE x(u) == IF u \in Dongles THEN [Idle EXCEPT !.from = "worker", !.dongle = u] ELSE Idle
<1>1. x(t).at = "idle"
  BY DEF Idle
<1>2. task = [u \in Tasks |-> x(u)]
  BY DEF ScanInit
<1> HIDE DEF x
<1>3. QED
  BY <1>1, <1>2

LEMMA PlacesHold == ScanSpec => []PlacesIInv
<1>1. ScanInit => PlacesIInv
  <2> SUFFICES ASSUME ScanInit PROVE PlacesIInv
    OBVIOUS
  <2> DEFINE x(t) == IF t \in Dongles THEN [Idle EXCEPT !.from = "worker", !.dongle = t] ELSE Idle
  <2>1. ASSUME NEW t \in Tasks
        PROVE  /\ x(t) \in Doing /\ x(t).at = "idle"
               /\ t \in Dongles => x(t).from = "worker" /\ x(t).dongle = t
               /\ t \notin Dongles => x(t).from = "web"
    BY DEF Idle, Doing, Steps, Origins
  <2>2. task = [t \in Tasks |-> x(t)]
    BY DEF ScanInit
  <2> HIDE DEF x
  <2>3. ScanTypeOK
    <3>1. task \in [Tasks -> Doing]
      BY <2>1, <2>2
    <3>2. mode \in [Dongles -> BOOLEAN] /\ flag \in [Dongles -> BOOLEAN]
      BY DEF ScanInit
    <3>3. /\ shared \in BOOLEAN /\ joins \in SUBSET Dongles /\ joined \in BOOLEAN
          /\ bound \in SUBSET Dongles /\ told \in SUBSET Dongles
          /\ requested \in Nat /\ upsets \in Nat
          /\ causes \in [Dongles -> SUBSET Causes]
      BY DEF ScanInit
    <3>4. QED
      BY <3>1, <3>2, <3>3 DEF ScanTypeOK
  <2>4. ASSUME NEW t \in Tasks PROVE Placed(t)
    BY <2>1, <2>2 DEF Placed
  <2>5. ASSUME NEW r \in Requests PROVE Ordered(r)
    BY <2>1, <2>2, TaskNames DEF Ordered, Tasks
  <2>6. QED
    BY <2>3, <2>4, <2>5 DEF PlacesIInv, Places
<1>2. PlacesIInv /\ [ScanNext]_scanVars => PlacesIInv'
  BY PlacesStep
<1>3. QED
  BY <1>1, <1>2, PTL DEF ScanSpec

\* Every variable keeps its type.
THEOREM ScanTypeCorrect == ScanSpec => []ScanTypeOK
<1>1. PlacesIInv => ScanTypeOK
  BY DEF PlacesIInv
<1>2. QED
  BY <1>1, PlacesHold, PTL

-------------------------------------------------------------------------------
(* What the daemon says of a scan.  Of a dongle whose commands were answered   *)
(* and whose flags did not cross, every flag still to be said is its mode, and *)
(* when none is, the flag is.                                                  *)

Says(t, d, value) ==
    \/ task[t].at = "saying on" /\ value /\ task[t].dongle = d
    \/ task[t].at = "saying off" /\ ~value /\ task[t].dongle = d
    \/ task[t].at = "stopped" /\ ~value /\ task[t].other = d
Clean(d) == Without(d, {"lost", "reset", "crossed"})
FlagOf(d) ==
    Clean(d) =>
        /\ \A t \in Tasks, value \in BOOLEAN : Says(t, d, value) => value = mode[d]
        /\ (\E t \in Tasks, value \in BOOLEAN : Says(t, d, value)) \/ flag[d] = mode[d]
FlagInv == \A d \in Dongles : FlagOf(d)

LEMMA UnsaidSays ==
    ASSUME NEW d \in Dongles, NEW value \in BOOLEAN
    PROVE  Unsaid(d, value) <=> \E t \in Tasks : Says(t, d, ~value)
  BY DEF Unsaid, Says

Silent(t) == \A d \in Dongles, value \in BOOLEAN : ~Says(t, d, value)
OthersSay(t) ==
    \A u \in Tasks \ {t}, d \in Dongles, value \in BOOLEAN : Says(u, d, value)' <=> Says(u, d, value)

LEMMA ApartSay ==
    ASSUME NEW t \in Tasks, Apart(t) PROVE OthersSay(t)
<1> SUFFICES ASSUME NEW u \in Tasks \ {t}, NEW d \in Dongles, NEW value \in BOOLEAN
             PROVE  Says(u, d, value)' <=> Says(u, d, value)
  BY DEF OthersSay
<1>1. task'[u] = task[u]
  BY DEF Apart
<1>2. QED
  BY <1>1 DEF Says

\* A step that neither commands nor says anything.
LEMMA FlagKept ==
    ASSUME FlagInv, Grows, NEW t \in Tasks, OthersSay(t), Silent(t), Silent(t)', flag' = flag, mode' = mode
    PROVE  FlagInv'
<1> SUFFICES ASSUME NEW d \in Dongles, Clean(d)' PROVE FlagOf(d)'
  BY DEF FlagInv, FlagOf
<1>1. Clean(d) /\ FlagOf(d)
  BY DEF Grows, Clean, Without, FlagInv
<1>2. \A u \in Tasks, value \in BOOLEAN : Says(u, d, value)' <=> Says(u, d, value)
  BY DEF OthersSay, Silent
<1>3. QED
  BY <1>1, <1>2 DEF FlagOf

\* A command: if its reply arrives, t is to say what the mode is now.
LEMMA FlagCommanded ==
    ASSUME PlacesIInv, FlagInv, NEW t \in Tasks, OthersSay(t), Silent(t), flag' = flag,
           NEW d \in Dongles, NEW value \in BOOLEAN, NEW outcome, SetMode(d, value, outcome),
           \/ Silent(t)' /\ outcome # "ok"
           \/ \A e \in Dongles, v \in BOOLEAN : Says(t, e, v)' <=> e = d /\ v = value
    PROVE  FlagInv'
<1>1. /\ Grows /\ \A e \in Dongles \ {d} : mode'[e] = mode[e]
      /\ \/ "lost" \in causes'[d]
         \/ /\ outcome = "ok" /\ mode'[d] = value
            /\ Unsaid(d, value) => "crossed" \in causes'[d]
  BY SetModeGrows DEF PlacesIInv, ScanTypeOK
<1> SUFFICES ASSUME NEW e \in Dongles, Clean(e)' PROVE FlagOf(e)'
  BY DEF FlagInv, FlagOf
<1>2. Clean(e) /\ FlagOf(e)
  BY <1>1 DEF Grows, Clean, Without, FlagInv
<1>3. CASE e # d
  <2>1. \A u \in Tasks, v \in BOOLEAN : Says(u, e, v)' <=> Says(u, e, v)
    BY <1>3 DEF OthersSay, Silent
  <2>2. QED
    BY <1>1, <1>2, <1>3, <2>1 DEF FlagOf
<1>4. CASE e = d
  <2>1. outcome = "ok" /\ mode'[d] = value /\ ~Unsaid(d, value)
    BY <1>1, <1>4 DEF Clean, Without
  <2>2. \A u \in Tasks : ~Says(u, d, ~value)
    BY <2>1, UnsaidSays
  <2>3. \A v \in BOOLEAN : Says(t, d, v)' <=> v = value
    BY <2>1
  <2>4. ASSUME NEW u \in Tasks, NEW v \in BOOLEAN, Says(u, d, v)' PROVE v = value
    <3>1. CASE u = t
      BY <2>3, <2>4, <3>1
    <3>2. CASE u # t
      <4>1. Says(u, d, v)
        BY <2>4, <3>2 DEF OthersSay
      <4>2. v = ~value => FALSE
        BY <2>2, <4>1
      <4>3. QED
        BY <4>2
    <3>3. QED
      BY <3>1, <3>2
  <2>5. QED
    BY <1>4, <2>1, <2>3, <2>4 DEF FlagOf
<1>5. QED
  BY <1>3, <1>4

\* What t had to say is said.
LEMMA FlagSaid ==
    ASSUME PlacesIInv, FlagInv, Grows, NEW t \in Tasks, OthersSay(t), Silent(t)', mode' = mode,
           NEW d \in Dongles, NEW value \in BOOLEAN, Say(d, value),
           \A e \in Dongles, v \in BOOLEAN : Says(t, e, v) <=> e = d /\ v = value
    PROVE  FlagInv'
<1>1. flag'[d] = value /\ \A e \in Dongles \ {d} : flag'[e] = flag[e]
  BY DEF Say, PlacesIInv, ScanTypeOK
<1> SUFFICES ASSUME NEW e \in Dongles, Clean(e)' PROVE FlagOf(e)'
  BY DEF FlagInv, FlagOf
<1>2. Clean(e) /\ FlagOf(e)
  BY DEF Grows, Clean, Without, FlagInv
<1>3. CASE e # d
  <2>1. \A u \in Tasks, v \in BOOLEAN : Says(u, e, v)' <=> Says(u, e, v)
    BY <1>3 DEF OthersSay, Silent
  <2>2. QED
    BY <1>1, <1>2, <1>3, <2>1 DEF FlagOf
<1>4. CASE e = d
  <2>1. value = mode[d]
    BY <1>2, <1>4 DEF FlagOf
  <2>2. \A u \in Tasks, v \in BOOLEAN : Says(u, d, v)' => Says(u, d, v)
    BY DEF OthersSay, Silent
  <2>3. QED
    BY <1>1, <1>2, <1>4, <2>1, <2>2 DEF FlagOf
<1>5. QED
  BY <1>3, <1>4

LEMMA GrowsStep ==
    ASSUME PlacesIInv, [ScanNext]_scanVars PROVE Grows
<1>1. causes \in [Dongles -> SUBSET Causes] /\ upsets \in Nat /\ mode \in [Dongles -> BOOLEAN]
  BY DEF PlacesIInv, ScanTypeOK
<1>2. causes' = causes => Grows
  BY DEF Grows
<1>3. ASSUME NEW d \in Dongles, NEW from \in {"web", "mqtt"}, AskOn(d, from) \/ AskOff(d, from)
      PROVE  Grows
  BY <1>2, <1>3 DEF AskOn, AskOff
<1>4. ASSUME NEW d \in Dongles, AskVerify(d) PROVE Grows
  BY <1>1, <1>4, BlameGrows DEF AskVerify, Causes
<1>5. ASSUME NEW t \in Tasks, Step(t) PROVE Grows
  <2>1. CASE Check(t)
    BY <2>1, CheckTask
  <2>2. CASE Ask(t) \/ Stopped(t) \/ SayOff(t)
    BY <1>2, <2>2 DEF Ask, Stopped, SayOff
  <2>3. CASE SayOn(t)
    BY <1>1, <2>3 DEF SayOn, Grows
  <2>4. ASSUME NEW outcome \in Outcomes, Stop(t, outcome) PROVE Grows
    BY <1>1, <2>4, StopTask, SetModeGrows DEF Stop
  <2>5. ASSUME NEW outcome \in Outcomes, SetRange(t, outcome) PROVE Grows
    BY <1>1, <2>5, SetRangeTask, MishapGrows DEF SetRange
  <2>6. ASSUME NEW outcome \in Outcomes, TurnOn(t, outcome) PROVE Grows
    BY <1>1, <2>6, TurnOnTask, SetModeGrows DEF TurnOn
  <2>7. ASSUME NEW outcome \in Outcomes, TurnOff(t, outcome) PROVE Grows
    <3>1. SetMode(task[t].dongle, FALSE, outcome)
      BY <2>7 DEF TurnOff
    <3>2. QED
      BY <1>1, <2>7, <3>1, TurnOffTask, SetModeGrows
  <2>8. ASSUME NEW outcome \in Outcomes, Exchange(t, outcome) PROVE Grows
    BY <1>1, <2>8, ExchangeTask, MishapGrows DEF Exchange
  <2>9. ASSUME NEW outcome \in Outcomes, Verify(t, outcome) PROVE Grows
    BY <1>1, <2>9, VerifyTask, MishapGrows DEF Verify
  <2>10. QED
    BY <1>5, <2>1, <2>2, <2>3, <2>4, <2>5, <2>6, <2>7, <2>8, <2>9 DEF Step
<1>6. ASSUME NEW t \in Timers, Fire(t) \/ ClosePage(t) PROVE Grows
  <2>1. causes' = causes \/ Blame(task[t].dongle, "closed")
    BY <1>6 DEF Fire, ClosePage
  <2>2. QED
    BY <1>1, <1>2, <1>6, <2>1, FireTask, BlameGrows DEF Causes
<1>7. ASSUME NEW S \in SUBSET Dongles, Join(S) PROVE Grows
  BY <1>2, <1>7 DEF Join
<1>8. ASSUME NEW d \in Dongles, PickUp(d) \/ Reset(d) PROVE Grows
  BY <1>1, <1>2, <1>8, BlameGrows DEF PickUp, Picked, Reset, Causes
<1>9. CASE UNCHANGED scanVars
  BY <1>2, <1>9 DEF scanVars
<1>10. QED
  BY <1>3, <1>4, <1>5, <1>6, <1>7, <1>8, <1>9 DEF ScanNext

LEMMA FlagStep ==
    ASSUME PlacesIInv, FlagInv, [ScanNext]_scanVars
    PROVE  FlagInv'
<1>1. Grows /\ \A t \in Tasks : Placed(t)
  BY GrowsStep DEF PlacesIInv, Places
<1>2. ASSUME NEW t \in Tasks,
             task[t].at \notin {"stopped", "saying on", "saying off"},
             task'[t].at \notin {"stopped", "saying on", "saying off"}
      PROVE  Silent(t) /\ Silent(t)'
  BY <1>2 DEF Silent, Says
<1>3. ASSUME NEW d \in Dongles, NEW from \in {"web", "mqtt", "verify"}, NEW at \in {"check", "off", "r1"},
             at = "r1" => from = "verify", Issue(d, from, at)
      PROVE  FlagInv'
  <2> DEFINE r == requested + 1
  <2>1. r \in Requests /\ task'[r].at = at /\ Apart(r) /\ flag' = flag /\ mode' = mode
    BY <1>3, PlacesIssue DEF Issue
  <2>2. r \in Tasks /\ task[r].at = "idle"
    BY <2>1, TaskNames DEF PlacesIInv, Places, Ordered, Tasks, ScanTypeOK
  <2> HIDE DEF r
  <2>3. QED
    BY <1>1, <1>2, <2>1, <2>2, ApartSay, FlagKept
<1>4. ASSUME NEW d \in Dongles, NEW from \in {"web", "mqtt"}, AskOn(d, from) \/ AskOff(d, from)
      PROVE  FlagInv'
  BY <1>3, <1>4 DEF AskOn, AskOff
<1>5. ASSUME NEW d \in Dongles, AskVerify(d) PROVE FlagInv'
  BY <1>3, <1>5 DEF AskVerify
<1>6. ASSUME NEW t \in Tasks, Step(t) PROVE FlagInv'
  <2>1. CASE Check(t)
    <3>1. flag' = flag /\ mode' = mode
      BY <2>1 DEF Check, Checked
    <3>2. Silent(t) /\ Silent(t)' /\ OthersSay(t)
      BY <1>2, <2>1, CheckTask, ApartSay DEF Goes, Ends
    <3>3. QED
      BY <1>1, <3>1, <3>2, FlagKept
  <2>2. CASE Ask(t)
    <3>1. flag' = flag /\ mode' = mode
      BY <2>2 DEF Ask
    <3>2. Silent(t) /\ Silent(t)' /\ OthersSay(t)
      BY <1>2, <2>2, AskTask, ApartSay
    <3>3. QED
      BY <1>1, <3>1, <3>2, FlagKept
  <2>3. CASE Stopped(t)
    <3>1. mode' = mode /\ Say(task[t].other, FALSE)
      BY <2>3 DEF Stopped
    <3>2. Silent(t)' /\ OthersSay(t) /\ task[t].other \in Dongles
      BY <2>3, StoppedTask, ApartSay DEF Silent, Says
    <3>3. \A e \in Dongles, v \in BOOLEAN : Says(t, e, v) <=> e = task[t].other /\ v = FALSE
      BY <2>3, StoppedTask DEF Says
    <3>4. QED
      BY <1>1, <3>1, <3>2, <3>3, FlagSaid
  <2>4. CASE SayOn(t)
    <3>1. mode' = mode /\ Say(task[t].dongle, TRUE)
      BY <2>4 DEF SayOn
    <3>2. Silent(t)' /\ task[t].dongle \in Dongles
      BY <2>4, SayOnTask, IdleDoing DEF Silent, Says
    <3>3. OthersSay(t)
      <4>1. Timer(t) \in Tasks /\ Silent(Timer(t)) /\ Silent(Timer(t))'
        <5>1. Timer(t) \in Tasks /\ task[Timer(t)].at = "idle" /\ task'[Timer(t)].at = "wait"
          BY <2>4, SayOnTask DEF Tasks
        <5>2. QED
          BY <1>2, <5>1
      <4>2. ASSUME NEW u \in Tasks \ {t}, NEW d \in Dongles, NEW v \in BOOLEAN
            PROVE  Says(u, d, v)' <=> Says(u, d, v)
        <5>1. CASE u = Timer(t)
          BY <4>1, <5>1 DEF Silent
        <5>2. CASE u # Timer(t)
          <6>1. task'[u] = task[u]
            BY <2>4, <5>2, SayOnTask
          <6>2. QED
            BY <6>1 DEF Says
        <5>3. QED
          BY <5>1, <5>2
      <4>3. QED
        BY <4>2 DEF OthersSay
    <3>4. \A e \in Dongles, v \in BOOLEAN : Says(t, e, v) <=> e = task[t].dongle /\ v = TRUE
      BY <2>4, SayOnTask DEF Says
    <3>5. QED
      BY <1>1, <3>1, <3>2, <3>3, <3>4, FlagSaid
  <2>5. CASE SayOff(t)
    <3>1. mode' = mode /\ Say(task[t].dongle, FALSE)
      BY <2>5 DEF SayOff
    <3>2. Silent(t)' /\ OthersSay(t) /\ task[t].dongle \in Dongles
      BY <2>5, SayOffTask, ApartSay DEF Silent, Says, Goes, Ends
    <3>3. \A e \in Dongles, v \in BOOLEAN : Says(t, e, v) <=> e = task[t].dongle /\ v = FALSE
      BY <2>5, SayOffTask DEF Says
    <3>4. QED
      BY <1>1, <3>1, <3>2, <3>3, FlagSaid
  <2>6. ASSUME NEW outcome \in Outcomes, Stop(t, outcome) PROVE FlagInv'
    <3>1. flag' = flag /\ SetMode(task[t].other, FALSE, outcome)
      BY <2>6 DEF Stop
    <3>2. Silent(t) /\ OthersSay(t) /\ task[t].other \in Dongles
      BY <2>6, StopTask, ApartSay DEF Silent, Says, Goes, Ends
    <3>3. \/ Silent(t)' /\ outcome # "ok"
          \/ \A e \in Dongles, v \in BOOLEAN : Says(t, e, v)' <=> e = task[t].other /\ v = FALSE
      <4>1. CASE Ends(t) /\ outcome # "ok"
        BY <4>1 DEF Ends, Silent, Says
      <4>2. CASE Goes(t, "stopped")
        BY <4>2 DEF Goes, Same, Says
      <4>3. QED
        BY <2>6, <4>1, <4>2, StopTask
    <3>4. QED
      BY <3>1, <3>2, <3>3, FlagCommanded
  <2>7. ASSUME NEW outcome \in Outcomes, SetRange(t, outcome) PROVE FlagInv'
    <3>1. flag' = flag /\ mode' = mode
      BY <2>7 DEF SetRange
    <3>2. Silent(t) /\ Silent(t)' /\ OthersSay(t)
      BY <1>2, <2>7, SetRangeTask, ApartSay DEF Goes, Ends
    <3>3. QED
      BY <1>1, <3>1, <3>2, FlagKept
  <2>8. ASSUME NEW outcome \in Outcomes, TurnOn(t, outcome) PROVE FlagInv'
    <3>1. flag' = flag /\ SetMode(task[t].dongle, TRUE, outcome)
      BY <2>8 DEF TurnOn
    <3>2. Silent(t) /\ OthersSay(t) /\ task[t].dongle \in Dongles
      BY <2>8, TurnOnTask, ApartSay DEF Silent, Says, Goes, Ends
    <3>3. \/ Silent(t)' /\ outcome # "ok"
          \/ \A e \in Dongles, v \in BOOLEAN : Says(t, e, v)' <=> e = task[t].dongle /\ v = TRUE
      <4>1. CASE Ends(t) /\ outcome # "ok"
        BY <4>1 DEF Ends, Silent, Says
      <4>2. CASE Goes(t, "saying on")
        BY <4>2 DEF Goes, Same, Says
      <4>3. QED
        BY <2>8, <4>1, <4>2, TurnOnTask
    <3>4. QED
      BY <3>1, <3>2, <3>3, FlagCommanded
  <2>9. ASSUME NEW outcome \in Outcomes, TurnOff(t, outcome) PROVE FlagInv'
    <3>1. flag' = flag /\ SetMode(task[t].dongle, FALSE, outcome)
      BY <2>9 DEF TurnOff
    <3>2. Silent(t) /\ OthersSay(t) /\ task[t].dongle \in Dongles
      BY <2>9, TurnOffTask, ApartSay DEF Silent, Says, Goes, Ends
    <3>3. \/ Silent(t)' /\ outcome # "ok"
          \/ \A e \in Dongles, v \in BOOLEAN : Says(t, e, v)' <=> e = task[t].dongle /\ v = FALSE
      <4>1. CASE Ends(t) /\ outcome # "ok"
        BY <4>1 DEF Ends, Silent, Says
      <4>2. CASE Goes(t, "verify") /\ outcome # "ok"
        BY <4>2 DEF Goes, Silent, Says
      <4>3. CASE Goes(t, "saying off")
        BY <4>3 DEF Goes, Same, Says
      <4>4. QED
        BY <2>9, <4>1, <4>2, <4>3, TurnOffTask
    <3>4. QED
      BY <3>1, <3>2, <3>3, FlagCommanded
  <2>10. ASSUME NEW outcome \in Outcomes, Exchange(t, outcome) PROVE FlagInv'
    <3>1. flag' = flag /\ mode' = mode
      BY <2>10 DEF Exchange
    <3>2. Silent(t) /\ Silent(t)' /\ OthersSay(t)
      BY <1>2, <2>10, ExchangeTask, ApartSay DEF Goes, Ends
    <3>3. QED
      BY <1>1, <3>1, <3>2, FlagKept
  <2>11. ASSUME NEW outcome \in Outcomes, Verify(t, outcome) PROVE FlagInv'
    <3>1. flag' = flag /\ mode' = mode
      BY <2>11 DEF Verify
    <3>2. Silent(t) /\ Silent(t)' /\ OthersSay(t)
      BY <1>2, <2>11, VerifyTask, ApartSay DEF Ends
    <3>3. QED
      BY <1>1, <3>1, <3>2, FlagKept
  <2>12. QED
    BY <1>6, <2>1, <2>2, <2>3, <2>4, <2>5, <2>6, <2>7, <2>8, <2>9, <2>10, <2>11 DEF Step
<1>7. ASSUME NEW t \in Timers, Fire(t) \/ ClosePage(t) PROVE FlagInv'
  <2>1. flag' = flag /\ mode' = mode
    BY <1>7 DEF Fire, ClosePage
  <2>2. t \in Tasks /\ Silent(t) /\ Silent(t)' /\ OthersSay(t)
    BY <1>2, <1>7, FireTask, ApartSay DEF Goes, Ends
  <2>3. QED
    BY <1>1, <2>1, <2>2, FlagKept
<1>8. ASSUME flag' = flag, mode' = mode, task' = task PROVE FlagInv'
  BY <1>1, <1>8 DEF FlagInv, FlagOf, Says, Clean, Without, Grows
<1>9. ASSUME NEW S \in SUBSET Dongles, Join(S) PROVE FlagInv'
  BY <1>8, <1>9 DEF Join
<1>10. ASSUME NEW d \in Dongles, PickUp(d) PROVE FlagInv'
  <2>1. flag' = flag /\ mode' = mode
    BY <1>10 DEF PickUp, Picked
  <2>2. CASE Goes(d, "r1")
    BY <1>1, <1>2, <1>10, <2>1, <2>2, PickUpTask, ApartSay, FlagKept DEF Goes
  <2>3. QED
    BY <1>8, <1>10, <2>1, <2>2, PickUpTask
<1>11. ASSUME NEW d \in Dongles, Reset(d) PROVE FlagInv'
  <2>1. /\ UNCHANGED <<flag, task>> /\ "reset" \in causes'[d]
        /\ \A e \in Dongles \ {d} : mode'[e] = mode[e]
    BY <1>11, BlameGrows DEF Reset, PlacesIInv, ScanTypeOK, Causes
  <2>2. ASSUME NEW e \in Dongles, Clean(e)' PROVE FlagOf(e)'
    <3>1. e # d /\ Clean(e) /\ FlagOf(e)
      BY <1>1, <2>1, <2>2 DEF Clean, Without, Grows, FlagInv
    <3>2. QED
      BY <2>1, <3>1 DEF FlagOf, Says
  <2>3. QED
    BY <2>2 DEF FlagInv, FlagOf
<1>12. CASE UNCHANGED scanVars
  BY <1>8, <1>12 DEF scanVars
<1>13. QED
  BY <1>4, <1>5, <1>6, <1>7, <1>9, <1>10, <1>11, <1>12 DEF ScanNext

LEMMA FlagHolds == ScanSpec => [](PlacesIInv /\ FlagInv)
<1>1. ScanInit => FlagInv
  <2> SUFFICES ASSUME ScanInit PROVE FlagInv
    OBVIOUS
  <2>1. \A t \in Tasks, d \in Dongles, value \in BOOLEAN : ~Says(t, d, value)
    BY AllIdle DEF Says
  <2>2. flag = mode
    BY DEF ScanInit
  <2>3. QED
    BY <2>1, <2>2 DEF FlagInv, FlagOf
<1>2. PlacesIInv /\ FlagInv /\ [ScanNext]_scanVars => FlagInv'
  BY FlagStep
<1>3. QED
  BY <1>1, <1>2, PlacesHold, PTL DEF ScanSpec

\* What the daemon says of a dongle's scan is so once every flag is said, for
\* any number of dongles, requests, timers and pairings (Engine::set_scan sets
\* is_scanning after the reply, outside the command lock).
THEOREM FlagsTrue == ScanSpec => []FlagTrue
<1>1. PlacesIInv /\ FlagInv => FlagTrue
  <2> SUFFICES ASSUME FlagInv, NEW d \in Dongles, ~Unsettled(d), Clean(d) PROVE flag[d] = mode[d]
    BY DEF FlagTrue, Clean
  <2>1. \A t \in Tasks, value \in BOOLEAN : ~Says(t, d, value)
    BY UnsaidSays DEF Unsettled
  <2>2. QED
    BY <2>1 DEF FlagInv, FlagOf
<1>2. QED
  BY <1>1, FlagHolds, PTL

-------------------------------------------------------------------------------
(* Which dongle scans.  A dongle aims to scan if it is said to, or a request   *)
(* that found no other scanning is on its way to say so: of two that aim, one  *)
(* was asked while the other's request had checked and not yet said.           *)

Begun == {"asking", "stop", "stopped", "range", "on", "saying on"}
AimsAt(t, d) == task[t].at \in Begun /\ task[t].dongle = d
Aims(d) == flag[d] \/ \E r \in Requests : AimsAt(r, d)
RaceInv ==
    \A d, e \in Dongles : d # e /\ Aims(d) /\ Aims(e) => "raced" \in causes[d] \/ "raced" \in causes[e]

\* A step that starts no request's scan.
LEMMA RaceKept ==
    ASSUME RaceInv, Grows, \A d \in Dongles : Aims(d)' => Aims(d)
    PROVE  RaceInv'
  BY DEF RaceInv, Grows

LEMMA AimsKept ==
    ASSUME \A r \in Requests, d \in Dongles : AimsAt(r, d)' => AimsAt(r, d),
           \A d \in Dongles : flag'[d] => Aims(d)
    PROVE  \A d \in Dongles : Aims(d)' => Aims(d)
  BY DEF Aims

\* t goes on without having begun, or goes on as it had begun.
LEMMA AimsApart ==
    ASSUME NEW t \in Tasks, Apart(t),
           \/ task'[t].at \notin Begun
           \/ task[t].at \in Begun /\ task'[t].dongle = task[t].dongle
    PROVE  \A r \in Requests, d \in Dongles : AimsAt(r, d)' => AimsAt(r, d)
<1> SUFFICES ASSUME NEW r \in Requests, NEW d \in Dongles, AimsAt(r, d)' PROVE AimsAt(r, d)
  OBVIOUS
<1>1. r \in Tasks
  BY DEF Tasks
<1>2. CASE r = t
  BY <1>2 DEF AimsAt
<1>3. CASE r # t
  BY <1>1, <1>3 DEF AimsAt, Apart
<1>4. QED
  BY <1>2, <1>3

LEMMA RaceStep ==
    ASSUME PlacesIInv, RaceInv, [ScanNext]_scanVars
    PROVE  RaceInv'
<1>1. Grows /\ flag \in [Dongles -> BOOLEAN]
  BY GrowsStep DEF PlacesIInv, ScanTypeOK
<1>2. ASSUME NEW t \in Tasks, Apart(t), flag' = flag,
             \/ task'[t].at \notin Begun
             \/ task[t].at \in Begun /\ task'[t].dongle = task[t].dongle
      PROVE  RaceInv'
  BY <1>1, <1>2, AimsApart, AimsKept, RaceKept DEF Aims
<1>3. ASSUME task' = task, flag' = flag PROVE RaceInv'
  BY <1>1, <1>3, RaceKept DEF Aims, AimsAt
<1>4. ASSUME NEW d \in Dongles, NEW from \in {"web", "mqtt", "verify"}, NEW at \in {"check", "off", "r1"},
             at = "r1" => from = "verify", Issue(d, from, at)
      PROVE  RaceInv'
  <2>1. flag' = flag /\ requested + 1 \in Tasks /\ Apart(requested + 1) /\ task'[requested + 1].at = at
    BY <1>4, PlacesIssue DEF Issue, Tasks
  <2>2. QED
    BY <1>2, <2>1 DEF Begun
<1>5. ASSUME NEW d \in Dongles, NEW from \in {"web", "mqtt"}, AskOn(d, from) \/ AskOff(d, from)
      PROVE  RaceInv'
  BY <1>4, <1>5 DEF AskOn, AskOff
<1>6. ASSUME NEW d \in Dongles, AskVerify(d) PROVE RaceInv'
  BY <1>4, <1>6 DEF AskVerify
<1>7. ASSUME NEW t \in Tasks, Step(t) PROVE RaceInv'
  <2>1. CASE Check(t)
    <3> DEFINE d == task[t].dongle
    <3>1. flag' = flag /\ t \in Requests /\ d \in Dongles /\ Apart(t)
      BY <2>1, CheckTask DEF Check, Checked, Goes, Ends
    <3>2. CASE Ends(t)
      BY <1>2, <3>1, <3>2 DEF Ends, Begun
    <3>3. CASE ~Ends(t)
      <4>1. /\ task'[t].at \in Begun /\ task'[t].dongle = d
            /\ \A e \in Dongles \ {d} : ~flag[e]
            /\ (\E u \in Starting(t) : task[u].dongle # d) => "raced" \in causes'[d]
        BY <2>1, <3>3, CheckTask DEF Goes, Same, Begun
      <4> HIDE DEF d
      <4>2. ASSUME NEW e \in Dongles \ {d}, Aims(e)' PROVE Aims(e) /\ "raced" \in causes'[d]
        <5>1. PICK u \in Requests : AimsAt(u, e)'
          BY <3>1, <4>1, <4>2 DEF Aims
        <5>2. u # t /\ u \in Tasks
          BY <4>1, <5>1 DEF AimsAt, Tasks
        <5>3. AimsAt(u, e)
          BY <3>1, <5>1, <5>2 DEF AimsAt, Apart
        <5>4. u \in Starting(t) /\ task[u].dongle # d
          BY <5>2, <5>3 DEF AimsAt, Starting, Begun
        <5>5. QED
          BY <4>1, <5>3, <5>4 DEF Aims
      <4>3. QED
        BY <1>1, <4>2 DEF RaceInv, Grows
    <3>4. QED
      BY <3>2, <3>3
  <2>2. CASE Ask(t)
    BY <1>2, <2>2, AskTask DEF Ask, Begun
  <2>3. CASE Stopped(t)
    <3>1. \A r \in Requests, d \in Dongles : AimsAt(r, d)' => AimsAt(r, d)
      BY <2>3, StoppedTask, AimsApart DEF Begun
    <3>2. \A d \in Dongles : flag'[d] => flag[d]
      BY <1>1, <2>3, StoppedTask DEF Stopped, Say
    <3>3. QED
      BY <1>1, <3>1, <3>2, AimsKept, RaceKept DEF Aims
  <2>4. CASE SayOn(t)
    <3>1. ASSUME NEW r \in Requests, NEW d \in Dongles, AimsAt(r, d)' PROVE AimsAt(r, d)
      <4>1. r # t /\ r # Timer(t) /\ r \in Tasks
        BY <2>4, <3>1, SayOnTask, IdleDoing, TaskNames DEF AimsAt, Begun, Tasks
      <4>2. task'[r] = task[r]
        BY <2>4, <4>1, SayOnTask
      <4>3. QED
        BY <3>1, <4>2 DEF AimsAt
    <3>2. ASSUME NEW d \in Dongles, flag'[d] PROVE Aims(d)
      <4>1. flag[d] \/ d = task[t].dongle
        BY <1>1, <2>4, <3>2 DEF SayOn, Say
      <4>2. QED
        BY <2>4, <4>1, SayOnTask DEF Aims, AimsAt, Begun
    <3>3. QED
      BY <1>1, <3>1, <3>2, AimsKept, RaceKept
  <2>5. CASE SayOff(t)
    <3>1. \A r \in Requests, d \in Dongles : AimsAt(r, d)' => AimsAt(r, d)
      BY <2>5, SayOffTask, AimsApart DEF Goes, Ends, Begun
    <3>2. \A d \in Dongles : flag'[d] => flag[d]
      BY <1>1, <2>5, SayOffTask DEF SayOff, Say
    <3>3. QED
      BY <1>1, <3>1, <3>2, AimsKept, RaceKept DEF Aims
  <2>6. ASSUME NEW outcome \in Outcomes, Stop(t, outcome) PROVE RaceInv'
    BY <1>2, <2>6, StopTask DEF Stop, Goes, Ends, Same, Begun
  <2>7. ASSUME NEW outcome \in Outcomes, SetRange(t, outcome) PROVE RaceInv'
    BY <1>2, <2>7, SetRangeTask DEF SetRange, Goes, Ends, Same, Begun
  <2>8. ASSUME NEW outcome \in Outcomes, TurnOn(t, outcome) PROVE RaceInv'
    BY <1>2, <2>8, TurnOnTask DEF TurnOn, Goes, Ends, Same, Begun
  <2>9. ASSUME NEW outcome \in Outcomes, TurnOff(t, outcome) PROVE RaceInv'
    BY <1>2, <2>9, TurnOffTask DEF TurnOff, Goes, Ends, Begun
  <2>10. ASSUME NEW outcome \in Outcomes, Exchange(t, outcome) PROVE RaceInv'
    BY <1>2, <2>10, ExchangeTask DEF Exchange, Goes, Ends, Begun
  <2>11. ASSUME NEW outcome \in Outcomes, Verify(t, outcome) PROVE RaceInv'
    BY <1>2, <2>11, VerifyTask DEF Verify, Ends, Begun
  <2>12. QED
    BY <1>7, <2>1, <2>2, <2>3, <2>4, <2>5, <2>6, <2>7, <2>8, <2>9, <2>10, <2>11 DEF Step
<1>8. ASSUME NEW t \in Timers, Fire(t) \/ ClosePage(t) PROVE RaceInv'
  BY <1>2, <1>8, FireTask DEF Fire, ClosePage, Goes, Ends, Begun
<1>9. ASSUME NEW S \in SUBSET Dongles, Join(S) PROVE RaceInv'
  BY <1>3, <1>9 DEF Join
<1>10. ASSUME NEW d \in Dongles, PickUp(d) PROVE RaceInv'
  BY <1>2, <1>3, <1>10, PickUpTask DEF PickUp, Picked, Goes, Begun
<1>11. ASSUME NEW d \in Dongles, Reset(d) PROVE RaceInv'
  BY <1>3, <1>11 DEF Reset
<1>12. CASE UNCHANGED scanVars
  BY <1>3, <1>12 DEF scanVars
<1>13. QED
  BY <1>5, <1>6, <1>7, <1>8, <1>9, <1>10, <1>11, <1>12 DEF ScanNext

LEMMA RaceHolds == ScanSpec => [](PlacesIInv /\ FlagInv /\ RaceInv)
<1>1. ScanInit => RaceInv
  BY AllIdle DEF ScanInit, RaceInv, Aims, AimsAt, Begun, Tasks
<1>2. PlacesIInv /\ RaceInv /\ [ScanNext]_scanVars => RaceInv'
  BY RaceStep
<1>3. QED
  BY <1>1, <1>2, FlagHolds, PTL DEF ScanSpec

\* Two dongles scan at once only if two requests started at once, or a flag was
\* wrong (toggle_scan and the MQTT scan command check the other dongles' flags
\* and then command theirs).
THEOREM ScannersExclusive == ScanSpec => []OneScanner
<1>1. PlacesIInv /\ FlagInv /\ RaceInv => OneScanner
  <2>1. ASSUME PlacesIInv, FlagInv, NEW d \in Dongles, mode[d], Clean(d) PROVE Aims(d)
    <3>1. CASE flag[d] = mode[d]
      BY <2>1, <3>1 DEF Aims
    <3>2. CASE flag[d] # mode[d]
      <4>1. PICK t \in Tasks, value \in BOOLEAN : Says(t, d, value) /\ value = mode[d]
        BY <2>1, <3>2 DEF FlagInv, FlagOf
      <4>2. AimsAt(t, d) /\ t \in Requests
        BY <2>1, <4>1 DEF Says, AimsAt, Begun, PlacesIInv, Places, Placed
      <4>3. QED
        BY <4>2 DEF Aims
    <3>3. QED
      BY <3>1, <3>2
  <2> SUFFICES ASSUME PlacesIInv, FlagInv, RaceInv, NEW d \in Dongles, NEW e \in Dongles,
                      d # e, mode[d], mode[e],
                      Without(d, {"lost", "reset", "crossed", "raced"}),
                      Without(e, {"lost", "reset", "crossed", "raced"})
               PROVE  FALSE
    BY DEF OneScanner
  <2>2. Clean(d) /\ Clean(e) /\ "raced" \notin causes[d] /\ "raced" \notin causes[e]
    BY DEF Clean, Without
  <2>3. QED
    BY <2>1, <2>2 DEF RaceInv
<1>2. QED
  BY <1>1, RaceHolds, PTL

-------------------------------------------------------------------------------
(* Which dongle keeps the sensor.  A dongle is after the sensor if it keeps it,*)
(* pairs it, or has a join to pick up while it is said to scan: of two that    *)
(* are after it, one was raced, was said to scan after the sensor had joined   *)
(* there, or was told to pair by hand.                                         *)

PairsAt(t, d) == task[t].from \in {"worker", "verify"} /\ task[t].at # "idle" /\ task[t].dongle = d
After(d) == d \in bound \/ (d \in joins /\ flag[d]) \/ \E t \in Tasks : PairsAt(t, d)
Excused(d) == ~Without(d, {"raced", "elsewhere", "manual"})
Untouched(d) == d \notin bound /\ d \notin joins /\ \A t \in Tasks : ~PairsAt(t, d)
PairInv ==
    /\ \A d, e \in Dongles : d # e /\ After(d) /\ After(e) => Excused(d) \/ Excused(e)
    /\ joined \/ \A d \in Dongles : Untouched(d)

LEMMA PairKept ==
    ASSUME PairInv, Grows,
           \A d \in Dongles : After(d)' => After(d) \/ Excused(d)',
           joined' \/ (~joined /\ \A d \in Dongles : Untouched(d) => Untouched(d)')
    PROVE  PairInv'
<1>1. \A d \in Dongles : Excused(d) => Excused(d)'
  BY DEF Excused, Without, Grows
<1>2. QED
  BY <1>1 DEF PairInv

\* A step that starts no pairing, tells of none and says of no dongle that it scans.
LEMMA PairQuiet ==
    ASSUME PairInv, Grows, joined' = joined, joins' = joins, bound' = bound,
           \A d \in Dongles : flag'[d] => flag[d] \/ d \notin joins \/ Excused(d)',
           \A t \in Tasks, d \in Dongles : PairsAt(t, d)' => PairsAt(t, d)
    PROVE  PairInv'
<1>1. ASSUME NEW d \in Dongles PROVE After(d)' => After(d) \/ Excused(d)'
  BY DEF After
<1>2. ASSUME NEW d \in Dongles, Untouched(d) PROVE Untouched(d)'
  BY <1>2 DEF Untouched
<1>3. QED
  BY <1>1, <1>2, PairKept

LEMMA PairsApart ==
    ASSUME NEW t \in Tasks, Apart(t),
           \/ task'[t].at = "idle" \/ task'[t].from \notin {"worker", "verify"}
           \/ /\ task[t].at # "idle" /\ task'[t].from = task[t].from
              /\ task'[t].dongle = task[t].dongle
    PROVE  \A u \in Tasks, d \in Dongles : PairsAt(u, d)' => PairsAt(u, d)
<1> SUFFICES ASSUME NEW u \in Tasks, NEW d \in Dongles, PairsAt(u, d)' PROVE PairsAt(u, d)
  OBVIOUS
<1>1. CASE u = t
  BY <1>1 DEF PairsAt
<1>2. CASE u # t
  BY <1>2 DEF PairsAt, Apart
<1>3. QED
  BY <1>1, <1>2

LEMMA PairStep ==
    ASSUME PlacesIInv, RaceInv, PairInv, [ScanNext]_scanVars
    PROVE  PairInv'
<1> USE DEF sensorVars
<1>1. /\ Grows /\ flag \in [Dongles -> BOOLEAN] /\ causes \in [Dongles -> SUBSET Causes]
      /\ \A t \in Tasks : Placed(t)
  BY GrowsStep DEF PlacesIInv, ScanTypeOK, Places
<1>2. ASSUME NEW t \in Tasks, Apart(t), flag' = flag, UNCHANGED <<joins, joined, bound>>,
             \/ task'[t].at = "idle" \/ task'[t].from \notin {"worker", "verify"}
             \/ /\ task[t].at # "idle" /\ task'[t].from = task[t].from
                /\ task'[t].dongle = task[t].dongle
      PROVE  PairInv'
  BY <1>1, <1>2, PairsApart, PairQuiet
<1>3. ASSUME UNCHANGED <<task, flag, joins, joined, bound>> PROVE PairInv'
  <2>1. \A t \in Tasks, d \in Dongles : PairsAt(t, d)' => PairsAt(t, d)
    BY <1>3 DEF PairsAt
  <2>2. QED
    BY <1>1, <1>3, <2>1, PairQuiet
<1>4. ASSUME NEW d \in Dongles, NEW from \in {"web", "mqtt"}, AskOn(d, from) \/ AskOff(d, from)
      PROVE  PairInv'
  <2>1. Issue(d, from, "check") \/ Issue(d, from, "off")
    BY <1>4 DEF AskOn, AskOff
  <2>2. /\ UNCHANGED <<flag, joins, joined, bound>> /\ requested + 1 \in Tasks
        /\ Apart(requested + 1) /\ task'[requested + 1].from = from
    BY <2>1, PlacesIssue DEF Issue, Tasks
  <2>3. QED
    BY <1>2, <2>2
<1>5. ASSUME NEW d \in Dongles, AskVerify(d) PROVE PairInv'
  <2> DEFINE r == requested + 1
  <2>1. /\ UNCHANGED <<flag, joins, joined, bound>> /\ joined /\ "manual" \in causes'[d]
        /\ r \in Tasks /\ Apart(r) /\ task'[r].dongle = d
    BY <1>1, <1>5, PlacesIssue, BlameGrows DEF AskVerify, Issue, Tasks, Causes
  <2> HIDE DEF r
  <2>2. ASSUME NEW e \in Dongles, After(e)' PROVE After(e) \/ Excused(e)'
    <3>1. CASE e = d
      BY <2>1, <3>1 DEF Excused, Without
    <3>2. CASE e # d
      <4>1. ASSUME NEW u \in Tasks, PairsAt(u, e)' PROVE PairsAt(u, e)
        BY <2>1, <3>2, <4>1 DEF PairsAt, Apart
      <4>2. QED
        BY <2>1, <2>2, <4>1 DEF After
    <3>3. QED
      BY <3>1, <3>2
  <2>3. QED
    BY <1>1, <2>1, <2>2, PairKept
<1>6. ASSUME NEW t \in Tasks, Step(t) PROVE PairInv'
  <2>1. CASE Check(t)
    BY <1>2, <2>1, CheckTask DEF Check, Checked, Goes, Ends, Same
  <2>2. CASE Ask(t)
    BY <1>2, <2>2, AskTask DEF Ask
  <2>3. CASE Stopped(t)
    <3>1. UNCHANGED <<joins, joined, bound>> /\ \A d \in Dongles : flag'[d] => flag[d]
      BY <1>1, <2>3, StoppedTask DEF Stopped, Say
    <3>2. \A u \in Tasks, d \in Dongles : PairsAt(u, d)' => PairsAt(u, d)
      BY <2>3, StoppedTask, PairsApart
    <3>3. QED
      BY <1>1, <3>1, <3>2, PairQuiet
  <2>4. CASE SayOn(t)
    <3>1. UNCHANGED <<joins, joined, bound>>
      BY <2>4 DEF SayOn
    <3>2. ASSUME NEW d \in Dongles, flag'[d] PROVE flag[d] \/ d \notin joins \/ Excused(d)'
      <4>1. CASE d # task[t].dongle
        BY <1>1, <2>4, <3>2, <4>1 DEF SayOn, Say
      <4>2. CASE d = task[t].dongle /\ d \in joins
        BY <1>1, <2>4, <4>2 DEF SayOn, Excused, Without
      <4>3. QED
        BY <4>1, <4>2
    <3>3. ASSUME NEW u \in Tasks, NEW d \in Dongles, PairsAt(u, d)' PROVE PairsAt(u, d)
      <4>1. u # t /\ u # Timer(t)
        BY <2>4, <3>3, SayOnTask, IdleDoing DEF PairsAt
      <4>2. task'[u] = task[u]
        BY <2>4, <4>1, SayOnTask
      <4>3. QED
        BY <3>3, <4>2 DEF PairsAt
    <3>4. QED
      BY <1>1, <3>1, <3>2, <3>3, PairQuiet
  <2>5. CASE SayOff(t)
    <3>1. UNCHANGED <<joins, joined, bound>> /\ \A d \in Dongles : flag'[d] => flag[d]
      BY <1>1, <2>5, SayOffTask DEF SayOff, Say
    <3>2. \A u \in Tasks, d \in Dongles : PairsAt(u, d)' => PairsAt(u, d)
      BY <2>5, SayOffTask, PairsApart DEF Goes, Ends, Same
    <3>3. QED
      BY <1>1, <3>1, <3>2, PairQuiet
  <2>6. ASSUME NEW outcome \in Outcomes, Stop(t, outcome) PROVE PairInv'
    BY <1>2, <2>6, StopTask DEF Stop, Goes, Ends, Same
  <2>7. ASSUME NEW outcome \in Outcomes, SetRange(t, outcome) PROVE PairInv'
    BY <1>2, <2>7, SetRangeTask DEF SetRange, Goes, Ends, Same
  <2>8. ASSUME NEW outcome \in Outcomes, TurnOn(t, outcome) PROVE PairInv'
    BY <1>2, <2>8, TurnOnTask DEF TurnOn, Goes, Ends, Same
  <2>9. ASSUME NEW outcome \in Outcomes, TurnOff(t, outcome) PROVE PairInv'
    BY <1>2, <2>9, TurnOffTask DEF TurnOff, Goes, Ends, Same
  <2>10. ASSUME NEW outcome \in Outcomes, Exchange(t, outcome) PROVE PairInv'
    BY <1>2, <2>10, ExchangeTask DEF Exchange, Goes, Ends, Same
  <2>11. ASSUME NEW outcome \in Outcomes, Verify(t, outcome) PROVE PairInv'
    <3> DEFINE d == task[t].dongle
    <3>1. /\ UNCHANGED <<flag, joins, joined>> /\ bound' \in {bound, bound \cup {d}}
      BY <2>11 DEF Verify
    <3>2. d \in Dongles /\ PairsAt(t, d)
      BY <1>1, <2>11, VerifyTask DEF Placed, PairsAt
    <3>3. \A u \in Tasks, e \in Dongles : PairsAt(u, e)' => PairsAt(u, e)
      BY <2>11, VerifyTask, PairsApart DEF Ends
    <3>4. joined
      BY <3>2 DEF PairInv, Untouched
    <3> HIDE DEF d
    <3>5. ASSUME NEW e \in Dongles, After(e)' PROVE After(e)
      BY <3>1, <3>2, <3>3, <3>5 DEF After
    <3>6. QED
      BY <1>1, <3>1, <3>4, <3>5, PairKept
  <2>12. QED
    BY <1>6, <2>1, <2>2, <2>3, <2>4, <2>5, <2>6, <2>7, <2>8, <2>9, <2>10, <2>11 DEF Step
<1>7. ASSUME NEW t \in Timers, Fire(t) \/ ClosePage(t) PROVE PairInv'
  BY <1>2, <1>7, FireTask DEF Fire, ClosePage, Goes, Ends, Same
<1>8. ASSUME NEW S \in SUBSET Dongles, Join(S) PROVE PairInv'
  <2>1. UNCHANGED <<flag, task, bound>> /\ ~joined /\ joined' /\ joins' = S
    BY <1>8 DEF Join
  <2>2. ASSUME NEW d \in Dongles, After(d)' PROVE flag[d]
    <3>1. Untouched(d)
      BY <2>1 DEF PairInv
    <3>2. QED
      BY <2>1, <2>2, <3>1 DEF Untouched, After, PairsAt
  <2>3. ASSUME NEW d \in Dongles, NEW e \in Dongles, d # e, After(d)', After(e)'
        PROVE  Excused(d)' \/ Excused(e)'
    BY <1>1, <2>2, <2>3 DEF RaceInv, Aims, Grows, Excused, Without
  <2>4. QED
    BY <2>1, <2>3 DEF PairInv
<1>9. ASSUME NEW d \in Dongles, PickUp(d) PROVE PairInv'
  <2>1. /\ UNCHANGED <<flag, joined, bound>> /\ d \in joins /\ joins' = joins \ {d}
    BY <1>9 DEF PickUp, Picked
  <2>2. joined
    BY <2>1 DEF PairInv, Untouched
  <2>3. ASSUME NEW e \in Dongles, After(e)' PROVE After(e)
    <3>1. ASSUME NEW u \in Tasks, PairsAt(u, e)' PROVE After(e)
      <4>1. CASE u = d /\ Goes(d, "r1")
        BY <1>9, <2>1, <3>1, <4>1, PickUpTask DEF Goes, Same, PairsAt, After
      <4>2. CASE task' = task \/ u # d
        <5>1. task'[u] = task[u]
          BY <1>9, <4>2, PickUpTask DEF Goes, Apart
        <5>2. QED
          BY <3>1, <5>1 DEF PairsAt, After
      <4>3. QED
        BY <1>9, <4>1, <4>2, PickUpTask
    <3>2. QED
      BY <2>1, <2>3, <3>1 DEF After
  <2>4. QED
    BY <1>1, <2>1, <2>2, <2>3, PairKept
<1>10. ASSUME NEW d \in Dongles, Reset(d) PROVE PairInv'
  BY <1>3, <1>10 DEF Reset
<1>11. CASE UNCHANGED scanVars
  BY <1>3, <1>11 DEF scanVars
<1>12. QED
  BY <1>4, <1>5, <1>6, <1>7, <1>8, <1>9, <1>10, <1>11 DEF ScanNext

\* What the daemon was told of is kept; what it was not told of had its reply lost.
LEMMA ToldStep ==
    ASSUME PlacesIInv, PairedTold, [ScanNext]_scanVars
    PROVE  PairedTold'
<1>1. Grows /\ told \subseteq bound /\ \A d \in bound \ told : "lost" \in causes[d]
  BY GrowsStep DEF PairedTold, Without
<1>2. bound \in SUBSET Dongles /\ causes \in [Dongles -> SUBSET Causes] /\ upsets \in Nat
  BY DEF PlacesIInv, ScanTypeOK
<1>3. ASSUME UNCHANGED <<bound, told>> PROVE PairedTold'
  BY <1>1, <1>2, <1>3 DEF PairedTold, Without, Grows
<1>4. ASSUME NEW t \in Tasks, NEW outcome \in Outcomes, Verify(t, outcome) PROVE PairedTold'
  <2> DEFINE d == task[t].dongle
  <2>1. d \in Dongles /\ Mishap(d, outcome)
    BY <1>4, VerifyTask DEF Verify
  <2>2. outcome = "ok" \/ "lost" \in causes'[d]
    BY <1>2, <2>1, MishapGrows
  <2>3. /\ bound' = IF outcome = "not executed" THEN bound ELSE bound \cup {d}
        /\ told' = IF outcome = "ok" THEN told \cup {d} ELSE told
    BY <1>4 DEF Verify
  <2> HIDE DEF d
  <2>4. told' \subseteq bound'
    BY <1>1, <2>3
  <2>5. ASSUME NEW e \in bound' \ told' PROVE "lost" \in causes'[e]
    BY <1>1, <1>2, <2>1, <2>2, <2>3, <2>5 DEF Grows
  <2>6. QED
    BY <2>4, <2>5 DEF PairedTold, Without
<1>5. ASSUME NEW t \in Tasks, Step(t) PROVE PairedTold'
  BY <1>3, <1>4, <1>5
  DEF Step, Check, Checked, Ask, Stopped, SayOn, SayOff, Stop, SetRange, TurnOn, TurnOff, Exchange, sensorVars
<1>6. CASE \/ \E d \in Dongles, from \in {"web", "mqtt"} : AskOn(d, from) \/ AskOff(d, from)
           \/ \E d \in Dongles : AskVerify(d) \/ PickUp(d) \/ Reset(d)
           \/ \E t \in Timers : Fire(t) \/ ClosePage(t)
           \/ \E S \in SUBSET Dongles : Join(S)
           \/ UNCHANGED scanVars
  BY <1>3, <1>6
  DEF AskOn, AskOff, Issue, AskVerify, PickUp, Picked, Reset, Fire, ClosePage, Join, scanVars, sensorVars
<1>7. QED
  BY <1>5, <1>6 DEF ScanNext

\* A sensor is kept by one dongle, and the daemon is told of it exactly where
\* it is kept, unless the reply was lost: for any number of dongles, requests
\* and timers, whatever is lost and resets (auto-verify in Engine::start
\* decides by is_scanning, verify_scanned_sensor by hand).
THEOREM PairingsTrue == ScanSpec => []PairingTrue
<1>1. ScanInit => PairInv /\ PairedTold
  BY AllIdle DEF ScanInit, PairInv, After, Untouched, PairsAt, PairedTold
<1>2. PlacesIInv /\ RaceInv /\ PairInv /\ PairedTold /\ [ScanNext]_scanVars => PairInv' /\ PairedTold'
  BY PairStep, ToldStep
<1>3. PlacesIInv /\ PairInv /\ PairedTold => PairingTrue
  <2> SUFFICES ASSUME PlacesIInv, PairInv PROVE BoundOnce
    BY DEF PairingTrue
  <2>1. \A d \in bound : d \in Dongles /\ After(d)
    BY DEF PlacesIInv, ScanTypeOK, After
  <2>2. QED
    BY <2>1 DEF PairInv, BoundOnce, Excused
<1>4. QED
  BY <1>1, <1>2, <1>3, RaceHolds, PTL DEF ScanSpec
===============================================================================
