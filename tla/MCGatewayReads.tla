---------------------------- MODULE MCGatewayReads ----------------------------
(* Small instances of GatewayReads and of the framing below it for TLC.  One   *)
(* run for both: either the calls of a session move, or the session could not  *)
(* be opened and the bytes on its line do.                                     *)
EXTENDS GatewayReads, PacketFraming, TLC

CONSTANTS
    Ids,      \* command ids of the sample packets, all async (bytes)
    Noise     \* bytes that a damaged one can turn into

\* Empty, and two bytes that look like a prefix.
Payloads == {<<>>, <<85, 170>>}

Samples == {Packet(id, payload) : id \in Ids, payload \in Payloads} \cup {Ack(id) : id \in Ids}

Damaged ==
    UNION {{[ToBytes(p) EXCEPT ![i] = b] : i \in DOMAIN ToBytes(p), b \in Noise} : p \in Samples}

\* A damaged packet between intact ones.
Sent == {[packet |-> p, damaged |-> d, bytes |-> ToBytes(p) \o d \o ToBytes(p) \o ToBytes(p)] :
            p \in Samples, d \in Damaged}
MCLines == {c.bytes : c \in Sent}

bytes == <<line, read, buffer, out, stopped>>

\* The sensors differ in nothing but their names: one order of them will do.
InOrder == \E n \in 0 .. Cardinality(Macs) : table = SubSeq(SetToSeq(Macs), 1, n)

NoBytes == line = Nobody /\ read = 0 /\ buffer = <<>> /\ out = <<>> /\ stopped = FALSE

NotOpened ==
    /\ table = <<>> /\ dead = FALSE /\ wire = <<>> /\ recent = <<>>
    /\ lock = Nobody /\ stream = Nobody
    /\ chan = [t \in Tasks |-> <<>>]
    /\ call = [t \in Tasks |-> IF t = Opener THEN [Idle EXCEPT !.op = "hello", !.end = "failed"]
                               ELSE Idle]
    /\ kept = [t \in Tasks |-> {}] /\ met = [t \in Tasks |-> {}]
    /\ moved = [t \in Tasks |-> FALSE] /\ why = [t \in Tasks |-> {}]
    /\ mishaps = MaxMishaps

MCSpec ==
    /\ (ReadsInit /\ InOrder /\ NoBytes) \/ (NotOpened /\ LineInit)
    /\ [][(ReadsNext /\ UNCHANGED bytes) \/ (line # Nobody /\ Arrive /\ UNCHANGED readsVars)]_<<readsVars, bytes>>
    /\ WF_readsVars(Read)
    /\ \A t \in Tasks : WF_readsVars(Send(t)) /\ WF_readsVars(Expire(t)) /\ WF_readsVars(Collect(t))

\* The next packet's first byte makes a prefix with the byte before it.
Hidden(c) == <<Last(c.damaged), 170>> \in Magics

\* The damage fell on a byte of the same value.
Intact(c) == \E p \in Samples : c.damaged = ToBytes(p)

\* The bytes the damaged packet says it has.
Claimed(c) == IF Len(c.damaged) >= Size(c.damaged) THEN Len(c.damaged) ELSE Size(c.damaged)

\* One damaged byte costs the packet it is in and no other: the reader goes on,
\* and hands on every intact packet in order, once as many bytes have come as the
\* damaged packet says it has.
Recovered(c) ==
    /\ ~stopped
    /\ /\ read = Len(line) /\ ~Hidden(c)
       /\ Claimed(c) <= Len(c.damaged) + 2 * Len(ToBytes(c.packet))
       => IF Intact(c) THEN Len(out) = 4 ELSE out = [i \in 1 .. 3 |-> c.packet]

\* Where there are bytes, the cuts make no difference, and one damaged byte costs
\* one packet (the reader loop of Engine::start).
FramingTrue == line # Nobody => CutsTrue /\ \A c \in Sent : line = c.bytes => Recovered(c)
===============================================================================
