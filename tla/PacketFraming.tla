----------------------------- MODULE PacketFraming -----------------------------
(* How packets are cut out of the bytes a gateway sends: Packet::to_bytes and  *)
(* Packet::parse, and the reader of Engine::start, which keeps what it has     *)
(* read in a buffer, drops what does not begin with a magic prefix, waits for  *)
(* the rest of a packet that is too short and skips the prefix of a bad one.   *)
EXTENDS Naturals, Sequences

CONSTANT Lines    \* what a gateway may send, damaged or not

ASSUME LinesAssumption == Lines \subseteq Seq(0 .. 255)

VARIABLES
    line,     \* what the gateway sends
    read,     \* how many bytes of it have been read
    buffer,   \* what the reader keeps of them
    out,      \* the packets it has handed on
    stopped   \* the reader task has panicked

lineVars == <<line, read, buffer, out, stopped>>

Sync == 67      \* 0x43
Async == 83     \* 0x53
AckId == 255
Magics == {<<85, 170>>, <<170, 85>>}
Shortest == 5

Word(hi, lo) == hi * 256 + lo
Total[s \in Seq(Nat)] == IF s = <<>> THEN 0 ELSE Head(s) + Total[Tail(s)]
Checksum(s) == Total[s] % 65536
Sealed(s) == s \o <<Checksum(s) \div 256, Checksum(s) % 256>>

\* An ACK has the command it acknowledges where others have their length.
Packet(id, payload) == [type |-> Async, id |-> id, payload |-> payload]
Ack(id) == Packet(AckId, <<id>>)
IsAck(p) == p.type = Async /\ p.id = AckId

ToBytes(p) ==
    IF IsAck(p) THEN Sealed(<<170, 85, p.type, p.payload[1], p.id>>)
    ELSE Sealed(<<170, 85, p.type, Len(p.payload) + 3, p.id>> \o p.payload)

\* The packets there can be: a length is a byte, and an ACK has one command.
Frames ==
    {p \in [type : {Sync, Async}, id : 0 .. 255, payload : Seq(0 .. 255)] :
        IF IsAck(p) THEN Len(p.payload) = 1 ELSE Len(p.payload) <= 252}

\* One after the other on the line.
Stream[ps \in Seq(Frames)] == IF ps = <<>> THEN <<>> ELSE ToBytes(Head(ps)) \o Stream[Tail(ps)]

-------------------------------------------------------------------------------
\* Where the packet at the start of s ends, by its own account.
Size(s) == IF s[3] = Async /\ s[5] = AckId THEN 7 ELSE s[4] + 4

Matches(s, n) == Word(s[n - 1], s[n]) = Checksum(SubSeq(s, 1, n - 2))

PacketIn(s, n) ==
    [type |-> s[3], id |-> s[5],
     payload |-> IF s[5] = AckId /\ s[3] = Async THEN <<s[4]>> ELSE SubSeq(s, 6, n - 2)]

\* "short": more bytes are needed; "bad": not a packet; "panic": a length that
\* leaves no room for the command, with a right checksum, cuts the payload out
\* from behind its end.
Parse(s) ==
    IF Len(s) < Shortest THEN "short"
    ELSE IF s[3] \notin {Sync, Async} THEN "bad"
    ELSE IF Len(s) < Size(s) THEN "short"
    ELSE IF ~Matches(s, Size(s)) THEN "bad"
    ELSE IF Size(s) < 7 THEN "panic"
    ELSE "packet"

After(s, n) == SubSeq(s, n + 1, Len(s))

\* The first magic prefix, 0 if there is none.
FindMagic(s) ==
    LET at == {i \in 1 .. Len(s) - 1 : <<s[i], s[i + 1]>> \in Magics} IN
    IF at = {} THEN 0 ELSE CHOOSE i \in at : \A j \in at : i <= j

\* Mutation of Skipped: a bad packet is skipped as long as it says it is.
SkippedWhole(s) == After(s, Size(s))

\* Of a bad packet only the prefix is skipped: what follows may be a packet.
Skipped(s) == After(s, 2)

\* One turn of the reader's loop: what it leaves of the buffer, what it hands on
\* and whether it goes on.
Turn(held) ==
    LET at == FindMagic(held)
        s == After(held, at - 1)
        left(rest, packets, next) == [rest |-> rest, packets |-> packets, next |-> next]
    IN  IF at = 0 THEN left(held, <<>>, "wait")
        ELSE CASE Parse(s) = "short" -> left(s, <<>>, "wait")
               [] Parse(s) = "panic" -> left(s, <<>>, "stop")
               [] Parse(s) = "bad" -> left(Skipped(s), <<>>, "on")
               [] Parse(s) = "packet" -> left(After(s, Size(s)), <<PacketIn(s, Size(s))>>, "on")

\* The loop; the emulated gateway reads the host's packets in the same way
\* (run_session, src/src/bin/virtual_dongle.rs).
Drained[held \in Seq(Nat)] ==
    LET t == Turn(held) IN
    IF t.next = "on" THEN [Drained[t.rest] EXCEPT !.out = t.packets \o @]
    ELSE [buffer |-> t.rest, out |-> <<>>, dead |-> t.next = "stop"]

-------------------------------------------------------------------------------
LineInit ==
    /\ line \in Lines
    /\ read = 0 /\ buffer = <<>> /\ out = <<>> /\ stopped = FALSE

\* A read returns any number of the bytes sent.
Arrive ==
    /\ ~stopped
    /\ \E n \in read + 1 .. Len(line) :
           LET d == Drained[buffer \o SubSeq(line, read + 1, n)] IN
           /\ read' = n
           /\ buffer' = d.buffer /\ out' = out \o d.out /\ stopped' = d.dead
    /\ UNCHANGED line

LineSpec == LineInit /\ [][Arrive]_lineVars

-------------------------------------------------------------------------------
\* However the bytes are cut into reads: what has been handed on and what is kept
\* is what one read of them all would have left.
CutsTrue == [buffer |-> buffer, out |-> out, dead |-> stopped] = Drained[SubSeq(line, 1, read)]

\* Of intact packets, whatever comes behind them: until the last has come nothing
\* but how they begin has been handed on, from then on all of them have been.
IntactTrue ==
    \A ps \in Seq(Frames), t \in Seq(0 .. 255) :
        line = Stream[ps] \o t =>
            /\ read <= Len(Stream[ps]) => ~stopped /\ \E n \in 0 .. Len(ps) : out = SubSeq(ps, 1, n)
            /\ read >= Len(Stream[ps]) => Len(out) >= Len(ps) /\ SubSeq(out, 1, Len(ps)) = ps
            /\ read = Len(Stream[ps]) => buffer = <<>>
===============================================================================
