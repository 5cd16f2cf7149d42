----------------------------- MODULE MCStreams -----------------------------
(* The parts of the library that turn packets into bytes and carry them over *)
(* TCP, and the ZDT sender, checked side by side: a behaviour exercises the   *)
(* part it chose at the start and leaves the others as they were.            *)
EXTENDS BufferUse, MessagePath, BitStream, TcpLink, TcpAccept, TcpPunch, TcpLocator, ZdtSender

VARIABLE part

\* What is written to a buffer, one item after the other.
Item(kind, value) == [kind |-> kind, value |-> value]
Long == Item("string", [i \in 1..16 |-> i])
MCBufferScripts ==
  {<<Item("byte", 7), Item("word", 513), Item("string", <<65, 0, 66>>), Item("var", 65536)>>,
   <<Item("vector", <<1, 256, 0>>), Item("map", <<<<0, 1>>, <<300, 2>>>>), Item("var", 0)>>,
   <<Item("address", [family |-> 4, ip |-> <<10, 0, 0, 1>>, port |-> 258]),
     Item("bits", <<1, 0, 0, 1, 0, 0, 0, 0, 1>>), Item("string", <<>>)>>,
   <<Long, Item("byte", 255), Item("vector", <<7, 8>>), Item("string", <<1, 2>>)>>,
   <<Long, Long, Long, Long, Long, Item("byte", 1)>>}

\* Packets whose serializers behave or do not, in frames of one to three.
Packet(id, body, writes) == [id |-> id, body |-> body, writes |-> writes]
Body == <<65, 0, 66>>
Packets ==
  {Packet(0, <<>>, "in place"), Packet(1, Body, "in place"), Packet(1, Body, "own"),
   Packet(1, Body, "nothing"), Packet(2, Body, "in place"), Packet(3, Body, "own"),
   Packet(300, Body, "in place"), Packet(6, Body, "in place")}
Sloppy == {Packet(4, Body, "in place"), Packet(5, Body, "in place")}
Serializers == 0 :> "exact" @@ 1 :> "exact" @@ 2 :> "short" @@ 3 :> "checked"
               @@ 4 :> "lenient" @@ 5 :> "refuses" @@ 6 :> "skips"
Policy(compression, encrypted, out, in) ==
  [compression |-> compression, encrypted |-> encrypted, threshold |-> 10,
   zstdOut |-> out, zstdIn |-> in, serializers |-> Serializers,
   handler |-> [form |-> IF encrypted THEN "PacketHandler" ELSE "CallbackPacketHandler",
                takes |-> 0 :> {"ref"} @@ 1 :> {"ref", "shared"} @@ 4 :> {"shared"} @@ 5 :> {"ref"}]]
MCPolicies ==
  {Policy(c, e, out, in) : c \in {"None", "Zstandard"}, e \in BOOLEAN, out \in BOOLEAN, in \in {TRUE}}
    \cup {Policy("Zstandard", FALSE, FALSE, FALSE)}
MCScripts ==
  {<<<<p>>, <<q>>, <<Packet(1, Body, "own")>>>> : p, q \in Packets \cup Sloppy}
    \cup {<<<<p, q, r>>>> : p, q, r \in Packets}
    \cup {<<<<p, q>>, <<q, p>>>> : p, q \in Packets}
SloppyScripts == {<<<<p, q>>>> : p, q \in Packets \cup Sloppy}

-----------------------------------------------------------------------------
\* Two fields of every kind, values in and outside their ranges, and one more at
\* whatever offset they leave; and four that fill the register of the writer.
Field(kind, value, min, max, bits) ==
  [kind |-> kind, value |-> value, min |-> min, max |-> max, bits |-> bits]
Bits(value, bits) == Field("bits", value, 0, 0, bits)
Fields ==
  {Bits(5, 3), Bits(70000, 17), Bits(200, 7), Field("ranged", 9, -3, 4, 0), Field("ranged", 2, -3, 7, 0),
   Field("ranged", 1, 2, 2, 0), Field("float", 5, 0, 6, 2), Field("float", -1, 0, 7, 3),
   Field("var", 15, 0, 0, 0), Field("var", 273, 0, 0, 0), Field("align", 0, 0, 0, 0),
   Field("flush", 0, 0, 0, 0), Bits(1234567, 30)}
MCFieldScripts ==
  {<<a, b, c>> : a, b \in Fields, c \in {Bits(200, 7), Field("var", 273, 0, 0, 0)}}
    \cup {<<a, Bits(1234567, 30), b, Bits(1, 1)>> : a, b \in Fields}

Snapshot(ammo, yaw, firing) == [ammo |-> ammo, yaw |-> yaw, firing |-> firing]
MCSnapshots == {Snapshot(0, 0, FALSE), Snapshot(1, 2, TRUE), Snapshot(3, 1, FALSE)}

-----------------------------------------------------------------------------
M(id, len) == [id |-> id, len |-> len]

\* Both sides send, one message empty and one too large; and a session that is
\* closed under its threads.
Busy == [messages |-> [client |-> <<M(1, 1), M(2, 0), M(3, 2)>>, server |-> <<M(5, 3), M(4, 2)>>],
         pings |-> 1, closes |-> 0]
Ended == [messages |-> [client |-> <<M(1, 2)>>, server |-> <<M(4, 1)>>], pings |-> 0, closes |-> 1]
MCLoads == {Busy, Ended}

-----------------------------------------------------------------------------
\* Admission: lists of rules that are valid, malformed or too long, over native
\* and mapped addresses; throttles around their limit and window; sockets that
\* are accepted, watched and closed while the poller runs.
V4(a, b, c, d) == InetAddressIPv4(<<a, b, c, d>>, 9)
Mapped(a, b, c, d) == InetAddressIPv6(ZeroBytes(10) \o <<255, 255, a, b, c, d>>, 9)
Native(x) == InetAddressIPv6(<<32, 1, 13, 184>> \o ZeroBytes(11) \o <<x>>, 9)
Local == InetAddressUnix("", 0)
Text(bytes, prefix) == [bytes |-> bytes, prefix |-> prefix]
Rules(allow, deny, max, window, from, polls, gone) ==
  [allow |-> allow, deny |-> deny, max |-> max, window |-> window, sources |-> from,
   polls |-> polls, gone |-> gone]

Everyone == <<V4(10, 0, 0, 1), Mapped(10, 0, 0, 9), V4(10, 0, 0, 128), Native(1), Native(2), Local>>
Texts ==
  {Text(<<10, 0, 0, 0>>, 25), Text(<<10, 0, 0, 9>>, NoPrefix), Text(<<10, 0, 0, 0>>, 33), Text(<<>>, 8),
   Text(<<0, 0, 0, 0>>, 0), Text(<<32, 1, 13, 184>> \o ZeroBytes(12), 32),
   Text(<<32, 1, 13, 184>> \o ZeroBytes(11) \o <<2>>, 127), Text(<<10, 0, 0, 0>>, BadPrefix)}
UpToOne == {<<>>} \cup {<<t>> : t \in Texts}
Lists == {Rules(a, d, 0, 0, Everyone, FALSE, 0) :
            a \in UpToOne \cup {<<t, u>> : t, u \in Texts}, d \in UpToOne}
One == V4(10, 0, 0, 1)
Throttles == {Rules(<<>>, <<>>, m, w, s, FALSE, 0) : m \in 1..2, w \in 1..2,
                s \in {<<One, Mapped(10, 0, 0, 1), One, One, One, One>>,
                       <<One, V4(10, 0, 0, 2), One, V4(10, 0, 0, 3), One, One>>,
                       <<One, Local, One, One>>}}
Watches == {Rules(<<>>, <<>>, 0, 0, <<Local, Local, Local, Local>>, TRUE, 3)}
MCAcceptPlans == Lists \cup Throttles \cup Watches
MCDescriptors == 1..5

\* Two paths of which one answers, and unequal patience; one path, with a port
\* that may be taken; a path nobody answers on.
Punching(paths, answers, binds, x, y) ==
  [paths |-> paths, answers |-> answers, binds |-> binds,
   rounds |-> [p \in Punchers |-> IF p = "a" THEN x ELSE y]]
MCPunchPlans == {Punching({1, 2}, {1}, FALSE, 2, 1), Punching({1}, {1}, TRUE, 2, 2),
                 Punching({1}, {}, FALSE, 2, 2)}

\* The sender against a peer that may acknowledge or report anything: whole and
\* fragmented messages, one that is probed for, and one of too many fragments.
Sending(frags, messages, tailProbes, may) ==
  [kinds |-> {[rel |-> TRUE, ord |-> TRUE, frags |-> n] : n \in frags}, messages |-> messages,
   batch |-> 2, window |-> 2, retries |-> 2, probes |-> tailProbes, capacity |-> 0, duplicates |-> 1,
   may |-> may]
SenderPlans == {Sending({1, 2}, 2, 0, {}), Sending({2}, 1, 1, {"prune"}), Sending({3}, 2, 0, {"prune"})}

-----------------------------------------------------------------------------
Parts == {"buffer", "messages", "bits", "halves", "delta", "link", "accept", "punch", "locator",
          "sender"}

\* A part that is not exercised starts in one state.
Idle(p, v, values) == IF part = p THEN TRUE ELSE v = (CHOOSE x \in values : TRUE)

StreamsInit ==
  /\ part \in Parts
  /\ Idle("buffer", script, BufferScripts) /\ Idle("buffer", buf, {Fresh("big")}) /\ BufferInit
  /\ Idle("messages", mail, Scripts) /\ Idle("messages", policy, Policies) /\ PathInit
  /\ Idle("bits", fields, FieldScripts) /\ BitInit
  /\ Idle("halves", half, {0}) /\ HalfInit
  /\ DeltaInit
  /\ Idle("link", load, Loads) /\ TcpInit
  /\ Idle("accept", acceptPlan, AcceptPlans) /\ AcceptInit
  /\ Idle("punch", punchPlan, PunchPlans) /\ PunchInit
  /\ LocatorInit
  /\ Idle("sender", plan, Plans) /\ SenderInit

\* Every part but p keeps its state.
Rest(p) ==
  /\ UNCHANGED part
  /\ IF p = "buffer" THEN TRUE ELSE UNCHANGED bufferVars
  /\ IF p = "messages" THEN TRUE ELSE UNCHANGED pathVars
  /\ IF p = "bits" THEN TRUE ELSE UNCHANGED <<writer, reader, fields, done, read, trimmed>>
  /\ IF p = "halves" THEN TRUE ELSE UNCHANGED half
  /\ IF p = "delta" THEN TRUE ELSE UNCHANGED deltaVars
  /\ IF p = "link" THEN TRUE ELSE UNCHANGED tcpVars
  /\ IF p = "accept" THEN TRUE ELSE UNCHANGED acceptVars
  /\ IF p = "punch" THEN TRUE ELSE UNCHANGED punchVars
  /\ IF p = "locator" THEN TRUE ELSE UNCHANGED locatorVars
  /\ IF p = "sender" THEN TRUE ELSE UNCHANGED senderVars

StreamsNext ==
  \/ part = "buffer" /\ BufferNext /\ Rest("buffer")
  \/ part = "messages" /\ PathNext /\ Rest("messages")
  \/ part = "bits" /\ BitNext /\ Rest("bits")
  \/ part = "halves" /\ HalfNext /\ Rest("halves")
  \/ part = "delta" /\ DeltaNext /\ Rest("delta")
  \/ part = "link" /\ TcpNext /\ Rest("link")
  \/ part = "accept" /\ AcceptNext /\ Rest("accept")
  \/ part = "punch" /\ PunchNext /\ Rest("punch")
  \/ part = "locator" /\ LocatorNext /\ Rest("locator")
  \/ part = "sender" /\ SenderNext /\ Rest("sender")
=============================================================================
