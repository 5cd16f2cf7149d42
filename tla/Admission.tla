----------------------------- MODULE Admission -----------------------------
(***************************************************************************)
(* Network addresses (inet_addr.h, inet_addr.cc) and who may connect: the  *)
(* address lists and the per-host throttle of a listener, AdmissionControl *)
(* (admission.h, admission.cc).  An address is the bytes of its host, a    *)
(* port and, for a unix socket, a path; text is represented by what it     *)
(* denotes: a host text by the kind of name it is, a rule's text by the    *)
(* address in front of the slash and the number behind it.                 *)
(***************************************************************************)
EXTENDS Integers, Sequences, SequencesExt, FiniteSets, FiniteSetsExt

CONSTANTS MaxPath,          \* sizeof(sockaddr_un::sun_path)
          MaxTrackedSources \* kMaxTrackedSources

ASSUME AdmissionAssumption == MaxPath \in Nat \ {0} /\ MaxTrackedSources \in Nat

\* An address that was never valid: readable, never equal to a valid one.
Invalid(ipv) == [ipv |-> ipv, bytes |-> <<>>, port |-> 0, path |-> "", valid |-> FALSE]

ZeroBytes(n) == [i \in 1..n |-> 0]

InetAddressIPv4(ip, port) ==
    [ipv |-> "IPv4", bytes |-> ip, port |-> port, path |-> "", valid |-> TRUE]

InetAddressIPv6(ip, port) ==
    [ipv |-> "IPv6", bytes |-> ip, port |-> port, path |-> "", valid |-> TRUE]

\* A path that does not fit the kernel's structure makes an invalid address.
InetAddressUnix(path, length) ==
    IF length >= MaxPath THEN Invalid("Unix")
    ELSE [ipv |-> "Unix", bytes |-> <<>>, port |-> 0, path |-> path, valid |-> TRUE]

\* The peer's address as the kernel reports it: a connected unix client is
\* usually unnamed and reads back as the empty path.
FromSockaddr(sa) ==
    CASE sa.family = "inet"  -> InetAddressIPv4(sa.bytes, sa.port)
      [] sa.family = "inet6" -> InetAddressIPv6(sa.bytes, sa.port)
      [] sa.family = "unix"  -> InetAddressUnix(sa.path, 0)

\* Same host with another port; a path has no port and is copied.
WithPort(a, port) == IF a.ipv = "Unix" THEN a ELSE [a EXCEPT !.port = port]

\* operator==: two invalid addresses of one family are equal, whatever they
\* were made from.
SameAddress(a, b) ==
    /\ a.ipv = b.ipv
    /\ a.valid = b.valid
    /\ a.valid => IF a.ipv = "Unix" THEN a.path = b.path
                  ELSE a.bytes = b.bytes /\ a.port = b.port

\* ::ffff:a.b.c.d, the shape an IPv4 client takes on a dual-stack socket.
IsV4MappedV6(bytes) ==
    /\ SubSeq(bytes, 1, 10) = ZeroBytes(10)
    /\ bytes[11] = 255 /\ bytes[12] = 255

\* The bytes admission keys on: 4, 16, or none for a path.
HostKey(a) ==
    CASE a.ipv = "Unix" -> <<>>
      [] a.ipv = "IPv4" -> a.bytes
      [] OTHER -> IF IsV4MappedV6(a.bytes) THEN SubSeq(a.bytes, 13, 16) ELSE a.bytes

\* 0xFF << (8 - rem) as a byte, and a byte masked with it.
Masked(byte, rem) == byte - (byte % 2^(8 - rem))

\* The leading bits of two byte strings, whole bytes first and then the rest
\* of one byte under a mask.
PrefixMatch_NoMask(a, b, bits) ==
    SubSeq(a, 1, bits \div 8) = SubSeq(b, 1, bits \div 8)

PrefixMatch(a, b, bits) ==
    LET whole == bits \div 8
        rem   == bits % 8
    IN  /\ SubSeq(a, 1, whole) = SubSeq(b, 1, whole)
        /\ rem = 0 \/ Masked(a[whole + 1], rem) = Masked(b[whole + 1], rem)

NoBlock == [valid |-> FALSE, v6 |-> FALSE, bytes |-> <<>>, prefix |-> 0]

\* CIDRBlock::Parse.  A rule's text is [bytes, prefix]: the bytes of the
\* address in front of the slash (none when it is not an address), and the
\* number behind it: NoPrefix without a slash, BadPrefix when it is not a
\* short string of digits.
NoPrefix == -1

BadPrefix == -2

ParseBlock(text) ==
    LET v6     == Len(text.bytes) = 16
        width  == IF v6 THEN 128 ELSE 32
        prefix == IF text.prefix = NoPrefix THEN width ELSE text.prefix
    IN  IF text.prefix = BadPrefix \/ text.bytes = <<>> THEN NoBlock
        ELSE IF prefix > width THEN NoBlock
        ELSE [valid |-> TRUE, v6 |-> v6, bytes |-> text.bytes, prefix |-> prefix]

\* CIDRBlock::Matches.
BlockMatches(block, address) ==
    LET candidate == HostKey(address)
    IN  /\ block.valid
        /\ candidate # <<>>
        /\ (Len(candidate) = 16) = block.v6
        /\ PrefixMatch(block.bytes, candidate, block.prefix)

-----------------------------------------------------------------------------
(***************************************************************************)
(* The addresses a host offers as its own: the interfaces that are up, in  *)
(* the kernel's order, without link-local addresses and container bridges, *)
(* at most MaxLocal of them, and the loopback address last.                *)
(***************************************************************************)
LoopbackAddress(ipv) ==
    IF ipv = "IPv6" THEN ZeroBytes(15) \o <<1>> ELSE <<127, 0, 0, 1>>

IsLinkLocal(ipv, ip) ==
    IF ipv = "IPv6" THEN ip[1] = 254 /\ ip[2] = 128 ELSE ip[1] = 169 /\ ip[2] = 254

IsLoopback(ipv, ip) == IF ipv = "IPv6" THEN ip = LoopbackAddress(ipv) ELSE ip[1] = 127

\* An interface is [ipv, ip, up, bridge].
GetLocalAddresses(interfaces, ipv, MaxLocal) ==
    LET seen      == SelectSeq(interfaces, LAMBDA i :
                         i.ipv = ipv /\ i.up /\ ~i.bridge /\ ~IsLinkLocal(ipv, i.ip))
        outward   == SelectSeq(seen, LAMBDA i : ~IsLoopback(ipv, i.ip))
        kept      == SubSeq(outward, 1, IF Len(outward) > MaxLocal THEN MaxLocal ELSE Len(outward))
        addresses == [i \in 1..Len(kept) |-> kept[i].ip]
    IN  IF Len(outward) < Len(seen) \/ addresses = <<>>
        THEN Append(addresses, LoopbackAddress(ipv))
        ELSE addresses

-----------------------------------------------------------------------------
(* AdmissionControl: rules is [allow, deny, max, window]; table is sources_, *)
(* from a host's key to the window it is in and the attempts counted there.  *)

ValidOnly(texts) ==
    SelectSeq([i \in 1..Len(texts) |-> ParseBlock(texts[i])], LAMBDA b : b.valid)

AnyMatch(blocks, source) == \E i \in 1..Len(blocks) : BlockMatches(blocks[i], source)

Screen(rules, source) ==
    LET allow == ValidOnly(rules.allow)
    IN  IF source.ipv = "Unix" THEN "Allow"
        ELSE IF AnyMatch(ValidOnly(rules.deny), source) THEN "Denylisted"
        ELSE IF allow # <<>> /\ ~AnyMatch(allow, source) THEN "NotAllowlisted"
        ELSE "Allow"

\* A full table forgets the windows that are over.
Swept(table, window, now) ==
    IF Cardinality(DOMAIN table) <= MaxTrackedSources THEN table
    ELSE LET live == {k \in DOMAIN table : now - table[k].start <= window}
         IN  [k \in live |-> table[k]]

\* The entry an attempt of key counts on.
Counted(table, window, key, now) ==
    LET old  == IF key \in DOMAIN table THEN table[key] ELSE [start |-> 0, count |-> 0]
        over == old.count = 0 \/ now - old.start > window
    IN  IF over THEN [start |-> now, count |-> 1] ELSE [old EXCEPT !.count = @ + 1]

\* Admit: the verdict, and the table it leaves.
Admit(rules, sources, source, now) ==
    LET key   == HostKey(source)
        table == Swept(sources, rules.window, now)
        full  == Cardinality(DOMAIN table) > MaxTrackedSources /\ key \notin DOMAIN table
        entry == Counted(table, rules.window, key, now)
    IN  IF Screen(rules, source) # "Allow"
        THEN [verdict |-> Screen(rules, source), sources |-> sources]
        ELSE IF rules.max = 0 \/ rules.window = 0 \/ key = <<>>
        THEN [verdict |-> "Allow", sources |-> sources]
        ELSE IF full THEN [verdict |-> "Allow", sources |-> table]
        ELSE [verdict |-> IF entry.count <= rules.max THEN "Allow" ELSE "Throttled",
              sources |-> [k \in DOMAIN table \cup {key} |-> IF k = key THEN entry ELSE table[k]]]
=============================================================================
