--------------------------- MODULE TcpLinkProofs ---------------------------
(***************************************************************************)
(* The framing of a TCP session, for every buffer, load and way the bytes   *)
(* are cut up: what a side hands up is what the other wrote, and neither    *)
(* takes a stream that goes on for one that ended or is damaged.            *)
(***************************************************************************)
EXTENDS TcpLink, SequenceTheorems, TLAPS

\* A side's other side (the two ends of a socket).
LEMMA OtherSide ==
  /\ Other("client") = "server" /\ Other("server") = "client"
  /\ \A e \in Sides : Other(e) \in Sides /\ Other(e) # e /\ Other(Other(e)) = e
<1>1. Other("client") = "server" /\ Other("server") = "client"
  BY DEF Other, Sides
<1> QED BY <1>1 DEF Sides

-----------------------------------------------------------------------------
(* Sequences of bytes. *)

\* A sequence of one byte.
LEMMA OneByte ==
  ASSUME NEW a \in Nat
  PROVE  <<a>> \in Seq(Nat) /\ Len(<<a>>) = 1 /\ <<a>>[1] = a
OBVIOUS

\* A sequence of two bytes: the length a frame starts with.
LEMMA TwoBytes ==
  ASSUME NEW a \in Nat, NEW b \in Nat
  PROVE  <<a, b>> \in Seq(Nat) /\ Len(<<a, b>>) = 2 /\ <<a, b>>[1] = a /\ <<a, b>>[2] = b
OBVIOUS

\* Bytes put one after the other (write() and recv() append).
LEMMA Joined ==
  ASSUME NEW s \in Seq(Nat), NEW t \in Seq(Nat)
  PROVE  /\ s \o t \in Seq(Nat) /\ Len(s \o t) = Len(s) + Len(t) /\ Len(s) \in Nat /\ Len(t) \in Nat
         /\ \A i \in 1..Len(s) : (s \o t)[i] = s[i]
         /\ \A i \in 1..Len(t) : (s \o t)[Len(s) + i] = t[i] /\ (s \o t)[i + Len(s)] = t[i]
<1>1. s \o t \in Seq(Nat) /\ Len(s \o t) = Len(s) + Len(t) /\ Len(s) \in Nat /\ Len(t) \in Nat
  OBVIOUS
<1>2. ASSUME NEW i \in 1..Len(s) PROVE (s \o t)[i] = s[i]
  BY <1>1
<1>3. ASSUME NEW i \in 1..Len(t) PROVE (s \o t)[Len(s) + i] = t[i] /\ (s \o t)[i + Len(s)] = t[i]
  <2>1. Len(s) + i = i + Len(s) /\ (s \o t)[Len(s) + i] = t[i]
    BY <1>1
  <2> QED BY Zenon, <2>1
<1> QED BY Zenon, <1>1, <1>2, <1>3

\* A part of them (what write() or recv() left).
LEMMA Piece ==
  ASSUME NEW S, NEW s \in Seq(S), NEW m \in Nat, NEW n \in Nat, m <= n, n <= Len(s)
  PROVE  /\ SubSeq(s, m + 1, n) \in Seq(S) /\ Len(SubSeq(s, m + 1, n)) = n - m
         /\ \A i \in 1..(n - m) : SubSeq(s, m + 1, n)[i] = s[m + i]
<1>1. Len(s) \in Nat /\ m + 1 \in Nat /\ DOMAIN s = 1..Len(s)
  OBVIOUS
<1>2. Len(SubSeq(s, m + 1, n)) = n - m /\ \A i \in 1..(n - m) : SubSeq(s, m + 1, n)[i] = s[m + i]
  BY <1>1
<1>3. SubSeq(s, m + 1, n) \in Seq(S)
  BY <1>1
<1> QED BY <1>2, <1>3

\* Sequences with the same bytes are the same.
LEMMA SameBytes ==
  ASSUME NEW S, NEW s \in Seq(S), NEW t \in Seq(S), Len(s) = Len(t), \A i \in 1..Len(s) : s[i] = t[i]
  PROVE  s = t
OBVIOUS

\* Cutting a sequence in two and joining the parts again (partial writes and reads).
LEMMA CutAndJoined ==
  ASSUME NEW s \in Seq(Nat), NEW n \in 0..Len(s)
  PROVE  SubSeq(s, 1, n) \o SubSeq(s, n + 1, Len(s)) = s
<1> DEFINE u == SubSeq(s, 1, n)
           v == SubSeq(s, n + 1, Len(s))
           t == u \o v
<1>1. Len(s) \in Nat /\ n \in Nat /\ n <= Len(s) /\ 0 + 1 = 1 /\ n - 0 = n
  OBVIOUS
<1>2. /\ u \in Seq(Nat) /\ Len(u) = n /\ \A i \in 1..n : u[i] = s[0 + i]
  <2>1. SubSeq(s, 0 + 1, n) = u
    BY <1>1
  <2>2. /\ SubSeq(s, 0 + 1, n) \in Seq(Nat) /\ Len(SubSeq(s, 0 + 1, n)) = n - 0
        /\ \A i \in 1..(n - 0) : SubSeq(s, 0 + 1, n)[i] = s[0 + i]
    BY <1>1, Piece
  <2> QED BY <1>1, <2>1, <2>2
<1>3. v \in Seq(Nat) /\ Len(v) = Len(s) - n /\ \A i \in 1..(Len(s) - n) : v[i] = s[n + i]
  BY <1>1, Piece
<1> HIDE DEF u, v
<1>4. /\ t \in Seq(Nat) /\ Len(t) = Len(u) + Len(v)
      /\ \A i \in 1..Len(u) : t[i] = u[i]
      /\ \A i \in 1..Len(v) : t[Len(u) + i] = v[i]
  BY ZenonT(30), <1>2, <1>3, Joined
<1> HIDE DEF t
<1>5. ASSUME NEW i \in 1..Len(s) PROVE t[i] = s[i]
  <2>1. CASE i <= n
    BY <1>1, <1>2, <1>4, <2>1
  <2>2. CASE i > n
    <3>1. i - n \in 1..Len(v) /\ n + (i - n) = i
      BY <1>1, <1>3, <2>2
    <3>2. t[n + (i - n)] = v[i - n] /\ v[i - n] = s[n + (i - n)]
      BY <1>2, <1>3, <1>4, <3>1
    <3> QED BY <3>1, <3>2
  <2> QED BY <1>1, <2>1, <2>2
<1>6. t = s
  BY <1>1, <1>2, <1>3, <1>4, <1>5, SameBytes
<1> QED BY ZenonT(30), <1>6 DEF t, u, v

-----------------------------------------------------------------------------
(* A stream of frames. *)

\* What may be framed, and the frames of WriteAll().
Bodies == {b \in Seq(Nat) : Len(b) > 0 /\ Len(b) + 2 <= RecvCapacity}
DataFrame(body) == Prefix(Len(body)) \o body

\* Frame f is a control frame, or carries the body after the first n of w.
NextFrame(f, count, n, w) ==
  \/ count = 0 /\ \E type \in {Ping, Pong} : f = Control(type)
  \/ count = 1 /\ n + 1 \in 1..Len(w) /\ f = DataFrame(w[n + 1])

\* The bytes of s after place b are those of f, as far as s goes.
Holds(s, b, f) == \A i \in 1..Len(f) : b + i <= Len(s) => s[b + i] = f[i]

\* num gives the places of s where a frame begins, and how many bodies of w come before
\* each: every frame begins where the one before ends.  Of a stream that is cut off the
\* last frame may be missing, of a whole one nothing of w is.
FrameAt(num, s, w, b, how) ==
  \E f \in Seq(Nat), count \in {0, 1} :
    /\ NextFrame(f, count, num[b], w) /\ Holds(s, b, f)
    /\ how = "whole" => b + Len(f) <= Len(s)
    /\ b + Len(f) <= Len(s) => b + Len(f) \in DOMAIN num /\ num[b + Len(f)] = num[b] + count

Parses(num, s, w, r, how) ==
  /\ DOMAIN num \subseteq 0..Len(s) /\ 0 \in DOMAIN num /\ num[0] = r
  /\ \A b \in DOMAIN num : num[b] \in Nat /\ (b < Len(s) => FrameAt(num, s, w, b, how))
  /\ how = "whole" => Len(s) \in DOMAIN num /\ num[Len(s)] = Len(w)

\* s is what is left of the frames of w after r bodies.
Framed(s, w, r, how) == \E num : Parses(num, s, w, r, how)

\* The bytes of a frame (WriteAll's two byte prefix and what follows it).
LEMMA FrameBytes ==
  /\ \A type \in {Ping, Pong} : /\ Control(type) \in Seq(Nat) /\ Len(Control(type)) = 3
                                /\ Size(Control(type)) = 0
  /\ \A body \in Bodies : /\ DataFrame(body) \in Seq(Nat) /\ Len(DataFrame(body)) = Len(body) + 2
                          /\ Size(DataFrame(body)) = Len(body) /\ Len(body) \in Nat /\ Len(body) > 0
                          /\ \A i \in 1..Len(body) : DataFrame(body)[i + 2] = body[i]
<1>1. ASSUME NEW type \in {Ping, Pong}
      PROVE  Control(type) \in Seq(Nat) /\ Len(Control(type)) = 3 /\ Size(Control(type)) = 0
  <2>1. Prefix(0) = <<0, 0>>
    BY DEF Prefix
  <2>2. type \in Nat
    BY DEF Ping, Pong
  <2>3. Control(type) = <<0, 0>> \o <<type>>
    BY Zenon, <2>1 DEF Control
  <2> DEFINE pre == <<0, 0>>
             body == <<type>>
  <2>4. pre \in Seq(Nat) /\ Len(pre) = 2 /\ pre[1] = 0 /\ pre[2] = 0
    BY TwoBytes
  <2>5. body \in Seq(Nat) /\ Len(body) = 1
    BY <2>2, OneByte
  <2> HIDE DEF pre, body
  <2>6. /\ pre \o body \in Seq(Nat) /\ Len(pre \o body) = Len(pre) + Len(body)
        /\ \A i \in 1..Len(pre) : (pre \o body)[i] = pre[i]
    BY Zenon, <2>4, <2>5, Joined
  <2>7. Control(type) = pre \o body
    BY <2>3 DEF pre, body
  <2> QED BY <2>4, <2>5, <2>6, <2>7 DEF Size
<1>2. ASSUME NEW body \in Bodies
      PROVE  /\ DataFrame(body) \in Seq(Nat) /\ Len(DataFrame(body)) = Len(body) + 2
             /\ Size(DataFrame(body)) = Len(body) /\ Len(body) \in Nat /\ Len(body) > 0
             /\ \A i \in 1..Len(body) : DataFrame(body)[i + 2] = body[i]
  <2> DEFINE n == Len(body)
  <2>1. body \in Seq(Nat) /\ n \in Nat /\ n > 0
    BY DEF Bodies
  <2>2. n \div 256 \in Nat /\ n % 256 \in Nat /\ 256 * (n \div 256) + (n % 256) = n
    <3> HIDE DEF n
    <3> QED BY <2>1
  <2>3. PICK hi \in Nat, lo \in Nat : 256 * hi + lo = n /\ Prefix(n) = <<hi, lo>>
    BY <2>2 DEF Prefix
  <2> DEFINE pre == <<hi, lo>>
  <2>4. pre \in Seq(Nat) /\ Len(pre) = 2 /\ pre[1] = hi /\ pre[2] = lo
    BY TwoBytes
  <2>5. DataFrame(body) = pre \o body
    BY Zenon, <2>3 DEF DataFrame
  <2> HIDE DEF pre
  <2>6. /\ pre \o body \in Seq(Nat) /\ Len(pre \o body) = Len(pre) + n
        /\ \A i \in 1..Len(pre) : (pre \o body)[i] = pre[i]
    BY Zenon, <2>1, <2>4, Joined
  <2>7. ASSUME NEW i \in 1..n PROVE (pre \o body)[i + 2] = body[i]
    <3>1. (pre \o body)[i + Len(pre)] = body[i]
      BY Zenon, <2>1, <2>4, Joined
    <3> QED BY Zenon, <2>4, <3>1
  <2> HIDE DEF n
  <2>8. Size(pre \o body) = n
    <3>1. 1 \in 1..Len(pre) /\ 2 \in 1..Len(pre)
      BY <2>4
    <3>2. (pre \o body)[1] = hi /\ (pre \o body)[2] = lo
      BY Zenon, <2>4, <2>6, <3>1
    <3> QED BY <2>3, <3>2 DEF Size
  <2>9. Len(pre) + n = n + 2
    BY <2>1, <2>4
  <2> QED BY Zenon, <2>1, <2>5, <2>6, <2>7, <2>8, <2>9 DEF n
<1> QED BY Zenon, <1>1, <1>2

\* The same of the next frame of a stream.
FrameLengths(f, count) ==
  /\ f \in Seq(Nat) /\ Len(f) \in Nat /\ Len(f) >= 3 /\ Size(f) \in Nat
  /\ count = 0 => Size(f) = 0 /\ Len(f) = 3
  /\ count = 1 => Size(f) > 0 /\ Len(f) = Size(f) + 2 /\ Size(f) + 2 <= RecvCapacity

FrameContents(f, n, w) ==
  /\ n + 1 \in 1..Len(w) /\ w[n + 1] \in Bodies /\ Size(f) = Len(w[n + 1])
  /\ \A i \in 1..Size(f) : f[i + 2] = w[n + 1][i]

\* The lengths and contents of the frame a writer adds next.
LEMMA NextFrameBytes ==
  ASSUME NEW w \in Seq(Bodies), NEW n \in Nat, NEW f, NEW count, NextFrame(f, count, n, w)
  PROVE  /\ FrameLengths(f, count) /\ count \in {0, 1}
         /\ count = 1 => FrameContents(f, n, w)
<1>1. CASE count = 0 /\ \E type \in {Ping, Pong} : f = Control(type)
  <2>1. f \in Seq(Nat) /\ Len(f) = 3 /\ Size(f) = 0
    BY Zenon, <1>1, FrameBytes
  <2> QED BY <1>1, <2>1 DEF FrameLengths
<1>2. CASE count = 1 /\ n + 1 \in 1..Len(w) /\ f = DataFrame(w[n + 1])
  <2>1. w[n + 1] \in Bodies
    BY <1>2
  <2>2. /\ f \in Seq(Nat) /\ Len(f) = Len(w[n + 1]) + 2 /\ Size(f) = Len(w[n + 1])
        /\ Len(w[n + 1]) \in Nat /\ Len(w[n + 1]) > 0
        /\ \A i \in 1..Len(w[n + 1]) : f[i + 2] = w[n + 1][i]
    BY Zenon, <1>2, <2>1, FrameBytes
  <2>3. Len(w[n + 1]) + 2 <= RecvCapacity
    BY Zenon, <2>1 DEF Bodies
  <2>4. FrameLengths(f, count)
    BY <1>2, <2>2, <2>3 DEF FrameLengths
  <2>5. FrameContents(f, n, w)
    BY Zenon, <1>2, <2>1, <2>2 DEF FrameContents
  <2> QED BY <1>2, <2>4, <2>5
<1> QED BY Zenon, <1>1, <1>2 DEF NextFrame
\* What is left of a stream when writing stops is one that is cut off (WriteAll fails).
LEMMA CutOff ==
  ASSUME NEW s \in Seq(Nat), NEW t \in Seq(Nat), NEW w, NEW r, NEW how, Framed(s \o t, w, r, how)
  PROVE  Framed(s, w, r, "cut")
<1> DEFINE u == s \o t
<1>1. /\ u \in Seq(Nat) /\ Len(u) = Len(s) + Len(t) /\ Len(s) \in Nat /\ Len(t) \in Nat
      /\ \A i \in 1..Len(s) : u[i] = s[i]
  BY Zenon, Joined
<1>2. PICK num : Parses(num, u, w, r, how)
  BY Zenon DEF Framed
<1> HIDE DEF u
<1> DEFINE places == {b \in DOMAIN num : b <= Len(s)}
           short == [b \in places |-> num[b]]
<1>3. DOMAIN short = places /\ \A b \in places : short[b] = num[b]
  OBVIOUS
<1>4. DOMAIN num \subseteq 0..Len(u) /\ 0 \in DOMAIN num /\ num[0] = r
      /\ \A b \in DOMAIN num : num[b] \in Nat /\ (b < Len(u) => FrameAt(num, u, w, b, how))
  BY Zenon, <1>2 DEF Parses
<1>5. places \subseteq 0..Len(s) /\ 0 \in places
  BY <1>1, <1>4
<1> HIDE DEF short
<1>6. ASSUME NEW b \in places, b < Len(s) PROVE FrameAt(short, s, w, b, "cut")
  <2>1. b \in DOMAIN num /\ b \in Nat /\ b < Len(u)
    BY <1>1, <1>4, <1>6
  <2>2. PICK f \in Seq(Nat), count \in {0, 1} :
          /\ NextFrame(f, count, num[b], w) /\ Holds(u, b, f)
          /\ b + Len(f) <= Len(u) => b + Len(f) \in DOMAIN num /\ num[b + Len(f)] = num[b] + count
    BY Zenon, <1>4, <2>1 DEF FrameAt
  <2>3. Holds(s, b, f)
    <3> SUFFICES ASSUME NEW i \in 1..Len(f), b + i <= Len(s) PROVE s[b + i] = f[i]
      BY Zenon DEF Holds
    <3>3. Len(u) = Len(s) + Len(t) /\ Len(s) \in Nat /\ Len(t) \in Nat /\ Len(f) \in Nat
      BY <1>1
    <3>1. b + i \in 1..Len(s) /\ b + i <= Len(u)
      BY <2>1, <3>3
    <3>2. u[b + i] = f[i]
      BY Zenon, <2>2, <3>1 DEF Holds
    <3> QED BY Zenon, <1>1, <3>1, <3>2
  <2>4. ASSUME b + Len(f) <= Len(s)
        PROVE  b + Len(f) \in places /\ short[b + Len(f)] = short[b] + count
    <3>1. Len(f) \in Nat
      OBVIOUS
    <3>2. b + Len(f) <= Len(u)
      BY <1>1, <2>1, <2>4, <3>1
    <3> QED BY Zenon, <1>3, <2>2, <2>4, <3>2
  <2> QED BY Zenon, <1>3, <2>2, <2>3, <2>4 DEF FrameAt
<1>7. Parses(short, s, w, r, "cut")
  BY Zenon, <1>3, <1>4, <1>5, <1>6 DEF Parses
<1> QED BY Zenon, <1>7 DEF Framed

\* A place within a frame is within the stream that holds the frame.
LEMMA Within ==
  ASSUME NEW b \in Nat, NEW n \in Nat, NEW m \in Nat, NEW i \in 1..n, b + n <= m
  PROVE  b + i \in 1..m /\ b + i <= m
OBVIOUS

\* A frame written after a whole stream makes a whole stream (WriteAll, under write_mutex_).
LEMMA FrameAdded ==
  ASSUME NEW s \in Seq(Nat), NEW w \in Seq(Bodies), NEW more \in Seq(Bodies), NEW r,
         Framed(s, w, r, "whole"), NEW g \in Seq(Nat), NEW d \in {0, 1},
         \A f, count : \A n \in Nat : NextFrame(f, count, n, w) => NextFrame(f, count, n, more),
         NextFrame(g, d, Len(w), more), Len(more) = Len(w) + d
  PROVE  Framed(s \o g, more, r, "whole")
<1> DEFINE u == s \o g
           last == Len(s) + Len(g)
<1>1. /\ u \in Seq(Nat) /\ Len(u) = last /\ Len(s) \in Nat /\ Len(g) \in Nat
      /\ \A i \in 1..Len(s) : u[i] = s[i]
      /\ \A i \in 1..Len(g) : u[Len(s) + i] = g[i]
  BY Zenon, Joined
<1>2. Len(w) \in Nat /\ Len(g) >= 3
  <2>1. FrameLengths(g, d)
    BY NextFrameBytes
  <2> QED BY <2>1 DEF FrameLengths
<1>3. PICK num : Parses(num, s, w, r, "whole")
  BY Zenon DEF Framed
<1>4. /\ DOMAIN num \subseteq 0..Len(s) /\ 0 \in DOMAIN num /\ num[0] = r
      /\ \A b \in DOMAIN num : num[b] \in Nat /\ (b < Len(s) => FrameAt(num, s, w, b, "whole"))
      /\ Len(s) \in DOMAIN num /\ num[Len(s)] = Len(w)
  BY Zenon, <1>3 DEF Parses
<1>5. last \in Nat /\ last > Len(s) /\ last \notin DOMAIN num
  BY <1>1, <1>2, <1>4
<1> HIDE DEF u, last
<1> DEFINE long == [b \in DOMAIN num \cup {last} |-> IF b = last THEN Len(more) ELSE num[b]]
<1>6. DOMAIN long = DOMAIN num \cup {last} /\ long[last] = Len(more) /\ \A b \in DOMAIN num : long[b] = num[b]
  BY Zenon, <1>5
<1> HIDE DEF long
<1>7. DOMAIN long \subseteq 0..Len(u)
  BY <1>1, <1>4, <1>5, <1>6
<1>8. \A b \in DOMAIN long : long[b] \in Nat
  <2>1. Len(more) \in Nat
    OBVIOUS
  <2> QED BY Zenon, <1>4, <1>6, <2>1
<1>9. ASSUME NEW b \in DOMAIN num, b < Len(s) PROVE FrameAt(long, u, more, b, "whole")
  <2>1. b \in Nat /\ num[b] \in Nat /\ FrameAt(num, s, w, b, "whole")
    BY <1>1, <1>4, <1>9
  <2>2. PICK f \in Seq(Nat), count \in {0, 1} :
          /\ NextFrame(f, count, num[b], w) /\ Holds(s, b, f)
          /\ b + Len(f) <= Len(s)
          /\ b + Len(f) \in DOMAIN num /\ num[b + Len(f)] = num[b] + count
    BY Zenon, <2>1 DEF FrameAt
  <2>3. Len(f) \in Nat /\ Len(s) \in Nat /\ Len(u) = last
    BY <1>1
  <2>4. Holds(u, b, f)
    <3> SUFFICES ASSUME NEW i \in 1..Len(f) PROVE u[b + i] = f[i]
      BY Zenon DEF Holds
    <3>1. b + i \in 1..Len(s) /\ b + i <= Len(s)
      <4>1. b + Len(f) <= Len(s) /\ b \in Nat /\ i \in 1..Len(f)
        BY Zenon, <2>1, <2>2
      <4> QED BY Zenon, <2>3, <4>1, Within
    <3>2. s[b + i] = f[i]
      BY Zenon, <2>2, <3>1 DEF Holds
    <3> QED BY Zenon, <1>1, <3>1, <3>2
  <2>5. b + Len(f) <= Len(u)
    BY <1>1, <1>5, <2>1, <2>2, <2>3
  <2>6. b + Len(f) \in DOMAIN long /\ long[b + Len(f)] = long[b] + count
    BY Zenon, <1>6, <2>2
  <2>7. NextFrame(f, count, long[b], more)
    BY Zenon, <1>6, <2>1, <2>2
  <2> QED BY Zenon, <2>2, <2>4, <2>5, <2>6, <2>7 DEF FrameAt
<1>10. FrameAt(long, u, more, Len(s), "whole")
  <2>1. Holds(u, Len(s), g)
    BY Zenon, <1>1 DEF Holds
  <2>2. Len(s) + Len(g) = last /\ last <= Len(u)
    BY <1>1, <1>5 DEF last
  <2>3. long[Len(s)] = Len(w) /\ long[last] = long[Len(s)] + d /\ last \in DOMAIN long
    BY Zenon, <1>4, <1>6
  <2> QED BY Zenon, <2>1, <2>2, <2>3 DEF FrameAt
<1>11. ASSUME NEW b \in DOMAIN long, b < Len(u) PROVE FrameAt(long, u, more, b, "whole")
  <2>1. b \in DOMAIN num
    BY <1>1, <1>5, <1>6, <1>11
  <2>2. b < Len(s) \/ b = Len(s)
    BY <1>1, <1>4, <2>1
  <2> QED BY Zenon, <1>9, <1>10, <2>1, <2>2
<1>12. Len(u) = last
  BY <1>1
<1>13. Parses(long, u, more, r, "whole")
  BY Zenon, <1>4, <1>6, <1>7, <1>8, <1>11, <1>12 DEF Parses
<1>14. Framed(u, more, r, "whole")
  BY Zenon, <1>13 DEF Framed
<1> QED BY <1>14 DEF u
\* A stream that is not empty begins with a frame, and is a stream without it (ReadBuffer).
LEMMA FrameTaken ==
  ASSUME NEW s \in Seq(Nat), NEW w \in Seq(Bodies), NEW r, NEW how, Framed(s, w, r, how), Len(s) > 0
  PROVE  \E f \in Seq(Nat), count \in {0, 1} :
           /\ r \in Nat /\ NextFrame(f, count, r, w) /\ Holds(s, 0, f)
           /\ Len(f) <= Len(s) => Framed(SubSeq(s, Len(f) + 1, Len(s)), w, r + count, how)
<1>1. PICK num : Parses(num, s, w, r, how)
  BY Zenon DEF Framed
<1>2. /\ DOMAIN num \subseteq 0..Len(s) /\ 0 \in DOMAIN num /\ num[0] = r
      /\ \A b \in DOMAIN num : num[b] \in Nat /\ (b < Len(s) => FrameAt(num, s, w, b, how))
      /\ how = "whole" => Len(s) \in DOMAIN num /\ num[Len(s)] = Len(w)
  BY Zenon, <1>1 DEF Parses
<1>3. Len(s) \in Nat /\ 0 < Len(s)
  OBVIOUS
<1>4. PICK f \in Seq(Nat), count \in {0, 1} :
        /\ NextFrame(f, count, num[0], w) /\ Holds(s, 0, f)
        /\ 0 + Len(f) <= Len(s) => 0 + Len(f) \in DOMAIN num /\ num[0 + Len(f)] = num[0] + count
  BY Zenon, <1>2, <1>3 DEF FrameAt
<1> DEFINE k == Len(f)
           rest == SubSeq(s, k + 1, Len(s))
<1>5. SUFFICES ASSUME k <= Len(s) PROVE Framed(rest, w, r + count, how)
  BY Zenon, <1>2, <1>4
<1>6. k \in Nat /\ 0 + k = k
  OBVIOUS
<1>7. k \in DOMAIN num /\ num[k] = r + count
  BY Zenon, <1>2, <1>4, <1>5, <1>6
<1>8. /\ rest \in Seq(Nat) /\ Len(rest) = Len(s) - k
      /\ \A i \in 1..(Len(s) - k) : rest[i] = s[k + i]
  BY <1>3, <1>5, <1>6, Piece
<1> HIDE DEF k, rest
<1>9. Len(rest) \in Nat /\ Len(rest) + k = Len(s)
  BY <1>3, <1>5, <1>6, <1>8
<1> DEFINE places == {b \in 0..Len(rest) : b + k \in DOMAIN num}
           moved == [b \in places |-> num[b + k]]
<1>10. DOMAIN moved = places /\ \A b \in places : moved[b] = num[b + k] /\ b + k \in DOMAIN num /\ b \in Nat
  <2>1. \A b \in places : b \in Nat
    BY <1>9
  <2> QED BY Zenon, <2>1
<1>11. 0 \in places /\ moved[0] = r + count
  <2>1. 0 \in 0..Len(rest) /\ 0 + k = k
    BY <1>6, <1>9
  <2> QED BY Zenon, <1>7, <2>1
<1>12. how = "whole" => Len(rest) \in places /\ moved[Len(rest)] = Len(w)
  <2>1. Len(rest) \in 0..Len(rest)
    BY <1>9
  <2> QED BY Zenon, <1>2, <1>9, <2>1
<1> HIDE DEF moved
<1>13. ASSUME NEW b \in places, b < Len(rest) PROVE FrameAt(moved, rest, w, b, how)
  <2>1. b \in Nat /\ b + k \in DOMAIN num /\ moved[b] = num[b + k]
    BY Zenon, <1>10
  <2>2. b + k < Len(s) /\ b + k \in Nat
    BY <1>6, <1>9, <1>13, <2>1
  <2>3. PICK g \in Seq(Nat), c \in {0, 1} :
          /\ NextFrame(g, c, num[b + k], w) /\ Holds(s, b + k, g)
          /\ how = "whole" => (b + k) + Len(g) <= Len(s)
          /\ (b + k) + Len(g) <= Len(s)
               => (b + k) + Len(g) \in DOMAIN num /\ num[(b + k) + Len(g)] = num[b + k] + c
    BY Zenon, <1>2, <2>1, <2>2 DEF FrameAt
  <2>4. Holds(rest, b, g)
    <3> SUFFICES ASSUME NEW i \in 1..Len(g), b + i <= Len(rest) PROVE rest[b + i] = g[i]
      BY Zenon DEF Holds
    <3>1. Len(g) \in Nat /\ i \in Nat /\ i >= 1
      OBVIOUS
    <3>2. /\ b + i \in 1..(Len(s) - k) /\ k + (b + i) = (b + k) + i /\ (b + k) + i <= Len(s)
      BY <1>6, <1>9, <2>1, <3>1
    <3>3. rest[b + i] = s[(b + k) + i]
      BY Zenon, <1>8, <3>2
    <3>4. s[(b + k) + i] = g[i]
      BY Zenon, <2>3, <3>2 DEF Holds
    <3> QED BY Zenon, <3>3, <3>4
  <2>5. /\ b + Len(g) <= Len(rest) <=> (b + k) + Len(g) <= Len(s)
        /\ (b + k) + Len(g) = (b + Len(g)) + k
    <3>1. Len(g) \in Nat
      OBVIOUS
    <3> QED BY <1>6, <1>9, <2>1, <3>1
  <2>6. ASSUME b + Len(g) <= Len(rest)
        PROVE  b + Len(g) \in places /\ moved[b + Len(g)] = moved[b] + c
    <3>1. b + Len(g) \in 0..Len(rest)
      BY <1>9, <2>1, <2>6
    <3>2. (b + Len(g)) + k \in DOMAIN num /\ num[(b + Len(g)) + k] = num[b + k] + c
      BY Zenon, <2>3, <2>5, <2>6
    <3>3. b + Len(g) \in places
      BY Zenon, <3>1, <3>2
    <3> QED BY Zenon, <1>10, <2>1, <3>2, <3>3
  <2> QED BY Zenon, <1>10, <2>1, <2>3, <2>4, <2>5, <2>6 DEF FrameAt
<1>14. places \subseteq 0..Len(rest) /\ \A b \in places : moved[b] \in Nat
  BY Zenon, <1>2, <1>10
<1>15. Parses(moved, rest, w, r + count, how)
  BY Zenon, <1>10, <1>11, <1>12, <1>13, <1>14 DEF Parses
<1> QED BY Zenon, <1>15 DEF Framed
\* Taking the front off a buffer takes it off the stream that the buffer begins.
LEMMA FrontCut ==
  ASSUME NEW u \in Seq(Nat), NEW v \in Seq(Nat), NEW k \in Nat, k <= Len(u)
  PROVE  /\ SubSeq(u, k + 1, Len(u)) \in Seq(Nat)
         /\ SubSeq(u \o v, k + 1, Len(u \o v)) = SubSeq(u, k + 1, Len(u)) \o v
<1> DEFINE s == u \o v
           rest == SubSeq(u, k + 1, Len(u))
           left == SubSeq(s, k + 1, Len(s))
           right == rest \o v
<1>1. /\ s \in Seq(Nat) /\ Len(s) = Len(u) + Len(v) /\ Len(u) \in Nat /\ Len(v) \in Nat
      /\ \A i \in 1..Len(u) : s[i] = u[i]
      /\ \A i \in 1..Len(v) : s[Len(u) + i] = v[i]
  BY Zenon, Joined
<1>2. rest \in Seq(Nat) /\ Len(rest) = Len(u) - k /\ \A i \in 1..(Len(u) - k) : rest[i] = u[k + i]
  BY <1>1, Piece
<1> HIDE DEF s, rest
<1>3. s \in Seq(Nat) /\ Len(s) \in Nat /\ k <= Len(s)
  BY <1>1
<1>4. left \in Seq(Nat) /\ Len(left) = Len(s) - k /\ \A i \in 1..(Len(s) - k) : left[i] = s[k + i]
  BY SMTT(30), <1>3, Piece
<1>5. /\ right \in Seq(Nat) /\ Len(right) = Len(rest) + Len(v)
      /\ \A i \in 1..Len(rest) : right[i] = rest[i]
      /\ \A i \in 1..Len(v) : right[Len(rest) + i] = v[i]
  BY Zenon, <1>2, Joined
<1> HIDE DEF left, right
<1>6. Len(left) = Len(right)
  BY <1>1, <1>2, <1>4, <1>5
<1>7. ASSUME NEW i \in 1..Len(left) PROVE left[i] = right[i]
  <2>1. i \in 1..(Len(s) - k) /\ left[i] = s[k + i]
    BY <1>4
  <2>2. CASE i <= Len(rest)
    <3>1. i \in 1..Len(rest) /\ i \in 1..(Len(u) - k) /\ k + i \in 1..Len(u)
      BY <1>1, <1>2, <2>1, <2>2
    <3> QED BY Zenon, <1>1, <1>2, <1>5, <2>1, <3>1
  <2>3. CASE i > Len(rest)
    <3> DEFINE j == i - Len(rest)
    <3>1. j \in 1..Len(v) /\ Len(rest) + j = i /\ Len(u) + j = k + i
      BY <1>1, <1>2, <2>1, <2>3
    <3> HIDE DEF j
    <3> QED BY Zenon, <1>1, <1>5, <2>1, <3>1
  <2> QED BY <1>2, <2>1, <2>2, <2>3
<1>8. left = right
  BY Zenon, <1>4, <1>5, <1>6, <1>7, SameBytes
<1> QED BY ZenonT(30), <1>2, <1>8 DEF left, right, rest, s

\* What ReadBuffer() finds in front of the buffer is the next frame of the stream: it is
\* never taken for an oversized one, a buffer without a whole frame has room, and what is
\* handed up is the body that was written.
LEMMA FrontFrame ==
  ASSUME NEW u \in Seq(Nat), NEW v \in Seq(Nat), NEW w \in Seq(Bodies), NEW r, NEW how,
         Framed(u \o v, w, r, how)
  PROVE  /\ FrameAhead(u) # "oversized"
         /\ FrameAhead(u) = "more" => Len(u) < RecvCapacity
         /\ FrameAhead(u) = "data" => /\ r \in Nat /\ r + 1 \in 1..Len(w) /\ BodyOf(u) = w[r + 1]
                                      /\ After(u) \in Seq(Nat)
                                      /\ Framed(After(u) \o v, w, r + 1, how)
         /\ FrameAhead(u) = "control" => /\ After(u) \in Seq(Nat)
                                         /\ Framed(After(u) \o v, w, r, how)
<1> DEFINE s == u \o v
<1>1. /\ s \in Seq(Nat) /\ Len(s) = Len(u) + Len(v) /\ Len(u) \in Nat /\ Len(v) \in Nat
      /\ \A i \in 1..Len(u) : s[i] = u[i]
  BY Zenon, Joined
<1>2. RecvCapacity \in Nat /\ RecvCapacity >= 3
  BY TcpAssumption
<1>3. CASE Len(u) < 2
  <2>1. FrameAhead(u) = "more"
    BY Zenon, <1>3 DEF FrameAhead
  <2> QED BY <1>1, <1>2, <1>3, <2>1
<1>4. CASE ~(Len(u) < 2)
  <2>1. Framed(s, w, r, how)
    OBVIOUS
  <2> HIDE DEF s
  <2>2. Len(s) > 0 /\ Len(s) \in Nat /\ Len(u) <= Len(s) /\ 1 \in 1..Len(u) /\ 2 \in 1..Len(u)
        /\ 0 + 1 <= Len(s) /\ 0 + 2 <= Len(s) /\ 0 + 1 = 1 /\ 0 + 2 = 2
    BY <1>1, <1>4
  <2>3. PICK f \in Seq(Nat), count \in {0, 1} :
          /\ r \in Nat /\ NextFrame(f, count, r, w) /\ Holds(s, 0, f)
          /\ Len(f) <= Len(s) => Framed(SubSeq(s, Len(f) + 1, Len(s)), w, r + count, how)
    BY Zenon, <1>1, <2>1, <2>2, FrameTaken
  <2> DEFINE n == Size(f)
  <2>4. FrameLengths(f, count) /\ (count = 1 => FrameContents(f, r, w))
    BY Zenon, <2>3, NextFrameBytes
  <2>13. count = 1 => r + 1 \in 1..Len(w) /\ w[r + 1] \in Bodies /\ n = Len(w[r + 1])
    BY Zenon, <2>4 DEF FrameContents
  <2>14. count = 1 => \A i \in 1..n : f[i + 2] = w[r + 1][i]
    BY Zenon, <2>4 DEF FrameContents
  <2>15. /\ Len(f) \in Nat /\ Len(f) >= 3 /\ n \in Nat
         /\ count = 0 => n = 0 /\ Len(f) = 3
         /\ count = 1 => n > 0 /\ Len(f) = n + 2 /\ n + 2 <= RecvCapacity
    BY Zenon, <2>4 DEF FrameLengths
  <2>5. Size(u) = n
    <3>1. 1 \in 1..Len(f) /\ 2 \in 1..Len(f)
      BY <2>15
    <3>2. s[0 + 1] = f[1] /\ s[0 + 2] = f[2]
      BY Zenon, <2>2, <2>3, <3>1 DEF Holds
    <3>3. u[1] = f[1] /\ u[2] = f[2]
      BY Zenon, <1>1, <2>2, <3>2
    <3> QED BY Zenon, <3>3 DEF Size
  <2> HIDE DEF n
  <2>7. FrameAhead(u) # "oversized"
    <3>1. ~(n + 2 > RecvCapacity)
      BY <1>2, <2>15
    <3> QED BY Zenon, <2>5, <3>1 DEF FrameAhead
  <2>8. /\ FrameAhead(u) = "more" => Len(u) - 2 < Needed(n)
        /\ FrameAhead(u) = "data" => ~(Len(u) - 2 < Needed(n)) /\ n # 0
        /\ FrameAhead(u) = "control" => ~(Len(u) - 2 < Needed(n)) /\ n = 0
    BY Zenon, <1>4, <2>5, <2>7 DEF FrameAhead
  <2>9. FrameAhead(u) = "more" => Len(u) < RecvCapacity
    <3>1. Len(u) \in Nat
      BY <1>1
    <3>2. CASE count = 0
      BY <1>2, <2>15, <2>8, <3>1, <3>2 DEF Needed
    <3>3. CASE count = 1
      BY <1>2, <2>15, <2>8, <3>1, <3>3 DEF Needed
    <3> QED BY <3>2, <3>3
  <2>10. ASSUME FrameAhead(u) \in {"data", "control"}
         PROVE  /\ Len(f) = 2 + Needed(n) /\ Len(f) <= Len(u) /\ After(u) \in Seq(Nat)
                /\ Framed(After(u) \o v, w, r + count, how)
    <3>1. Len(f) = 2 + Needed(n) /\ Len(f) <= Len(u)
      <4>1. Len(u) \in Nat /\ ~(Len(u) - 2 < Needed(n))
        BY <1>1, <2>8, <2>10
      <4>2. CASE count = 0
        <5>1. n = 0 /\ Len(f) = 3 /\ Needed(n) = 1
          BY <2>15, <4>2 DEF Needed
        <5> QED BY <4>1, <5>1
      <4>3. CASE count = 1
        BY <2>15, <4>1, <4>3 DEF Needed
      <4> QED BY <4>2, <4>3
    <3>2. After(u) = SubSeq(u, Len(f) + 1, Len(u))
      <4>1. 3 + Needed(n) = Len(f) + 1
        BY <2>15, <3>1 DEF Needed
      <4> QED BY Zenon, <2>5, <4>1 DEF After
    <3>3. After(u) \in Seq(Nat) /\ SubSeq(s, Len(f) + 1, Len(s)) = After(u) \o v
      <4>1. Len(f) \in Nat /\ Len(f) <= Len(u)
        BY Zenon, <2>15, <3>1
      <4>2. /\ SubSeq(u, Len(f) + 1, Len(u)) \in Seq(Nat)
            /\ SubSeq(u \o v, Len(f) + 1, Len(u \o v)) = SubSeq(u, Len(f) + 1, Len(u)) \o v
        BY ZenonT(30), <4>1, FrontCut
      <4> QED BY Zenon, <3>2, <4>2 DEF s
    <3>4. Len(f) <= Len(s)
      BY <1>1, <2>2, <2>15, <3>1
    <3> QED BY Zenon, <2>3, <3>1, <3>3, <3>4
  <2>11. ASSUME FrameAhead(u) = "data" PROVE count = 1 /\ BodyOf(u) = w[r + 1]
    <3>1. count = 1 /\ n > 0 /\ Len(f) = n + 2 /\ n + 2 <= Len(u) /\ Needed(n) = n
      BY <2>15, <2>8, <2>10, <2>11 DEF Needed
    <3> DEFINE body == SubSeq(u, 2 + 1, 2 + n)
    <3>2. /\ body \in Seq(Nat) /\ Len(body) = (2 + n) - 2
          /\ \A i \in 1..((2 + n) - 2) : body[i] = u[2 + i]
      <4>1. 2 \in Nat /\ 2 + n \in Nat /\ 2 <= 2 + n /\ 2 + n <= Len(u)
        BY <2>15, <3>1
      <4>2. u \in Seq(Nat)
        OBVIOUS
      <4>3. PICK m \in Nat : m = 2
        OBVIOUS
      <4>4. PICK top \in Nat : top = 2 + n
        BY <4>1
      <4>5. m <= top /\ top <= Len(u)
        BY <4>1, <4>3, <4>4
      <4>6. /\ SubSeq(u, m + 1, top) \in Seq(Nat) /\ Len(SubSeq(u, m + 1, top)) = top - m
            /\ \A i \in 1..(top - m) : SubSeq(u, m + 1, top)[i] = u[m + i]
        BY ONLY <4>2, <4>5, Piece
      <4> QED BY Zenon, <4>3, <4>4, <4>6
    <3>3. BodyOf(u) = body
      <4>1. 2 + 1 = 3
        OBVIOUS
      <4> QED BY Zenon, <2>5, <3>1, <4>1 DEF BodyOf
    <3> HIDE DEF body
    <3>4. Len(body) = n /\ (2 + n) - 2 = n
      BY <2>15, <3>2
    <3>5. ASSUME NEW i \in 1..n PROVE body[i] = w[r + 1][i]
      <4>1. i + 2 \in 1..Len(f) /\ 0 + (i + 2) = i + 2 /\ 2 + i = i + 2 /\ i + 2 \in 1..Len(u)
            /\ 0 + (i + 2) <= Len(s)
        BY SMTT(30), <2>2, <2>15, <3>1
      <4>2. s[i + 2] = f[i + 2] /\ s[i + 2] = u[i + 2]
        BY Zenon, <1>1, <2>3, <4>1 DEF Holds
      <4>3. body[i] = u[i + 2]
        BY Zenon, <3>2, <3>4, <4>1
      <4> QED BY Zenon, <2>14, <3>1, <4>2, <4>3
    <3>6. w[r + 1] \in Seq(Nat) /\ Len(w[r + 1]) = n
      BY Zenon, <2>13, <3>1 DEF Bodies
    <3>7. body = w[r + 1]
      <4>1. body \in Seq(Nat) /\ Len(body) = Len(w[r + 1]) /\ \A i \in 1..Len(body) : body[i] = w[r + 1][i]
        BY Zenon, <3>2, <3>4, <3>5, <3>6
      <4> QED BY Zenon, <3>6, <4>1, SameBytes
    <3> QED BY Zenon, <3>1, <3>3, <3>7
  <2>12. ASSUME FrameAhead(u) = "control" PROVE r + count = r
    BY <2>3, <2>15, <2>8, <2>12
  <2> QED BY Zenon, <2>3, <2>7, <2>9, <2>10, <2>11, <2>12, <2>13
<1> QED BY <1>3, <1>4
\* What WriteAll() is given is the frame of a body or a control frame.
IsFrame(f) == (\E type \in {Ping, Pong} : f = Control(type)) \/ \E body \in Bodies : f = DataFrame(body)

\* A message that Send() takes is framed as its body (Fits, Data).
LEMMA MessageFramed ==
  ASSUME NEW m \in [len : Nat, id : Nat], Fits(m)
  PROVE  Data(m) \in Seq(Nat) /\ IsFrame(Data(m))
<1> DEFINE body == BodyBytes(m)
<1>1. m.len \in Nat /\ m.id \in Nat /\ m.len > 0 /\ m.len + 2 <= RecvCapacity
  BY TcpAssumption DEF Fits
<1>2. body \in Seq(Nat) /\ Len(body) = m.len
  BY <1>1 DEF BodyBytes
<1>3. body \in Bodies
  BY <1>1, <1>2 DEF Bodies
<1>4. Data(m) = DataFrame(body)
  BY Zenon, <1>2 DEF Data, DataFrame
<1> HIDE DEF body
<1> QED BY Zenon, <1>3, <1>4, FrameBytes DEF IsFrame

\* A body is read back from its frame.
LEMMA BodyReadBack ==
  ASSUME NEW body \in Bodies
  PROVE  BodyOf(DataFrame(body)) = body
<1> DEFINE f == DataFrame(body)
           n == Len(body)
<1>1. f \in Seq(Nat) /\ Len(f) = n + 2 /\ Size(f) = n /\ n \in Nat /\ n > 0
  BY Zenon, FrameBytes
<1>2. \A i \in 1..n : f[i + 2] = body[i]
  BY Zenon, FrameBytes
<1>3. body \in Seq(Nat)
  BY DEF Bodies
<1> HIDE DEF f
<1>4. Needed(Size(f)) = n
  BY <1>1 DEF Needed
<1> HIDE DEF n
<1>5. PICK m \in Nat, top \in Nat : m = 2 /\ top = 2 + n /\ m + 1 = 3
  BY <1>1
<1>6. m <= top /\ top <= Len(f) /\ top - m = n
  BY <1>1, <1>5
<1> DEFINE part == SubSeq(f, m + 1, top)
<1>7. part \in Seq(Nat) /\ Len(part) = top - m /\ \A i \in 1..(top - m) : part[i] = f[m + i]
  <2>1. f \in Seq(Nat)
    BY <1>1
  <2> QED BY ONLY <1>6, <2>1, Piece
<1>8. BodyOf(f) = part
  BY Zenon, <1>4, <1>5 DEF BodyOf
<1> HIDE DEF part
<1>9. ASSUME NEW i \in 1..n PROVE part[i] = body[i]
  <2>1. m + i = i + 2
    BY <1>1, <1>5
  <2> QED BY Zenon, <1>2, <1>6, <1>7, <2>1
<1>10. part = body
  <2>1. Len(part) = Len(body) /\ \A i \in 1..Len(part) : part[i] = body[i]
    BY Zenon, <1>6, <1>7, <1>9 DEF n
  <2> QED BY Zenon, <1>3, <1>7, <2>1, SameBytes
<1> QED BY Zenon, <1>8, <1>10 DEF f

-----------------------------------------------------------------------------
(* The invariant. *)

Returns == {"receive", "reread", "drain"}
ThreadState == [pc : Returns \cup {"update", "lock", "write"}, frame : Seq(Nat), then : Returns]
Reasons == {"no", "idle", "application", "eof", "oversized"}
Messages == Seq([len : Nat, id : Nat])

ThreadsTyped == DOMAIN thread = Sides /\ \A e \in Sides : thread[e] \in [Threads(e) -> ThreadState]

TcpType ==
  /\ outgoing \in [Sides -> Messages]
  /\ wire \in [Sides -> Seq(Nat)] /\ buffer \in [Sides -> Seq(Nat)]
  /\ closed \in [Sides -> Reasons]
  /\ written \in [Sides -> Seq(Bodies)] /\ received \in [Sides -> Seq(Bodies)]
  /\ DOMAIN lock = Sides /\ ThreadsTyped

\* write_mutex_ is held by the thread that writes, and by nobody else; a thread that waits
\* for it has a frame.
LocksInv ==
  \A e \in Sides :
    /\ lock[e] \in Threads(e) \cup {Nobody}
    /\ \A t \in Threads(e) : /\ thread[e][t].pc = "write" <=> lock[e] = t
                             /\ thread[e][t].pc = "lock" => IsFrame(thread[e][t].frame)

\* Writing goes on while neither side is closed.  What a side's session still has to write,
\* and the bytes it wrote that the other has not read, are one stream.
State == IF closed["client"] = "no" /\ closed["server"] = "no" THEN "whole" ELSE "cut"
Holding(e) == IF lock[e] = Nobody THEN <<>> ELSE thread[e][lock[e]].frame
Unwritten(e) == IF State = "whole" THEN Holding(e) ELSE <<>>
OnTheWay(e) == wire[e] \o Unwritten(e)
Stream(e) == buffer[Other(e)] \o OnTheWay(e)

\* The other side has handed up the bodies in front of those in the stream.
DirectionInv(e) ==
  /\ Framed(Stream(e), written[e], Len(received[Other(e)]), State)
  /\ Len(received[Other(e)]) <= Len(written[e])
  /\ \A i \in 1..Len(received[Other(e)]) : received[Other(e)][i] = written[e][i]

ClosedInv ==
  \A e \in Sides : closed[e] # "oversized" /\ (closed[e] = "eof" => closed[Other(e)] # "no")

TcpInv == TcpType /\ LocksInv /\ (\A e \in Sides : DirectionInv(e)) /\ ClosedInv

\* The parts of a stream are bytes.
LEMMA StreamBytes ==
  ASSUME TcpType, LocksInv, NEW e \in Sides
  PROVE  /\ wire[e] \in Seq(Nat) /\ buffer[e] \in Seq(Nat) /\ buffer[Other(e)] \in Seq(Nat)
         /\ Holding(e) \in Seq(Nat) /\ Unwritten(e) \in Seq(Nat) /\ OnTheWay(e) \in Seq(Nat)
<1>1. Other(e) \in Sides
  BY Zenon, OtherSide
<1>2. wire[e] \in Seq(Nat) /\ buffer[e] \in Seq(Nat) /\ buffer[Other(e)] \in Seq(Nat)
  BY Zenon, <1>1 DEF TcpType
<1>3. <<>> \in Seq(Nat)
  OBVIOUS
<1>4. Holding(e) \in Seq(Nat)
  <2>1. CASE lock[e] = Nobody
    BY Zenon, <1>3, <2>1 DEF Holding
  <2>2. CASE lock[e] # Nobody
    <3>1. lock[e] \in Threads(e)
      BY Zenon, <2>2 DEF LocksInv
    <3>2. thread[e][lock[e]] \in ThreadState
      BY Zenon, <3>1 DEF TcpType, ThreadsTyped
    <3>3. thread[e][lock[e]].frame \in Seq(Nat)
      BY <3>2 DEF ThreadState
    <3> QED BY Zenon, <2>2, <3>3 DEF Holding
  <2> QED BY <2>1, <2>2
<1>5. Unwritten(e) \in Seq(Nat)
  BY Zenon, <1>3, <1>4 DEF Unwritten
<1>6. OnTheWay(e) \in Seq(Nat)
  BY Zenon, <1>2, <1>5, Joined DEF OnTheWay
<1> QED BY Zenon, <1>2, <1>4, <1>5, <1>6
-----------------------------------------------------------------------------
(* Steps of a thread. *)

Elsewhere(e, t) ==
  \A d \in Sides : \A u \in Threads(d) : (d # e \/ u # t) => thread'[d][u] = thread[d][u]

\* A thread's step changes that thread.
LEMMA ThreadSet ==
  ASSUME ThreadsTyped, NEW e \in Sides, NEW t \in Threads(e), NEW v \in ThreadState,
         thread' = [thread EXCEPT ![e] = [thread[e] EXCEPT ![t] = v]]
  PROVE  ThreadsTyped' /\ thread'[e][t] = v /\ Elsewhere(e, t)
<1> DEFINE new == [thread[e] EXCEPT ![t] = v]
<1>1. thread[e] \in [Threads(e) -> ThreadState]
  BY Zenon DEF ThreadsTyped
<1>2. new \in [Threads(e) -> ThreadState] /\ new[t] = v /\ \A u \in Threads(e) : u # t => new[u] = thread[e][u]
  BY Zenon, <1>1
<1>3. thread' = [thread EXCEPT ![e] = new]
  BY Zenon
<1> HIDE DEF new
<1>4. DOMAIN thread' = Sides /\ thread'[e] = new /\ \A d \in Sides : d # e => thread'[d] = thread[d]
  BY Zenon, <1>3 DEF ThreadsTyped
<1>5. ThreadsTyped'
  BY Zenon, <1>2, <1>4 DEF ThreadsTyped
<1>6. Elsewhere(e, t)
  BY Zenon, <1>2, <1>4 DEF Elsewhere
<1> QED BY Zenon, <1>2, <1>4, <1>5, <1>6

\* It goes on somewhere else,
LEMMA Went ==
  ASSUME ThreadsTyped, NEW e \in Sides, NEW t \in Threads(e),
         NEW pc \in Returns \cup {"update", "lock", "write"}, GoesTo(e, t, pc)
  PROVE  /\ ThreadsTyped' /\ Elsewhere(e, t)
         /\ thread'[e][t].pc = pc /\ thread'[e][t].frame = thread[e][t].frame
<1> DEFINE v == [thread[e][t] EXCEPT !.pc = pc]
<1>1. thread[e][t] \in ThreadState
  BY Zenon DEF ThreadsTyped
<1>2. v \in ThreadState /\ v.pc = pc /\ v.frame = thread[e][t].frame
  BY <1>1 DEF ThreadState
<1>3. thread' = [thread EXCEPT ![e] = [thread[e] EXCEPT ![t] = v]]
  BY DEF GoesTo
<1> HIDE DEF v
<1>4. ThreadsTyped' /\ thread'[e][t] = v /\ Elsewhere(e, t)
  BY Zenon, <1>2, <1>3, ThreadSet
<1> QED BY Zenon, <1>2, <1>4

\* or with a frame to WriteAll().
LEMMA Began ==
  ASSUME ThreadsTyped, NEW e \in Sides, NEW t \in Threads(e), NEW frame \in Seq(Nat), NEW then \in Returns,
         Writes(e, t, frame, then)
  PROVE  /\ ThreadsTyped' /\ Elsewhere(e, t)
         /\ thread'[e][t].pc = "lock" /\ thread'[e][t].frame = frame
<1> DEFINE v == [pc |-> "lock", frame |-> frame, then |-> then]
<1>1. v \in ThreadState /\ v.pc = "lock" /\ v.frame = frame
  BY DEF ThreadState
<1>2. thread' = [thread EXCEPT ![e] = [thread[e] EXCEPT ![t] = v]]
  BY DEF Writes
<1> HIDE DEF v
<1>3. ThreadsTyped' /\ thread'[e][t] = v /\ Elsewhere(e, t)
  BY Zenon, <1>1, <1>2, ThreadSet
<1> QED BY Zenon, <1>1, <1>3

\* A thread that neither writes nor comes to write leaves the mutex and what its holder
\* has to write alone.
LEMMA QuietLocks ==
  ASSUME LocksInv, NEW e \in Sides, NEW t \in Threads(e), Elsewhere(e, t), lock' = lock,
         thread[e][t].pc # "write", thread'[e][t].pc # "write",
         thread'[e][t].pc = "lock" => IsFrame(thread'[e][t].frame)
  PROVE  LocksInv' /\ \A d \in Sides : Holding(d)' = Holding(d)
<1>1. lock[e] # t /\ lock'[e] # t
  BY Zenon DEF LocksInv
<1>2. ASSUME NEW d \in Sides, NEW u \in Threads(d), d # e \/ u # t
      PROVE  /\ thread'[d][u].pc = "write" <=> lock'[d] = u
             /\ thread'[d][u].pc = "lock" => IsFrame(thread'[d][u].frame)
  <2>1. thread'[d][u] = thread[d][u]
    BY Zenon, <1>2 DEF Elsewhere
  <2>2. /\ thread[d][u].pc = "write" <=> lock[d] = u
        /\ thread[d][u].pc = "lock" => IsFrame(thread[d][u].frame)
    BY Zenon DEF LocksInv
  <2> QED BY Zenon, <2>1, <2>2
<1>3. ASSUME NEW d \in Sides, NEW u \in Threads(d)
      PROVE  /\ thread'[d][u].pc = "write" <=> lock'[d] = u
             /\ thread'[d][u].pc = "lock" => IsFrame(thread'[d][u].frame)
  <2>1. CASE d = e /\ u = t
    BY Zenon, <1>1, <2>1
  <2> QED BY Zenon, <1>2, <2>1
<1>4. LocksInv'
  BY Zenon, <1>3 DEF LocksInv
<1>5. ASSUME NEW d \in Sides PROVE Holding(d)' = Holding(d)
  <2>1. CASE lock[d] = Nobody
    BY Zenon, <2>1 DEF Holding
  <2>2. CASE lock[d] # Nobody
    <3>1. lock[d] \in Threads(d) /\ (d # e \/ lock[d] # t)
      BY Zenon, <1>1, <2>2 DEF LocksInv
    <3>2. thread'[d][lock[d]] = thread[d][lock[d]]
      BY Zenon, <3>1 DEF Elsewhere
    <3> QED BY Zenon, <2>2, <3>2 DEF Holding
  <2> QED BY <2>1, <2>2
<1> QED BY Zenon, <1>4, <1>5

\* A stream that did not change is still what it was.
LEMMA DirectionKept ==
  ASSUME NEW e \in Sides, DirectionInv(e), Stream(e)' = Stream(e), State' = State,
         written'[e] = written[e], received'[Other(e)] = received[Other(e)]
  PROVE  DirectionInv(e)'
BY Zenon DEF DirectionInv

\* A step of a thread that touches no byte keeps the invariant.
LEMMA QuietStep ==
  ASSUME TcpInv, NEW e \in Sides, NEW t \in Threads(e), Elsewhere(e, t), ThreadsTyped',
         outgoing' \in [Sides -> Messages],
         UNCHANGED <<lock, wire, buffer, closed, written, received>>,
         thread[e][t].pc # "write", thread'[e][t].pc # "write",
         thread'[e][t].pc = "lock" => IsFrame(thread'[e][t].frame)
  PROVE  TcpInv'
<1>1. /\ lock' = lock /\ wire' = wire /\ buffer' = buffer /\ closed' = closed
      /\ written' = written /\ received' = received
  OBVIOUS
<1>2. LocksInv' /\ \A d \in Sides : Holding(d)' = Holding(d)
  BY Zenon, <1>1, QuietLocks DEF TcpInv
<1>3. State' = State
  BY Zenon, <1>1 DEF State
<1>4. ASSUME NEW d \in Sides PROVE DirectionInv(d)'
  <2>1. Stream(d)' = Stream(d)
    BY Zenon, <1>1, <1>2, <1>3 DEF Stream, OnTheWay, Unwritten
  <2> QED BY Zenon, <1>1, <1>3, <2>1, DirectionKept DEF TcpInv
<1>5. TcpType'
  BY Zenon, <1>1 DEF TcpInv, TcpType
<1>6. ClosedInv'
  BY Zenon, <1>1 DEF TcpInv, ClosedInv
<1> QED BY Zenon, <1>2, <1>4, <1>5, <1>6 DEF TcpInv
\* Initially nothing was written (the sockets are new).
LEMMA TcpInitInv ==
  TcpInit => TcpInv
<1> SUFFICES ASSUME TcpInit PROVE TcpInv
  OBVIOUS
<1>1. /\ outgoing = load.messages /\ load \in Loads /\ lock = [e \in Sides |-> Nobody]
      /\ wire = [e \in Sides |-> <<>>] /\ buffer = [e \in Sides |-> <<>>]
      /\ closed = [e \in Sides |-> "no"]
      /\ written = [e \in Sides |-> <<>>] /\ received = [e \in Sides |-> <<>>]
      /\ thread = [e \in Sides |-> [t \in Threads(e) |->
                     [pc |-> IF t = "loop" THEN "update" ELSE "drain", frame |-> <<>>, then |-> "drain"]]]
  BY Zenon DEF TcpInit
<1>2. <<>> \in Seq(Nat) /\ <<>> \in Seq(Bodies)
  OBVIOUS
<1>3. ASSUME NEW e \in Sides, NEW t \in Threads(e)
      PROVE  thread[e][t] \in ThreadState /\ thread[e][t].pc \in {"update", "drain"}
  <2>1. thread[e][t] = [pc |-> IF t = "loop" THEN "update" ELSE "drain", frame |-> <<>>, then |-> "drain"]
    BY Zenon, <1>1
  <2> QED BY <1>2, <2>1 DEF ThreadState, Returns
<1>4. ThreadsTyped
  <2>1. \A e \in Sides : thread[e] = [t \in Threads(e) |-> thread[e][t]]
    BY <1>1
  <2>2. DOMAIN thread = Sides
    BY Zenon, <1>1
  <2> QED BY Zenon, <1>3, <2>1, <2>2 DEF ThreadsTyped
<1>5. outgoing \in [Sides -> Messages]
  BY Zenon, <1>1, TcpAssumption DEF Messages
<1>6. TcpType
  <2>1. closed \in [Sides -> Reasons]
    BY Zenon, <1>1 DEF Reasons
  <2> QED BY Zenon, <1>1, <1>2, <1>4, <1>5, <2>1 DEF TcpType
<1>7. LocksInv
  <2> SUFFICES ASSUME NEW e \in Sides
               PROVE  /\ lock[e] \in Threads(e) \cup {Nobody}
                      /\ \A t \in Threads(e) : /\ thread[e][t].pc = "write" <=> lock[e] = t
                                               /\ thread[e][t].pc = "lock" => IsFrame(thread[e][t].frame)
    BY Zenon DEF LocksInv
  <2>1. lock[e] = Nobody
    BY Zenon, <1>1
  <2>2. \A t \in Threads(e) : t # Nobody
    BY DEF Threads, Nobody
  <2>3. \A t \in Threads(e) : thread[e][t].pc # "write" /\ thread[e][t].pc # "lock"
    BY <1>3
  <2> QED BY Zenon, <2>1, <2>2, <2>3
<1>8. ClosedInv
  BY <1>1 DEF ClosedInv
<1>9. ASSUME NEW e \in Sides PROVE DirectionInv(e)
  <2>1. Other(e) \in Sides
    BY Zenon, OtherSide
  <2>2. buffer[Other(e)] = <<>> /\ wire[e] = <<>> /\ written[e] = <<>> /\ received[Other(e)] = <<>>
        /\ Holding(e) = <<>>
    BY Zenon, <1>1, <2>1 DEF Holding
  <2>3. Unwritten(e) = <<>>
    BY Zenon, <2>2 DEF Unwritten
  <2>4. <<>> \o <<>> = <<>>
    OBVIOUS
  <2>5. Stream(e) = <<>>
    BY Zenon, <2>2, <2>3, <2>4 DEF Stream, OnTheWay
  <2> DEFINE none == <<>>
             num == [b \in {0} |-> 0]
  <2>6. Len(none) = 0 /\ 0 \in 0..0
    OBVIOUS
  <2>7. DOMAIN num = {0} /\ num[0] = 0
    OBVIOUS
  <2>8. ~(0 < 0) /\ {0} \subseteq 0..0 /\ 0 \in Nat
    OBVIOUS
  <2> HIDE DEF num, none
  <2>9. Parses(num, none, none, 0, State)
    BY Zenon, <2>6, <2>7, <2>8 DEF Parses
  <2>10. Framed(none, none, 0, State)
    BY Zenon, <2>9 DEF Framed
  <2>11. \A i \in 1..Len(none) : none[i] = none[i]
    OBVIOUS
  <2>12. Len(none) <= Len(none)
    BY <2>6
  <2> QED BY Zenon, <2>2, <2>5, <2>6, <2>10, <2>11, <2>12 DEF DirectionInv, none
<1> QED BY Zenon, <1>6, <1>7, <1>8, <1>9 DEF TcpInv

\* The loop sees whether anything has to be sent, and may ping (Update).
LEMMA UpdateKeeps ==
  ASSUME TcpInv, NEW e \in Sides, Update(e)
  PROVE  TcpInv'
<1>1. "loop" \in Threads(e) /\ thread[e]["loop"].pc = "update"
  BY DEF Update, At, Threads
<1>2. ThreadsTyped /\ outgoing' \in [Sides -> Messages]
  BY Zenon DEF TcpInv, TcpType, Update
<1>3. UNCHANGED <<lock, wire, buffer, closed, written, received>>
  BY Zenon DEF Update
<1>4. thread[e]["loop"].pc # "write"
  BY <1>1
<1>5. CASE GoesTo(e, "loop", "receive")
  <2>1. "receive" \in Returns \cup {"update", "lock", "write"}
    BY DEF Returns
  <2>2. ThreadsTyped' /\ Elsewhere(e, "loop") /\ thread'[e]["loop"].pc = "receive"
    BY Zenon, <1>1, <1>2, <1>5, <2>1, Went
  <2>3. thread'[e]["loop"].pc # "write" /\ thread'[e]["loop"].pc # "lock"
    BY <2>2
  <2> QED BY Zenon, <1>1, <1>2, <1>3, <1>4, <2>2, <2>3, QuietStep
<1>6. CASE Writes(e, "loop", Control(Ping), "receive")
  <2>1. "receive" \in Returns /\ Control(Ping) \in Seq(Nat) /\ IsFrame(Control(Ping))
    BY Zenon, FrameBytes DEF Returns, IsFrame
  <2>2. ThreadsTyped' /\ Elsewhere(e, "loop") /\ thread'[e]["loop"].pc = "lock"
        /\ thread'[e]["loop"].frame = Control(Ping)
    BY Zenon, <1>1, <1>2, <1>6, <2>1, Began
  <2>3. thread'[e]["loop"].pc # "write" /\ IsFrame(thread'[e]["loop"].frame)
    BY <2>1, <2>2
  <2> QED BY Zenon, <1>1, <1>2, <1>3, <1>4, <2>2, <2>3, QuietStep
<1> QED BY Zenon, <1>5, <1>6 DEF Update

\* A thread takes the next message off the queue (DrainOutbound and Send).
LEMMA DrainKeeps ==
  ASSUME TcpInv, NEW e \in Sides, NEW t \in Threads(e), Drain(e, t)
  PROVE  TcpInv'
<1>1. thread[e][t].pc # "write" /\ thread[e][t].pc # "lock"
  BY DEF Drain, At
<1>2. ThreadsTyped /\ outgoing \in [Sides -> Messages]
  BY Zenon DEF TcpInv, TcpType
<1>3. outgoing[e] \in Messages /\ outgoing[e] # <<>>
      /\ outgoing' = [outgoing EXCEPT ![e] = Tail(outgoing[e])]
  BY Zenon, <1>2 DEF Drain
<1>4. Head(outgoing[e]) \in [len : Nat, id : Nat] /\ Tail(outgoing[e]) \in Messages
  <2>1. ASSUME NEW S, NEW s \in Seq(S), s # <<>> PROVE Head(s) \in S /\ Tail(s) \in Seq(S)
    BY <2>1
  <2> QED BY Zenon, <1>3, <2>1 DEF Messages
<1>5. outgoing' \in [Sides -> Messages]
  BY Zenon, <1>2, <1>3, <1>4
<1>6. UNCHANGED <<lock, wire, buffer, closed, written, received>>
  BY Zenon DEF Drain
<1>7. CASE thread' = thread
  <2>1. ThreadsTyped' /\ Elsewhere(e, t) /\ thread'[e][t].pc = thread[e][t].pc
    BY Zenon, <1>2, <1>7 DEF ThreadsTyped, Elsewhere
  <2> QED BY Zenon, <1>1, <1>5, <1>6, <2>1, QuietStep
<1>8. CASE Fits(Head(outgoing[e])) /\ Writes(e, t, Data(Head(outgoing[e])), "drain")
  <2> DEFINE f == Data(Head(outgoing[e]))
  <2>1. "drain" \in Returns /\ f \in Seq(Nat) /\ IsFrame(f)
    BY Zenon, <1>4, <1>8, MessageFramed DEF Returns
  <2>2. Writes(e, t, f, "drain")
    BY <1>8
  <2> HIDE DEF f
  <2>3. ThreadsTyped' /\ Elsewhere(e, t) /\ thread'[e][t].pc = "lock" /\ thread'[e][t].frame = f
    BY Zenon, <1>2, <2>1, <2>2, Began
  <2>4. thread'[e][t].pc # "write" /\ IsFrame(thread'[e][t].frame)
    BY <2>1, <2>3
  <2> QED BY Zenon, <1>1, <1>5, <1>6, <2>3, <2>4, QuietStep
<1> QED BY Zenon, <1>7, <1>8 DEF Drain

\* or leaves it alone.
LEMMA DrainEndsKeeps ==
  ASSUME TcpInv, NEW e \in Sides, NEW t \in Threads(e), DrainEnds(e, t)
  PROVE  TcpInv'
<1>1. thread[e][t].pc # "write"
  BY DEF DrainEnds, At
<1>2. ThreadsTyped /\ outgoing' \in [Sides -> Messages]
  BY Zenon DEF TcpInv, TcpType, DrainEnds
<1>3. UNCHANGED <<lock, wire, buffer, closed, written, received>>
  BY Zenon DEF DrainEnds
<1>4. PICK pc \in {"update", "drain"} : GoesTo(e, t, pc)
  BY Zenon DEF DrainEnds
<1>5. pc \in Returns \cup {"update", "lock", "write"} /\ pc # "write" /\ pc # "lock"
  BY DEF Returns
<1>6. ThreadsTyped' /\ Elsewhere(e, t) /\ thread'[e][t].pc = pc
  BY Zenon, <1>2, <1>4, <1>5, Went
<1>7. thread'[e][t].pc # "write" /\ thread'[e][t].pc # "lock"
  BY <1>5, <1>6
<1> QED BY Zenon, <1>1, <1>2, <1>3, <1>6, <1>7, QuietStep
\* Three parts of a stream, however they are joined.
LEMMA JoinedThree ==
  ASSUME NEW s \in Seq(Nat), NEW t \in Seq(Nat), NEW u \in Seq(Nat)
  PROVE  (s \o t) \o u = s \o (t \o u) /\ s \o <<>> = s
<1>1. (s \o t) \o u = s \o (t \o u)
  OBVIOUS
<1>2. s \o <<>> = s
  BY ConcatEmptySeq
<1> QED BY <1>1, <1>2

\* Closing cuts both streams off where they are (Close).
LEMMA Closing ==
  ASSUME TcpInv, NEW e \in Sides, NEW why \in {"idle", "application", "eof"}, Closes(e, why),
         why = "eof" /\ closed[e] = "no" => closed[Other(e)] # "no",
         LocksInv', ThreadsTyped', lock' = lock,
         UNCHANGED <<outgoing, wire, buffer, written, received>>
  PROVE  TcpInv'
<1>1. /\ wire' = wire /\ buffer' = buffer /\ written' = written /\ received' = received
      /\ outgoing' = outgoing
  OBVIOUS
<1>2. closed \in [Sides -> Reasons] /\ TcpType /\ LocksInv /\ ClosedInv
  BY Zenon DEF TcpInv, TcpType
<1> DEFINE reason == IF closed[e] = "no" THEN why ELSE closed[e]
<1>3. reason \in Reasons /\ reason # "no" /\ closed' = [closed EXCEPT ![e] = reason]
  <2>1. reason \in Reasons /\ reason # "no"
    BY <1>2 DEF Reasons
  <2> QED BY Zenon, <2>1 DEF Closes
<1>4. closed' \in [Sides -> Reasons] /\ closed'[e] = reason /\ \A d \in Sides : d # e => closed'[d] = closed[d]
  BY Zenon, <1>2, <1>3
<1>5. TcpType'
  BY Zenon, <1>1, <1>2, <1>4 DEF TcpType
<1>6. State' = "cut"
  <2>1. e = "client" \/ e = "server"
    BY DEF Sides
  <2> QED BY Zenon, <1>3, <1>4, <2>1 DEF State
<1>7. ASSUME NEW d \in Sides PROVE DirectionInv(d)'
  <2> DEFINE u == buffer[Other(d)] \o wire[d]
  <2>1. /\ wire[d] \in Seq(Nat) /\ buffer[Other(d)] \in Seq(Nat) /\ Unwritten(d) \in Seq(Nat)
    BY Zenon, <1>2, StreamBytes
  <2>2. u \in Seq(Nat) /\ wire[d] \o <<>> = wire[d]
    BY Zenon, <2>1, Joined, JoinedThree
  <2>3. Stream(d) = u \o Unwritten(d)
    BY Zenon, <2>1, JoinedThree DEF Stream, OnTheWay
  <2>4. Stream(d)' = u
    <3>1. Unwritten(d)' = <<>>
      BY <1>6 DEF Unwritten
    <3> QED BY Zenon, <1>1, <2>2, <3>1 DEF Stream, OnTheWay
  <2>5. DirectionInv(d)
    BY Zenon DEF TcpInv
  <2> HIDE DEF u
  <2>6. Framed(u, written[d], Len(received[Other(d)]), "cut")
    <3>1. Framed(u \o Unwritten(d), written[d], Len(received[Other(d)]), State)
      BY Zenon, <2>3, <2>5 DEF DirectionInv
    <3> QED BY Zenon, <2>1, <2>2, <3>1, CutOff
  <2> QED BY Zenon, <1>1, <1>6, <2>4, <2>5, <2>6 DEF DirectionInv
<1>8. ASSUME NEW d \in Sides PROVE closed'[d] # "oversized" /\ (closed'[d] = "eof" => closed'[Other(d)] # "no")
  <2>1. Other(d) \in Sides /\ Other(d) # d /\ (d # e => Other(d) = e)
    BY OtherSide DEF Sides
  <2>2. CASE d # e
    BY Zenon, <1>2, <1>3, <1>4, <2>1, <2>2 DEF ClosedInv
  <2>3. CASE d = e
    <3>1. closed'[Other(d)] = closed[Other(d)]
      BY Zenon, <1>4, <2>1, <2>3
    <3>2. CASE closed[e] = "no"
      <4>1. closed'[d] = why
        BY Zenon, <1>4, <2>3, <3>2
      <4>2. why # "oversized"
        OBVIOUS
      <4> QED BY Zenon, <2>3, <3>1, <3>2, <4>1, <4>2
    <3>3. CASE closed[e] # "no"
      BY Zenon, <1>2, <1>4, <2>3, <3>1, <3>3 DEF ClosedInv
    <3> QED BY <3>2, <3>3
  <2> QED BY <2>2, <2>3
<1>9. ClosedInv'
  BY Zenon, <1>8 DEF ClosedInv
<1> QED BY Zenon, <1>5, <1>7, <1>9 DEF TcpInv

\* An idle session, the application's Close(), and the end of the stream.
LEMMA IdleTimeoutKeeps ==
  ASSUME TcpInv, NEW e \in Sides, IdleTimeout(e)
  PROVE  TcpInv'
<1>1. "loop" \in Threads(e) /\ thread[e]["loop"].pc # "write" /\ "receive" \in Returns \cup {"update", "lock", "write"}
  BY DEF IdleTimeout, At, Threads, Returns
<1>2. ThreadsTyped /\ LocksInv
  BY Zenon DEF TcpInv, TcpType
<1>3. ThreadsTyped' /\ Elsewhere(e, "loop") /\ thread'[e]["loop"].pc = "receive"
  BY Zenon, <1>1, <1>2, Went DEF IdleTimeout
<1>4. thread'[e]["loop"].pc # "write" /\ thread'[e]["loop"].pc # "lock"
  BY <1>3
<1>5. lock' = lock /\ UNCHANGED <<outgoing, wire, buffer, written, received>> /\ Closes(e, "idle")
  BY Zenon DEF IdleTimeout
<1>6. LocksInv'
  BY Zenon, <1>1, <1>2, <1>3, <1>4, <1>5, QuietLocks
<1>7. "idle" \in {"idle", "application", "eof"} /\ "idle" # "eof"
  OBVIOUS
<1> QED BY Zenon, <1>3, <1>5, <1>6, <1>7, Closing

\* Close() by the application closes its own end and moves no bytes.
LEMMA CloseSessionKeeps ==
  ASSUME TcpInv, NEW e \in Sides, CloseSession(e)
  PROVE  TcpInv'
<1>1. ThreadsTyped /\ LocksInv
  BY Zenon DEF TcpInv, TcpType
<1>2. /\ thread' = thread /\ lock' = lock /\ UNCHANGED <<outgoing, wire, buffer, written, received>>
      /\ Closes(e, "application")
  BY Zenon DEF CloseSession
<1>3. ThreadsTyped' /\ LocksInv'
  <2>1. ThreadsTyped'
    BY Zenon, <1>1, <1>2 DEF ThreadsTyped
  <2>2. LocksInv'
    BY <1>1, <1>2 DEF LocksInv
  <2> QED BY <2>1, <2>2
<1>4. "application" \in {"idle", "application", "eof"} /\ "application" # "eof"
  OBVIOUS
<1> QED BY Zenon, <1>2, <1>3, <1>4, Closing

\* recv() returns 0 only when the other side, or this one, has closed: a buffer without a
\* whole frame is never full ("there is always room to make progress").
LEMMA RecvZeroKeeps ==
  ASSUME TcpInv, NEW e \in Sides, RecvZero(e)
  PROVE  TcpInv'
<1>1. "loop" \in Threads(e) /\ thread[e]["loop"].pc # "write" /\ "drain" \in Returns \cup {"update", "lock", "write"}
  BY DEF RecvZero, At, Threads, Returns
<1>2. ThreadsTyped /\ LocksInv /\ TcpType
  BY Zenon DEF TcpInv, TcpType
<1>3. ThreadsTyped' /\ Elsewhere(e, "loop") /\ thread'[e]["loop"].pc = "drain"
  BY Zenon, <1>1, <1>2, Went DEF RecvZero
<1>4. thread'[e]["loop"].pc # "write" /\ thread'[e]["loop"].pc # "lock"
  BY <1>3
<1>5. lock' = lock /\ UNCHANGED <<outgoing, wire, buffer, written, received>> /\ Closes(e, "eof")
  BY Zenon DEF RecvZero
<1>6. LocksInv'
  BY Zenon, <1>1, <1>2, <1>3, <1>4, <1>5, QuietLocks
<1>7. FrameAhead(buffer[e]) = "more" => Len(buffer[e]) < RecvCapacity
  <2> DEFINE d == Other(e)
  <2>1. d \in Sides /\ Other(d) = e
    BY Zenon, OtherSide
  <2> HIDE DEF d
  <2>2. buffer[e] \in Seq(Nat) /\ OnTheWay(d) \in Seq(Nat) /\ written[d] \in Seq(Bodies)
    BY Zenon, <1>2, <2>1, StreamBytes DEF TcpType
  <2>3. Framed(buffer[e] \o OnTheWay(d), written[d], Len(received[e]), State)
    BY Zenon, <2>1 DEF TcpInv, DirectionInv, Stream
  <2> QED BY Zenon, <2>2, <2>3, FrontFrame
<1>8. closed[e] # "no" \/ closed[Other(e)] # "no"
  <2>1. Len(buffer[e]) # RecvCapacity
    <3>1. Len(buffer[e]) < RecvCapacity
      BY Zenon, <1>7 DEF RecvZero
    <3>2. buffer[e] \in Seq(Nat)
      BY Zenon, <1>2 DEF TcpType
    <3>3. Len(buffer[e]) \in Nat /\ RecvCapacity \in Nat
      BY <3>2, TcpAssumption
    <3> QED BY <3>1, <3>3
  <2> QED BY Zenon, <2>1 DEF RecvZero, EndOfStream
<1>9. "eof" \in {"idle", "application", "eof"}
  OBVIOUS
<1> QED BY Zenon, <1>3, <1>5, <1>6, <1>8, <1>9, Closing

\* Part of a frame is left where it is; no length is ever taken for one that cannot be
\* completed.
LEMMA NoFrameKeeps ==
  ASSUME TcpInv, NEW e \in Sides, NoFrame(e)
  PROVE  TcpInv'
<1>1. "loop" \in Threads(e) /\ "drain" \in Returns \cup {"update", "lock", "write"}
  BY DEF Threads, Returns
<1>2. ThreadsTyped /\ TcpType /\ LocksInv
  BY Zenon DEF TcpInv, TcpType
<1>3. thread[e]["loop"].pc # "write"
  <2>1. thread[e].loop.pc \in {"receive", "reread"}
    BY Zenon DEF NoFrame
  <2> QED BY <2>1
<1>4. FrameAhead(buffer[e]) # "oversized"
  <2> DEFINE d == Other(e)
  <2>1. d \in Sides /\ Other(d) = e
    BY Zenon, OtherSide
  <2> HIDE DEF d
  <2>2. buffer[e] \in Seq(Nat) /\ OnTheWay(d) \in Seq(Nat) /\ written[d] \in Seq(Bodies)
    BY Zenon, <1>2, <2>1, StreamBytes DEF TcpType
  <2>3. Framed(buffer[e] \o OnTheWay(d), written[d], Len(received[e]), State)
    BY Zenon, <2>1 DEF TcpInv, DirectionInv, Stream
  <2> QED BY Zenon, <2>2, <2>3, FrontFrame
<1>5. buffer' = buffer /\ closed' = closed
  BY Zenon, <1>4 DEF NoFrame
<1>6. lock' = lock /\ wire' = wire /\ written' = written /\ received' = received /\ outgoing' = outgoing
      /\ GoesTo(e, "loop", "drain")
  BY Zenon DEF NoFrame
<1>7. ThreadsTyped' /\ Elsewhere(e, "loop") /\ thread'[e]["loop"].pc = "drain"
  BY Zenon, <1>1, <1>2, <1>6, Went
<1>8. thread'[e]["loop"].pc # "write" /\ thread'[e]["loop"].pc # "lock"
  BY <1>7
<1>9. outgoing' \in [Sides -> Messages]
  BY Zenon, <1>2, <1>6 DEF TcpType
<1>10. UNCHANGED <<lock, wire, buffer, closed, written, received>>
  BY <1>5, <1>6
<1> QED BY Zenon, <1>1, <1>3, <1>7, <1>8, <1>9, <1>10, QuietStep

Regroups(s, t, u, v) == (s \o t) \o (u \o v) = s \o ((t \o u) \o v)

\* Four parts, of which the middle two are one.
LEMMA JoinedFour ==
  ASSUME NEW s \in Seq(Nat), NEW t \in Seq(Nat), NEW u \in Seq(Nat), NEW v \in Seq(Nat)
  PROVE  Regroups(s, t, u, v)
<1> DEFINE uv == u \o v
<1>1. uv \in Seq(Nat)
  OBVIOUS
<1>2. (t \o u) \o v = t \o uv
  BY SMTT(30)
<1> HIDE DEF uv
<1>3. (s \o t) \o uv = s \o (t \o uv)
  BY SMTT(30), <1>1
<1> QED BY Zenon, <1>2, <1>3 DEF Regroups, uv

\* No thread is nobody.
LEMMA ThreadsAreSome ==
  \A e \in Sides : Nobody \notin Threads(e) /\ "loop" \in Threads(e)
BY DEF Threads, Nobody

\* A step of the loop that moves bytes of the other side's stream towards what is handed up
\* (Receive) keeps the invariant when what is left of that stream does.
LEMMA Reading ==
  ASSUME TcpInv, NEW e \in Sides, Elsewhere(e, "loop"), ThreadsTyped',
         lock' = lock, closed' = closed, written' = written, outgoing' = outgoing,
         thread[e]["loop"].pc # "write", thread'[e]["loop"].pc # "write",
         thread'[e]["loop"].pc = "lock" => IsFrame(thread'[e]["loop"].frame),
         NEW b \in Seq(Nat), buffer' = [buffer EXCEPT ![e] = b],
         NEW s \in Seq(Nat), wire' = [wire EXCEPT ![Other(e)] = s],
         NEW got \in Seq(Bodies), received' = [received EXCEPT ![e] = got],
         Framed(b \o (s \o Unwritten(Other(e))), written[Other(e)], Len(got), State),
         Len(got) <= Len(written[Other(e)]), \A i \in 1..Len(got) : got[i] = written[Other(e)][i]
  PROVE  TcpInv'
<1>1. Other(e) \in Sides /\ Other(e) # e /\ Other(Other(e)) = e /\ \A c \in Sides : c = e \/ c = Other(e)
  BY OtherSide DEF Sides
<1>2. TcpType /\ LocksInv /\ ClosedInv /\ \A c \in Sides : DirectionInv(c)
  BY Zenon DEF TcpInv
<1>3. /\ buffer \in [Sides -> Seq(Nat)] /\ wire \in [Sides -> Seq(Nat)] /\ received \in [Sides -> Seq(Bodies)]
  BY Zenon, <1>2 DEF TcpType
<1>4. /\ buffer' \in [Sides -> Seq(Nat)] /\ buffer'[e] = b /\ buffer'[Other(e)] = buffer[Other(e)]
      /\ wire' \in [Sides -> Seq(Nat)] /\ wire'[Other(e)] = s /\ wire'[e] = wire[e]
      /\ received' \in [Sides -> Seq(Bodies)] /\ received'[e] = got /\ received'[Other(e)] = received[Other(e)]
  BY Zenon, <1>1, <1>3
<1>5. LocksInv' /\ \A c \in Sides : Holding(c)' = Holding(c)
  BY Zenon, <1>2, QuietLocks, ThreadsAreSome
<1>6. State' = State
  BY Zenon DEF State
<1>7. Unwritten(e)' = Unwritten(e) /\ Unwritten(Other(e))' = Unwritten(Other(e))
  BY Zenon, <1>1, <1>5, <1>6 DEF Unwritten
<1>8. TcpType'
  BY Zenon, <1>2, <1>4 DEF TcpType
<1>9. ClosedInv'
  BY Zenon, <1>2 DEF ClosedInv
<1>10. DirectionInv(e)'
  <2>1. Stream(e)' = Stream(e)
    BY Zenon, <1>4, <1>7 DEF Stream, OnTheWay
  <2> QED BY Zenon, <1>2, <1>4, <1>6, <2>1, DirectionKept
<1>11. DirectionInv(Other(e))'
  <2>1. Stream(Other(e))' = b \o (s \o Unwritten(Other(e)))
    BY Zenon, <1>1, <1>4, <1>7 DEF Stream, OnTheWay
  <2> QED BY Zenon, <1>1, <1>4, <1>6, <2>1 DEF DirectionInv
<1>12. \A c \in Sides : DirectionInv(c)'
  BY Zenon, <1>1, <1>10, <1>11
<1> QED BY Zenon, <1>5, <1>8, <1>9, <1>12 DEF TcpInv

\* What is left of the stream a side reads.
LEMMA BeingRead ==
  ASSUME TcpInv, NEW e \in Sides
  PROVE  /\ Other(e) \in Sides /\ buffer[e] \in Seq(Nat) /\ wire[Other(e)] \in Seq(Nat)
         /\ Unwritten(Other(e)) \in Seq(Nat) /\ OnTheWay(Other(e)) \in Seq(Nat)
         /\ written[Other(e)] \in Seq(Bodies) /\ received[e] \in Seq(Bodies)
         /\ Framed(buffer[e] \o OnTheWay(Other(e)), written[Other(e)], Len(received[e]), State)
         /\ Len(received[e]) <= Len(written[Other(e)])
         /\ \A i \in 1..Len(received[e]) : received[e][i] = written[Other(e)][i]
         /\ buffer = [buffer EXCEPT ![e] = buffer[e]]
         /\ wire = [wire EXCEPT ![Other(e)] = wire[Other(e)]]
         /\ received = [received EXCEPT ![e] = received[e]]
<1> DEFINE d == Other(e)
<1>1. d \in Sides /\ Other(d) = e
  BY Zenon, OtherSide
<1> HIDE DEF d
<1>2. TcpType /\ LocksInv /\ DirectionInv(d)
  BY Zenon, <1>1 DEF TcpInv
<1>3. /\ buffer[e] \in Seq(Nat) /\ wire[d] \in Seq(Nat) /\ Unwritten(d) \in Seq(Nat)
      /\ OnTheWay(d) \in Seq(Nat) /\ written[d] \in Seq(Bodies) /\ received[e] \in Seq(Bodies)
  BY Zenon, <1>1, <1>2, StreamBytes DEF TcpType
<1>4. /\ Framed(buffer[e] \o OnTheWay(d), written[d], Len(received[e]), State)
      /\ Len(received[e]) <= Len(written[d])
      /\ \A i \in 1..Len(received[e]) : received[e][i] = written[d][i]
  BY Zenon, <1>1, <1>2 DEF DirectionInv, Stream
<1>5. /\ buffer = [buffer EXCEPT ![e] = buffer[e]] /\ wire = [wire EXCEPT ![d] = wire[d]]
      /\ received = [received EXCEPT ![e] = received[e]]
  BY Zenon, <1>2 DEF TcpType
<1> QED BY Zenon, <1>1, <1>3, <1>4, <1>5 DEF d

\* recv() moves bytes from the front of what is on the way to the end of the buffer.
LEMMA RecvKeeps ==
  ASSUME TcpInv, NEW e \in Sides, Recv(e)
  PROVE  TcpInv'
<1>1. "loop" \in Threads(e) /\ "reread" \in Returns \cup {"update", "lock", "write"}
      /\ thread[e]["loop"].pc # "write"
  BY ThreadsAreSome DEF Returns, Recv, At
<1> DEFINE d == Other(e)
<1>2. /\ buffer[e] \in Seq(Nat) /\ wire[d] \in Seq(Nat) /\ Unwritten(d) \in Seq(Nat)
      /\ written[d] \in Seq(Bodies) /\ received[e] \in Seq(Bodies)
      /\ Framed(buffer[e] \o OnTheWay(d), written[d], Len(received[e]), State)
      /\ Len(received[e]) <= Len(written[d])
      /\ \A i \in 1..Len(received[e]) : received[e][i] = written[d][i]
      /\ received = [received EXCEPT ![e] = received[e]]
  BY Zenon, BeingRead
<1>3. PICK n \in 1..Len(wire[d]) :
        /\ buffer' = [buffer EXCEPT ![e] = buffer[e] \o SubSeq(wire[d], 1, n)]
        /\ wire' = [wire EXCEPT ![d] = SubSeq(wire[d], n + 1, Len(wire[d]))]
  BY Zenon DEF Recv
<1>4. /\ lock' = lock /\ closed' = closed /\ written' = written /\ outgoing' = outgoing /\ received' = received
      /\ GoesTo(e, "loop", "reread")
  BY Zenon DEF Recv
<1>5. ThreadsTyped' /\ Elsewhere(e, "loop") /\ thread'[e]["loop"].pc = "reread"
  <2>1. ThreadsTyped
    BY Zenon DEF TcpInv, TcpType
  <2> QED BY Zenon, <1>1, <1>4, <2>1, Went
<1>6. thread'[e]["loop"].pc # "write" /\ thread'[e]["loop"].pc # "lock"
  BY <1>5
<1> DEFINE front == SubSeq(wire[d], 1, n)
           rest == SubSeq(wire[d], n + 1, Len(wire[d]))
<1>7. buffer[e] \in Seq(Nat) /\ wire[d] \in Seq(Nat) /\ Unwritten(d) \in Seq(Nat)
  BY Zenon, <1>2
<1>8. front \in Seq(Nat) /\ rest \in Seq(Nat) /\ n \in 0..Len(wire[d])
  <2>1. ASSUME NEW u \in Seq(Nat), NEW k \in 1..Len(u)
        PROVE  SubSeq(u, 1, k) \in Seq(Nat) /\ SubSeq(u, k + 1, Len(u)) \in Seq(Nat) /\ k \in 0..Len(u)
    BY ONLY <2>1
  <2> QED BY Zenon, <1>7, <2>1
<1>9. front \o rest = wire[d]
  BY Zenon, <1>7, <1>8, CutAndJoined
<1> HIDE DEF d, front, rest
<1>10. buffer[e] \o front \in Seq(Nat) /\ rest \o Unwritten(d) \in Seq(Nat)
  BY Zenon, <1>7, <1>8, Joined
<1>11. (buffer[e] \o front) \o (rest \o Unwritten(d)) = buffer[e] \o OnTheWay(d)
  <2>1. Regroups(buffer[e], front, rest, Unwritten(d))
    BY Zenon, <1>7, <1>8, JoinedFour
  <2> QED BY Zenon, <1>9, <2>1 DEF OnTheWay, Regroups
<1>12. Framed((buffer[e] \o front) \o (rest \o Unwritten(d)), written[d], Len(received[e]), State)
  BY Zenon, <1>2, <1>11
<1>13. buffer' = [buffer EXCEPT ![e] = buffer[e] \o front] /\ wire' = [wire EXCEPT ![d] = rest]
       /\ received' = [received EXCEPT ![e] = received[e]]
  BY Zenon, <1>2, <1>3, <1>4 DEF front, rest
<1> QED BY Zenon, <1>1, <1>2, <1>4, <1>5, <1>6, <1>8, <1>10, <1>12, <1>13, Reading DEF d

\* A data frame at the front of the buffer is handed up, and is the next body the other side
\* wrote (ReadBuffer).
LEMMA DispatchKeeps ==
  ASSUME TcpInv, NEW e \in Sides, Dispatch(e)
  PROVE  TcpInv'
<1>1. "loop" \in Threads(e) /\ "receive" \in Returns \cup {"update", "lock", "write"}
  BY ThreadsAreSome DEF Returns
<1>2. thread[e]["loop"].pc # "write"
  <2>1. thread[e].loop.pc \in {"receive", "reread"}
    BY Zenon DEF Dispatch
  <2> QED BY <2>1
<1> DEFINE d == Other(e)
           r == Len(received[e])
           body == BodyOf(buffer[e])
           rest == After(buffer[e])
           got == Append(received[e], body)
<1>3. /\ buffer[e] \in Seq(Nat) /\ wire[d] \in Seq(Nat) /\ OnTheWay(d) \in Seq(Nat)
      /\ written[d] \in Seq(Bodies) /\ received[e] \in Seq(Bodies)
  BY Zenon, BeingRead
<1>4. /\ Framed(buffer[e] \o OnTheWay(d), written[d], r, State)
      /\ r <= Len(written[d])
      /\ \A i \in 1..r : received[e][i] = written[d][i]
      /\ wire = [wire EXCEPT ![d] = wire[d]]
  BY Zenon, BeingRead
<1>5. /\ FrameAhead(buffer[e]) = "data"
      /\ received' = [received EXCEPT ![e] = got] /\ buffer' = [buffer EXCEPT ![e] = rest]
      /\ lock' = lock /\ closed' = closed /\ written' = written /\ outgoing' = outgoing /\ wire' = wire
      /\ GoesTo(e, "loop", "receive")
  BY Zenon DEF Dispatch
<1>6. ThreadsTyped' /\ Elsewhere(e, "loop") /\ thread'[e]["loop"].pc = "receive"
  <2>1. ThreadsTyped
    BY Zenon DEF TcpInv, TcpType
  <2> QED BY Zenon, <1>1, <1>5, <2>1, Went
<1>7. thread'[e]["loop"].pc # "write" /\ thread'[e]["loop"].pc # "lock"
  BY <1>6
<1> HIDE DEF d
<1>8. /\ r \in Nat /\ r + 1 \in 1..Len(written[d]) /\ body = written[d][r + 1] /\ rest \in Seq(Nat)
      /\ Framed(rest \o OnTheWay(d), written[d], r + 1, State)
  <2>1. /\ Framed(buffer[e] \o OnTheWay(d), written[d], r, State) /\ FrameAhead(buffer[e]) = "data"
        /\ buffer[e] \in Seq(Nat) /\ OnTheWay(d) \in Seq(Nat) /\ written[d] \in Seq(Bodies)
    BY Zenon, <1>3, <1>4, <1>5
  <2> HIDE DEF r
  <2> QED BY ZenonT(60), <2>1, FrontFrame
<1> HIDE DEF body, rest
<1>9. body \in Bodies
  <2>1. ASSUME NEW w \in Seq(Bodies), NEW i \in 1..Len(w) PROVE w[i] \in Bodies
    BY ONLY <2>1
  <2> QED BY Zenon, <1>3, <1>8, <2>1
<1>10. /\ got \in Seq(Bodies) /\ Len(got) = r + 1
       /\ \A i \in 1..r : got[i] = received[e][i]
       /\ got[r + 1] = body
  <2>1. ASSUME NEW S, NEW w \in Seq(S), NEW x \in S
        PROVE  /\ Append(w, x) \in Seq(S) /\ Len(Append(w, x)) = Len(w) + 1
               /\ \A i \in 1..Len(w) : Append(w, x)[i] = w[i]
               /\ Append(w, x)[Len(w) + 1] = x
    BY ONLY <2>1
  <2> QED BY ZenonT(60), <1>3, <1>9, <2>1
<1> HIDE DEF r, got
<1>11. /\ Len(got) <= Len(written[d])
  <2>1. Len(written[d]) \in Nat
    BY Zenon, <1>3, LenProperties
  <2> QED BY ONLY <1>8, <1>10, <2>1
<1>12. ASSUME NEW i \in 1..Len(got) PROVE got[i] = written[d][i]
  <2>1. i \in 1..r \/ i = r + 1
    BY ONLY <1>8, <1>10, i \in 1..Len(got)
  <2> QED BY Zenon, <1>4, <1>8, <1>10, <2>1
<1>13. Framed(rest \o (wire[d] \o Unwritten(d)), written[d], Len(got), State)
  BY Zenon, <1>8, <1>10 DEF OnTheWay
<1>14. wire' = [wire EXCEPT ![d] = wire[d]]
  BY Zenon, <1>4, <1>5
<1> QED
  BY Zenon, <1>2, <1>3, <1>5, <1>6, <1>7, <1>8, <1>10, <1>11, <1>12, <1>13, <1>14, Reading DEF d

\* A control frame is taken off the front, and a ping answered (HandleControlFrame).
LEMMA HandleControlKeeps ==
  ASSUME TcpInv, NEW e \in Sides, HandleControl(e)
  PROVE  TcpInv'
<1>1. "loop" \in Threads(e)
  BY Zenon, ThreadsAreSome
<1>2. thread[e]["loop"].pc \in Returns /\ thread[e]["loop"].pc # "write" /\ thread[e]["loop"].pc # "lock"
  <2>1. thread[e].loop.pc \in {"receive", "reread"}
    BY Zenon DEF HandleControl
  <2> QED BY <2>1 DEF Returns
<1> DEFINE d == Other(e)
           r == Len(received[e])
           rest == After(buffer[e])
<1>3. /\ buffer[e] \in Seq(Nat) /\ wire[d] \in Seq(Nat) /\ OnTheWay(d) \in Seq(Nat)
      /\ written[d] \in Seq(Bodies) /\ received[e] \in Seq(Bodies)
  BY Zenon, BeingRead
<1>4. /\ Framed(buffer[e] \o OnTheWay(d), written[d], r, State)
      /\ r <= Len(written[d])
      /\ \A i \in 1..r : received[e][i] = written[d][i]
      /\ wire = [wire EXCEPT ![d] = wire[d]] /\ received = [received EXCEPT ![e] = received[e]]
  BY Zenon, BeingRead
<1>5. /\ FrameAhead(buffer[e]) = "control" /\ buffer' = [buffer EXCEPT ![e] = rest]
      /\ lock' = lock /\ closed' = closed /\ written' = written /\ outgoing' = outgoing
      /\ wire' = wire /\ received' = received
      /\ thread' = thread \/ Writes(e, "loop", Control(Pong), thread[e]["loop"].pc)
  BY Zenon DEF HandleControl
<1>6. ThreadsTyped
  BY Zenon DEF TcpInv, TcpType
<1>7. /\ ThreadsTyped' /\ Elsewhere(e, "loop") /\ thread'[e]["loop"].pc # "write"
      /\ thread'[e]["loop"].pc = "lock" => IsFrame(thread'[e]["loop"].frame)
  <2>1. CASE thread' = thread
    BY Zenon, <1>2, <1>6, <2>1 DEF ThreadsTyped, Elsewhere
  <2>2. CASE Writes(e, "loop", Control(Pong), thread[e]["loop"].pc)
    <3>1. Control(Pong) \in Seq(Nat) /\ IsFrame(Control(Pong))
      BY Zenon, FrameBytes DEF IsFrame
    <3>2. PICK f \in Seq(Nat) : f = Control(Pong)
      BY Zenon, <3>1
    <3>3. PICK then \in Returns : Writes(e, "loop", f, then)
      BY Zenon, <1>2, <2>2, <3>2
    <3>4. ThreadsTyped' /\ Elsewhere(e, "loop") /\ thread'[e]["loop"].pc = "lock"
          /\ thread'[e]["loop"].frame = f
      BY Zenon, <1>1, <1>6, <3>3, Began
    <3>5. thread'[e]["loop"].pc # "write"
      BY <3>4
    <3> QED BY Zenon, <3>1, <3>2, <3>4, <3>5
  <2> QED BY Zenon, <1>5, <2>1, <2>2
<1> HIDE DEF d
<1>8. rest \in Seq(Nat) /\ Framed(rest \o OnTheWay(d), written[d], r, State)
  BY Zenon, <1>3, <1>4, <1>5, FrontFrame
<1> HIDE DEF rest
<1>9. Framed(rest \o (wire[d] \o Unwritten(d)), written[d], r, State)
  BY Zenon, <1>8 DEF OnTheWay
<1>10. wire' = [wire EXCEPT ![d] = wire[d]] /\ received' = [received EXCEPT ![e] = received[e]]
  BY Zenon, <1>4, <1>5
<1> QED BY Zenon, <1>2, <1>3, <1>4, <1>5, <1>7, <1>8, <1>9, <1>10, Reading DEF d

\* A thread takes write_mutex_, keeps it or gives it back,
Turn(e, t, holder) ==
  /\ holder \in {Nobody, t} /\ lock[e] \in {Nobody, t}
  /\ DOMAIN lock' = Sides /\ lock'[e] = holder /\ lock'[Other(e)] = lock[Other(e)]
  /\ thread'[e][t].pc = "write" <=> holder = t
  /\ thread'[e][t].pc # "lock"

\* and left is what it still has to write, if it is written at all;
Left(e, t, holder, left) ==
  /\ State = "whole" => left = IF holder = t THEN thread'[e][t].frame ELSE <<>>
  /\ State # "whole" => left = <<>>

\* with s on the way and left to write, the stream is that of w.
Goes(e, s, left, w) ==
  /\ s \in Seq(Nat) /\ wire' = [wire EXCEPT ![e] = s]
  /\ w \in Seq(Bodies) /\ written' = [written EXCEPT ![e] = w]
  /\ Framed(buffer[Other(e)] \o (s \o left), w, Len(received[Other(e)]), State)
  /\ Len(received[Other(e)]) <= Len(w)
  /\ \A i \in 1..Len(received[Other(e)]) : received[Other(e)][i] = w[i]

\* A step of the thread that takes, uses or gives back write_mutex_ keeps the invariant when
\* what is left of its stream does (WriteAll).
LEMMA Writing ==
  ASSUME TcpInv, NEW e \in Sides, NEW t \in Threads(e), Elsewhere(e, t), ThreadsTyped',
         outgoing' = outgoing, buffer' = buffer, closed' = closed, received' = received,
         NEW holder, Turn(e, t, holder), NEW left, Left(e, t, holder, left),
         NEW s, NEW w, Goes(e, s, left, w)
  PROVE  TcpInv'
<1>1. Other(e) \in Sides /\ Other(e) # e /\ Other(Other(e)) = e /\ \A c \in Sides : c = e \/ c = Other(e)
  BY OtherSide DEF Sides
<1>2. TcpType /\ LocksInv /\ ClosedInv /\ \A c \in Sides : DirectionInv(c)
  BY Zenon DEF TcpInv
<1>3. wire \in [Sides -> Seq(Nat)] /\ written \in [Sides -> Seq(Bodies)]
  BY Zenon, <1>2 DEF TcpType
<1>4. /\ wire' \in [Sides -> Seq(Nat)] /\ wire'[e] = s /\ wire'[Other(e)] = wire[Other(e)]
      /\ written' \in [Sides -> Seq(Bodies)] /\ written'[e] = w /\ written'[Other(e)] = written[Other(e)]
  BY Zenon, <1>1, <1>3 DEF Goes
<1>5. /\ DOMAIN lock' = Sides /\ lock'[e] = holder /\ lock'[Other(e)] = lock[Other(e)]
      /\ holder \in {Nobody, t} /\ lock[e] \in {Nobody, t}
      /\ thread'[e][t].pc = "write" <=> holder = t
      /\ thread'[e][t].pc # "lock"
  BY Zenon DEF Turn
<1>6. t # Nobody
  BY Zenon, ThreadsAreSome
<1>7. State' = State
  BY Zenon DEF State
<1>8. TcpType'
  BY Zenon, <1>2, <1>4, <1>5 DEF TcpType
<1>9. ClosedInv'
  BY Zenon, <1>2 DEF ClosedInv
<1>10. LocksInv'
  <2>1. ASSUME NEW u \in Threads(e)
        PROVE  /\ thread'[e][u].pc = "write" <=> lock'[e] = u
               /\ thread'[e][u].pc = "lock" => IsFrame(thread'[e][u].frame)
    <3>1. CASE u = t
      BY Zenon, <1>5, <3>1
    <3>2. CASE u # t
      <4>1. u # Nobody /\ thread'[e][u] = thread[e][u]
        BY Zenon, <3>2, ThreadsAreSome DEF Elsewhere
      <4>2. /\ thread[e][u].pc = "write" <=> lock[e] = u
            /\ thread[e][u].pc = "lock" => IsFrame(thread[e][u].frame)
        BY Zenon, <1>2 DEF LocksInv
      <4>3. lock[e] # u /\ lock'[e] # u
        BY Zenon, <1>5, <3>2, <4>1
      <4> QED BY Zenon, <4>1, <4>2, <4>3
    <3> QED BY <3>1, <3>2
  <2>2. ASSUME NEW c \in Sides, c # e, NEW u \in Threads(c)
        PROVE  /\ thread'[c][u].pc = "write" <=> lock'[c] = u
               /\ thread'[c][u].pc = "lock" => IsFrame(thread'[c][u].frame)
    <3>1. thread'[c][u] = thread[c][u] /\ lock'[c] = lock[c]
      BY Zenon, <1>1, <1>5, <2>2 DEF Elsewhere
    <3>2. /\ thread[c][u].pc = "write" <=> lock[c] = u
          /\ thread[c][u].pc = "lock" => IsFrame(thread[c][u].frame)
      BY Zenon, <1>2 DEF LocksInv
    <3> QED BY Zenon, <3>1, <3>2
  <2>3. lock'[e] \in Threads(e) \cup {Nobody}
    BY Zenon, <1>5
  <2>4. lock'[Other(e)] \in Threads(Other(e)) \cup {Nobody}
    BY Zenon, <1>1, <1>2, <1>5 DEF LocksInv
  <2>5. ASSUME NEW c \in Sides
        PROVE  /\ lock'[c] \in Threads(c) \cup {Nobody}
               /\ \A u \in Threads(c) : /\ thread'[c][u].pc = "write" <=> lock'[c] = u
                                        /\ thread'[c][u].pc = "lock" => IsFrame(thread'[c][u].frame)
    <3>1. CASE c = e
      BY Zenon, <2>1, <2>3, <3>1
    <3>2. CASE c = Other(e)
      BY Zenon, <1>1, <2>2, <2>4, <3>2
    <3> QED BY Zenon, <1>1, <3>1, <3>2
  <2> QED BY Zenon, <2>5 DEF LocksInv
<1>11. DirectionInv(e)'
  <2>1. Unwritten(e)' = left
    BY Zenon, <1>5, <1>6, <1>7 DEF Unwritten, Holding, Left
  <2>2. Stream(e)' = buffer[Other(e)] \o (s \o left)
    BY Zenon, <1>4, <2>1 DEF Stream, OnTheWay
  <2> QED BY Zenon, <1>4, <1>7, <2>2 DEF DirectionInv, Goes
<1>12. DirectionInv(Other(e))'
  <2> DEFINE d == Other(e)
  <2>1. Holding(d)' = Holding(d)
    <3>1. CASE lock[d] = Nobody
      BY Zenon, <1>5, <3>1 DEF Holding
    <3>2. CASE lock[d] # Nobody
      <4>1. lock[d] \in Threads(d)
        BY Zenon, <1>1, <1>2, <3>2 DEF LocksInv
      <4>2. thread'[d][lock[d]] = thread[d][lock[d]]
        BY Zenon, <1>1, <4>1 DEF Elsewhere
      <4> QED BY <1>5, <3>2, <4>2 DEF Holding
    <3> QED BY <3>1, <3>2
  <2>2. Stream(d)' = Stream(d)
    BY Zenon, <1>4, <1>7, <2>1 DEF Stream, OnTheWay, Unwritten
  <2> QED BY Zenon, <1>1, <1>2, <1>4, <1>7, <2>2, DirectionKept
<1>13. \A c \in Sides : DirectionInv(c)'
  BY Zenon, <1>1, <1>11, <1>12
<1> QED BY Zenon, <1>8, <1>9, <1>10, <1>13 DEF TcpInv

\* What is left of the stream a side writes.
LEMMA BeingWritten ==
  ASSUME TcpInv, NEW e \in Sides
  PROVE  /\ buffer[Other(e)] \in Seq(Nat) /\ wire[e] \in Seq(Nat) /\ written[e] \in Seq(Bodies)
         /\ Framed(buffer[Other(e)] \o (wire[e] \o Unwritten(e)), written[e], Len(received[Other(e)]), State)
         /\ Len(received[Other(e)]) \in Nat /\ Len(received[Other(e)]) <= Len(written[e])
         /\ \A i \in 1..Len(received[Other(e)]) : received[Other(e)][i] = written[e][i]
         /\ wire = [wire EXCEPT ![e] = wire[e]] /\ written = [written EXCEPT ![e] = written[e]]
         /\ DOMAIN lock = Sides /\ Other(e) \in Sides /\ Other(e) # e
<1>1. TcpType /\ LocksInv /\ DirectionInv(e) /\ Other(e) \in Sides
  BY Zenon, OtherSide DEF TcpInv
<1>2. buffer[Other(e)] \in Seq(Nat) /\ wire[e] \in Seq(Nat) /\ written[e] \in Seq(Bodies)
      /\ received[Other(e)] \in Seq(Bodies)
  BY Zenon, <1>1 DEF TcpType
<1>3. Len(received[Other(e)]) \in Nat
  BY Zenon, <1>2, LenProperties
<1>4. wire = [wire EXCEPT ![e] = wire[e]] /\ written = [written EXCEPT ![e] = written[e]]
      /\ DOMAIN lock = Sides
  BY Zenon, <1>1 DEF TcpType
<1>5. Other(e) \in Sides /\ Other(e) # e
  BY Zenon, OtherSide
<1>6. /\ Framed(buffer[Other(e)] \o (wire[e] \o Unwritten(e)), written[e], Len(received[Other(e)]), State)
      /\ Len(received[Other(e)]) <= Len(written[e])
      /\ \A i \in 1..Len(received[Other(e)]) : received[Other(e)][i] = written[e][i]
  BY Zenon, <1>1 DEF DirectionInv, Stream, OnTheWay
<1> QED BY Zenon, <1>2, <1>3, <1>4, <1>5, <1>6

\* A write that fails leaves a stream that is cut off as it is.
LEMMA WriteFailsKeeps ==
  ASSUME TcpInv, NEW e \in Sides, NEW t \in Threads(e), WriteFails(e, t)
  PROVE  TcpInv'
<1>1. ThreadsTyped /\ thread[e][t].pc = "write" /\ lock[e] = t /\ t # Nobody
  BY Zenon, ThreadsAreSome DEF TcpInv, TcpType, LocksInv, WriteFails, At
<1>2. State = "cut" /\ State # "whole"
  <2>1. State = "cut"
    BY OtherSide DEF State, WriteFails, Sides
  <2> QED BY <2>1
<1> DEFINE v == [thread[e][t] EXCEPT !.frame = <<>>, !.pc = thread[e][t].then]
<1>3. v \in ThreadState /\ v.pc \in Returns
  <2>1. thread[e][t] \in ThreadState /\ <<>> \in Seq(Nat)
    BY <1>1 DEF ThreadsTyped
  <2> QED BY ZenonT(30), <2>1 DEF ThreadState
<1>4. thread' = [thread EXCEPT ![e] = [thread[e] EXCEPT ![t] = v]]
  BY ZenonT(30), <1>1 DEF WriteFails, ThreadsTyped
<1> HIDE DEF v
<1>5. ThreadsTyped' /\ thread'[e][t] = v /\ Elsewhere(e, t)
  <2>1. ThreadsTyped /\ v \in ThreadState
    BY Zenon, <1>1, <1>3
  <2> QED BY Zenon, <1>4, <2>1, ThreadSet
<1>6. thread'[e][t].pc # "write" /\ thread'[e][t].pc # "lock"
  BY <1>3, <1>5 DEF Returns
<1>7. /\ outgoing' = outgoing /\ buffer' = buffer /\ closed' = closed /\ received' = received
      /\ lock' = [lock EXCEPT ![e] = Nobody] /\ wire' = wire /\ written' = written
  BY Zenon DEF WriteFails
<1>8. DOMAIN lock' = Sides /\ lock'[e] = Nobody /\ lock'[Other(e)] = lock[Other(e)]
  <2>1. DOMAIN lock = Sides /\ Other(e) \in Sides /\ Other(e) # e
    BY Zenon, BeingWritten
  <2> QED BY Zenon, <1>7, <2>1
<1>9. PICK none : none = <<>> /\ Unwritten(e) = none
  BY Zenon, <1>2 DEF Unwritten
<1>10. /\ wire[e] \in Seq(Nat) /\ written[e] \in Seq(Bodies)
       /\ Framed(buffer[Other(e)] \o (wire[e] \o none), written[e], Len(received[Other(e)]), State)
       /\ Len(received[Other(e)]) <= Len(written[e])
       /\ \A i \in 1..Len(received[Other(e)]) : received[Other(e)][i] = written[e][i]
       /\ wire' = [wire EXCEPT ![e] = wire[e]] /\ written' = [written EXCEPT ![e] = written[e]]
  BY Zenon, <1>7, <1>9, BeingWritten
<1>11. Turn(e, t, Nobody)
  BY Zenon, <1>1, <1>6, <1>8 DEF Turn
<1>12. Left(e, t, Nobody, none)
  BY Zenon, <1>2, <1>9 DEF Left
<1>13. Goes(e, wire[e], none, written[e])
  BY Zenon, <1>10 DEF Goes
<1> QED BY Zenon, <1>5, <1>7, <1>11, <1>12, <1>13, Writing

Begins(f, w, more, d) ==
  /\ f \in Seq(Nat) /\ more \in Seq(Bodies) /\ Len(more) = Len(w) + d /\ NextFrame(f, d, Len(w), more)
  /\ \A g, count : \A n \in Nat : NextFrame(g, count, n, w) => NextFrame(g, count, n, more)
  /\ \A i \in 1..Len(w) : more[i] = w[i]

\* The thread that has the mutex writes a control frame, or the body it adds to those
\* written (WriteAll, by whoever called Send or SendControl).
LEMMA FrameBegun ==
  ASSUME NEW f, IsFrame(f), NEW w \in Seq(Bodies)
  PROVE  /\ Size(f) = 0 => Begins(f, w, w, 0)
         /\ Size(f) # 0 => BodyOf(f) \in Bodies /\ Begins(f, w, Append(w, BodyOf(f)), 1)
<1>1. Len(w) \in Nat /\ Len(w) = Len(w) + 0
  OBVIOUS
<1>2. CASE \E type \in {Ping, Pong} : f = Control(type)
  <2>1. f \in Seq(Nat) /\ Size(f) = 0
    BY Zenon, <1>2, FrameBytes
  <2>2. NextFrame(f, 0, Len(w), w)
    BY Zenon, <1>2 DEF NextFrame
  <2> QED BY Zenon, <1>1, <2>1, <2>2 DEF Begins
<1>3. CASE \E body \in Bodies : f = DataFrame(body)
  <2>1. PICK body \in Bodies : f = DataFrame(body)
    BY Zenon, <1>3
  <2>2. f \in Seq(Nat) /\ Size(f) = Len(body) /\ Len(body) \in Nat /\ Len(body) > 0
    BY Zenon, <2>1, FrameBytes
  <2>3. Size(f) # 0
    BY ONLY <2>2
  <2>4. BodyOf(f) = body
    BY Zenon, <2>1, BodyReadBack
  <2> DEFINE more == Append(w, body)
  <2>5. /\ more \in Seq(Bodies) /\ Len(more) = Len(w) + 1 /\ more[Len(w) + 1] = body
        /\ \A i \in 1..Len(w) : more[i] = w[i]
    <3>1. more \in Seq(Bodies) /\ Len(more) = Len(w) + 1 /\ more[Len(w) + 1] = body
      BY ONLY w \in Seq(Bodies), body \in Bodies
    <3>2. \A i \in 1..Len(w) : more[i] = w[i]
      BY ONLY w \in Seq(Bodies), body \in Bodies
    <3> QED BY Zenon, <3>1, <3>2
  <2> HIDE DEF more
  <2>6. Len(w) + 1 \in 1..Len(more) /\ \A n \in Nat : n + 1 \in 1..Len(w) => n + 1 \in 1..Len(more)
    <3>1. Len(more) = Len(w) + 1
      BY Zenon, <2>5
    <3> QED BY ONLY <1>1, <3>1
  <2>7. NextFrame(f, 1, Len(w), more)
    BY Zenon, <2>1, <2>5, <2>6 DEF NextFrame
  <2>8. \A g, count : \A n \in Nat : NextFrame(g, count, n, w) => NextFrame(g, count, n, more)
    BY Zenon, <2>5, <2>6 DEF NextFrame
  <2>9. Begins(f, w, more, 1)
    BY Zenon, <2>2, <2>5, <2>7, <2>8 DEF Begins
  <2> QED BY Zenon, <2>3, <2>4, <2>9 DEF more
<1> QED BY Zenon, <1>2, <1>3 DEF IsFrame

\* A frame that begins ends a whole stream,
LEMMA StreamGoesOn ==
  ASSUME NEW s \in Seq(Nat), NEW w \in Seq(Bodies), NEW r, NEW f, NEW more, NEW d \in {0, 1},
         Begins(f, w, more, d), Framed(s, w, r, "whole")
  PROVE  Framed(s \o f, more, r, "whole")
BY Zenon, FrameAdded DEF Begins

\* and one that is cut off stays as it is.
LEMMA StreamStaysCut ==
  ASSUME NEW s \in Seq(Nat), NEW w \in Seq(Bodies), NEW r, NEW f, NEW more, NEW d \in {0, 1},
         Begins(f, w, more, d), Framed(s, w, r, "cut")
  PROVE  Framed(s, more, r, "cut")
<1>1. PICK num : Parses(num, s, w, r, "cut")
  BY Zenon DEF Framed
<1>2. ASSUME NEW b \in DOMAIN num, b < Len(s) PROVE FrameAt(num, s, more, b, "cut")
  <2>1. num[b] \in Nat /\ FrameAt(num, s, w, b, "cut")
    BY Zenon, <1>1, <1>2 DEF Parses
  <2>2. \A g, count : NextFrame(g, count, num[b], w) => NextFrame(g, count, num[b], more)
    BY Zenon, <2>1 DEF Begins
  <2> QED BY Zenon, <2>1, <2>2 DEF FrameAt
<1>3. Parses(num, s, more, r, "cut")
  BY Zenon, <1>1, <1>2 DEF Parses
<1> QED BY Zenon, <1>3 DEF Framed

\* A thread that gets the mutex begins its frame (WriteAll).
LEMMA LockKeeps ==
  ASSUME TcpInv, NEW e \in Sides, NEW t \in Threads(e), Lock(e, t)
  PROVE  TcpInv'
<1> DEFINE f == thread[e][t].frame
           w == written[e]
           more == IF Size(f) = 0 THEN w ELSE Append(w, BodyOf(f))
           B == buffer[Other(e)]
           r == Len(received[Other(e)])
           left == IF State = "whole" THEN f ELSE <<>>
<1>1. TcpType /\ LocksInv /\ ThreadsTyped
  BY Zenon DEF TcpInv, TcpType
<1>2. /\ thread[e][t].pc = "lock" /\ lock[e] = Nobody /\ lock' = [lock EXCEPT ![e] = t]
      /\ GoesTo(e, t, "write")
      /\ outgoing' = outgoing /\ buffer' = buffer /\ closed' = closed /\ received' = received /\ wire' = wire
      /\ written' = IF Size(f) = 0 THEN written ELSE [written EXCEPT ![e] = Append(w, BodyOf(f))]
  BY Zenon DEF Lock, At
<1>3. "write" \in Returns \cup {"update", "lock", "write"} /\ "write" # "lock"
  OBVIOUS
<1>4. ThreadsTyped' /\ Elsewhere(e, t) /\ thread'[e][t].pc = "write" /\ thread'[e][t].frame = f
  BY Zenon, <1>1, <1>2, <1>3, Went
<1>5. IsFrame(f)
  BY Zenon, <1>1, <1>2 DEF LocksInv
<1>6. /\ B \in Seq(Nat) /\ wire[e] \in Seq(Nat) /\ w \in Seq(Bodies)
      /\ Framed(B \o (wire[e] \o Unwritten(e)), w, r, State)
      /\ r \in Nat /\ r <= Len(w) /\ (\A i \in 1..r : received[Other(e)][i] = w[i])
      /\ wire = [wire EXCEPT ![e] = wire[e]] /\ written = [written EXCEPT ![e] = w]
      /\ DOMAIN lock = Sides /\ Other(e) \in Sides /\ Other(e) # e
  BY Zenon, BeingWritten
<1>7. Turn(e, t, t)
  BY Zenon, <1>2, <1>3, <1>4, <1>6 DEF Turn
<1>8. Left(e, t, t, left)
  BY Zenon, <1>4 DEF Left
<1>9. written' = [written EXCEPT ![e] = more]
  BY Zenon, <1>2, <1>6
<1>10. PICK d \in {0, 1} : Begins(f, w, more, d)
  BY Zenon, <1>5, <1>6, FrameBegun
<1> HIDE DEF more, w, f, B, r
<1>11. /\ f \in Seq(Nat) /\ more \in Seq(Bodies) /\ Len(more) = Len(w) + d
       /\ \A i \in 1..Len(w) : more[i] = w[i]
  BY Zenon, <1>10 DEF Begins
<1>12. r <= Len(more) /\ \A i \in 1..r : i \in 1..Len(w)
  <2>1. Len(w) \in Nat
    BY Zenon, <1>6, LenProperties
  <2>2. r \in Nat /\ r <= Len(w) /\ Len(more) = Len(w) + d
    BY Zenon, <1>6, <1>11
  <2> QED BY ONLY <2>1, <2>2, d \in {0, 1}
<1>13. \A i \in 1..r : received[Other(e)][i] = more[i]
  BY Zenon, <1>6, <1>11, <1>12
<1>14. Framed(B \o wire[e], w, r, State)
  <2>1. Unwritten(e) = <<>>
    BY Zenon, <1>2 DEF Unwritten, Holding
  <2>2. wire[e] \o <<>> = wire[e]
    BY Zenon, <1>6, ConcatEmptySeq
  <2> QED BY Zenon, <1>6, <2>1, <2>2
<1>15. B \o wire[e] \in Seq(Nat)
  BY Zenon, <1>6, Joined
<1>16. Framed(B \o (wire[e] \o left), more, r, State)
  <2>1. CASE State = "whole"
    <3>1. Framed((B \o wire[e]) \o f, more, r, "whole")
      BY Zenon, <1>6, <1>10, <1>14, <1>15, <2>1, StreamGoesOn
    <3>2. (B \o wire[e]) \o f = B \o (wire[e] \o f)
      <4>1. B \in Seq(Nat) /\ wire[e] \in Seq(Nat) /\ f \in Seq(Nat)
        BY Zenon, <1>6, <1>11
      <4> QED BY ZenonT(60), <4>1, JoinedThree
    <3> QED BY Zenon, <2>1, <3>1, <3>2
  <2>2. CASE State = "cut"
    <3>1. Framed(B \o wire[e], more, r, "cut")
      <4>1. Framed(B \o wire[e], w, r, "cut") /\ w \in Seq(Bodies)
        BY Zenon, <1>6, <1>14, <2>2
      <4> QED BY Zenon, <1>10, <1>15, <4>1, StreamStaysCut
    <3>2. wire[e] \o <<>> = wire[e]
      BY Zenon, <1>6, ConcatEmptySeq
    <3>3. left = <<>>
      BY <2>2
    <3> QED BY Zenon, <2>2, <3>1, <3>2, <3>3
  <2> QED BY Zenon, <2>1, <2>2 DEF State
<1> HIDE DEF left
<1>17. wire' = [wire EXCEPT ![e] = wire[e]]
  BY Zenon, <1>2, <1>6
<1>18. Goes(e, wire[e], left, more)
  BY Zenon, <1>6, <1>9, <1>11, <1>12, <1>13, <1>16, <1>17 DEF Goes, B, r
<1> QED BY Zenon, <1>2, <1>4, <1>7, <1>8, <1>18, Writing

\* The kernel takes the front of the frame; the thread keeps the mutex until it has taken
\* the rest ("interleaved send()s would splice two frames together").
LEMMA WriteSomeKeeps ==
  ASSUME TcpInv, NEW e \in Sides, NEW t \in Threads(e), WriteSome(e, t)
  PROVE  TcpInv'
<1> DEFINE f == thread[e][t].frame
           B == buffer[Other(e)]
           r == Len(received[Other(e)])
<1>1. ThreadsTyped /\ LocksInv
  BY Zenon DEF TcpInv, TcpType
<1>2. /\ thread[e][t].pc = "write" /\ closed[e] = "no" /\ closed[Other(e)] = "no"
      /\ outgoing' = outgoing /\ buffer' = buffer /\ closed' = closed /\ received' = received
      /\ written' = written
  BY Zenon DEF WriteSome, At
<1>3. PICK n \in 1..Len(f) :
        /\ wire' = [wire EXCEPT ![e] = wire[e] \o SubSeq(f, 1, n)]
        /\ thread' = [thread EXCEPT ![e][t].frame = SubSeq(f, n + 1, Len(f)),
                                    ![e][t].pc = IF n = Len(f) THEN thread[e][t].then ELSE @]
        /\ lock' = IF n = Len(f) THEN [lock EXCEPT ![e] = Nobody] ELSE lock
  BY ZenonT(30) DEF WriteSome
<1>4. lock[e] = t /\ t # Nobody
  BY Zenon, <1>1, <1>2, ThreadsAreSome DEF LocksInv
<1>5. State = "whole"
  <2>1. closed["client"] = "no" /\ closed["server"] = "no"
    BY <1>2, OtherSide DEF Sides
  <2> QED BY Zenon, <2>1 DEF State
<1>6. thread[e][t] \in ThreadState
  BY Zenon, <1>1 DEF ThreadsTyped
<1>7. f \in Seq(Nat) /\ thread[e][t].then \in Returns
  BY <1>6 DEF ThreadState
<1> DEFINE front == SubSeq(f, 1, n)
           rest == SubSeq(f, n + 1, Len(f))
           pc == IF n = Len(f) THEN thread[e][t].then ELSE "write"
           v == [thread[e][t] EXCEPT !.frame = rest, !.pc = pc]
           holder == IF n = Len(f) THEN Nobody ELSE t
<1>8. /\ front \in Seq(Nat) /\ rest \in Seq(Nat) /\ n \in 0..Len(f)
      /\ n = Len(f) => rest = <<>>
  <2>1. ASSUME NEW u \in Seq(Nat), NEW k \in 1..Len(u)
        PROVE  /\ SubSeq(u, 1, k) \in Seq(Nat) /\ SubSeq(u, k + 1, Len(u)) \in Seq(Nat) /\ k \in 0..Len(u)
               /\ k = Len(u) => SubSeq(u, k + 1, Len(u)) = <<>>
    BY ONLY <2>1
  <2> QED BY Zenon, <1>7, <2>1
<1>9. front \o rest = f
  BY Zenon, <1>7, <1>8, CutAndJoined
<1>10. thread' = [thread EXCEPT ![e] = [thread[e] EXCEPT ![t] = v]]
  BY ZenonT(30), <1>1, <1>2, <1>3 DEF ThreadsTyped
<1>11. pc \in Returns \cup {"update", "lock", "write"} /\ pc # "lock" /\ (pc = "write" <=> holder = t)
  BY <1>4, <1>7 DEF Returns
<1> HIDE DEF front, rest, pc
<1>12. v \in ThreadState /\ v.pc = pc /\ v.frame = rest
  BY ZenonT(30), <1>6, <1>8, <1>11 DEF ThreadState
<1> HIDE DEF v, holder
<1>13. ThreadsTyped' /\ thread'[e][t] = v /\ Elsewhere(e, t)
  <2>1. ThreadsTyped /\ v \in ThreadState
    BY Zenon, <1>1, <1>12
  <2> QED BY Zenon, <1>10, <2>1, ThreadSet
<1>14. /\ B \in Seq(Nat) /\ wire[e] \in Seq(Nat) /\ written[e] \in Seq(Bodies)
       /\ Framed(B \o (wire[e] \o Unwritten(e)), written[e], r, State)
       /\ r <= Len(written[e]) /\ (\A i \in 1..r : received[Other(e)][i] = written[e][i])
       /\ written = [written EXCEPT ![e] = written[e]]
       /\ DOMAIN lock = Sides /\ Other(e) \in Sides /\ Other(e) # e
  BY Zenon, BeingWritten
<1>15. Turn(e, t, holder)
  <2>1. DOMAIN lock' = Sides /\ lock'[e] = holder /\ lock'[Other(e)] = lock[Other(e)]
    BY Zenon, <1>3, <1>4, <1>14 DEF holder
  <2>2. holder \in {Nobody, t} /\ lock[e] \in {Nobody, t}
    BY Zenon, <1>4 DEF holder
  <2> QED BY Zenon, <1>11, <1>12, <1>13, <2>1, <2>2 DEF Turn
<1>16. Left(e, t, holder, rest)
  BY Zenon, <1>4, <1>5, <1>8, <1>12, <1>13 DEF Left, holder
<1>17. (wire[e] \o front) \o rest = wire[e] \o f
  <2>1. (wire[e] \o front) \o rest = wire[e] \o (front \o rest)
    <3>1. wire[e] \in Seq(Nat) /\ front \in Seq(Nat) /\ rest \in Seq(Nat)
      BY Zenon, <1>8, <1>14
    <3> QED BY ZenonT(60), <3>1, JoinedThree
  <2> QED BY Zenon, <1>9, <2>1
<1>18. Framed(B \o ((wire[e] \o front) \o rest), written[e], r, State)
  <2>1. Unwritten(e) = f
    BY Zenon, <1>4, <1>5 DEF Unwritten, Holding
  <2> QED BY Zenon, <1>14, <1>17, <2>1
<1>19. wire[e] \o front \in Seq(Nat) /\ wire' = [wire EXCEPT ![e] = wire[e] \o front]
  BY Zenon, <1>3, <1>8, <1>14, Joined DEF front
<1>20. written' = [written EXCEPT ![e] = written[e]]
  BY Zenon, <1>2, <1>14
<1>21. Goes(e, wire[e] \o front, rest, written[e])
  BY Zenon, <1>14, <1>18, <1>19, <1>20 DEF Goes
<1> QED BY Zenon, <1>2, <1>13, <1>15, <1>16, <1>21, Writing

\* Every step keeps the invariant.
LEMMA TcpStepKeeps ==
  TcpInv /\ [TcpNext]_tcpVars => TcpInv'
<1> SUFFICES ASSUME TcpInv, [TcpNext]_tcpVars PROVE TcpInv'
  OBVIOUS
<1>1. CASE UNCHANGED tcpVars
  <2>1. /\ outgoing' = outgoing /\ lock' = lock /\ thread' = thread /\ wire' = wire /\ buffer' = buffer
        /\ closed' = closed /\ written' = written /\ received' = received
    BY Zenon, <1>1 DEF tcpVars
  <2>2. \A e \in Sides : DirectionInv(e)' <=> DirectionInv(e)
    BY Zenon, <2>1 DEF DirectionInv, Stream, OnTheWay, Unwritten, Holding, State
  <2>3. TcpType' /\ ClosedInv'
    BY Zenon, <2>1 DEF TcpInv, TcpType, ClosedInv, ThreadsTyped
  <2>4. LocksInv'
    BY Zenon, <2>1 DEF TcpInv, LocksInv
  <2> QED BY Zenon, <2>2, <2>3, <2>4 DEF TcpInv
<1>2. CASE TcpNext
  <2>1. PICK e \in Sides : (\E t \in Threads(e) : Step(e, t)) \/ LoopStep(e) \/ IdleTimeout(e) \/ CloseSession(e)
    BY Zenon, <1>2 DEF TcpNext
  <2>2. ASSUME NEW t \in Threads(e), Step(e, t) PROVE TcpInv'
    BY Zenon, <2>2, LockKeeps, WriteSomeKeeps, WriteFailsKeeps, DrainKeeps, DrainEndsKeeps DEF Step
  <2>3. CASE LoopStep(e)
    BY Zenon, <2>3, UpdateKeeps, DispatchKeeps, HandleControlKeeps, RecvKeeps, RecvZeroKeeps, NoFrameKeeps DEF LoopStep
  <2> QED BY Zenon, <2>1, <2>2, <2>3, IdleTimeoutKeeps, CloseSessionKeeps
<1> QED BY <1>1, <1>2

\* What the invariant says of the bodies handed up.
LEMMA TcpInvIsIntact ==
  TcpInv => StreamIntact
<1> SUFFICES ASSUME TcpInv, NEW e \in Sides
             PROVE  /\ Len(received[e]) <= Len(written[Other(e)])
                    /\ received[e] = SubSeq(written[Other(e)], 1, Len(received[e]))
                    /\ closed[e] # "oversized"
                    /\ closed[e] = "eof" => closed[Other(e)] # "no"
  BY Zenon DEF StreamIntact
<1>1. closed[e] # "oversized" /\ (closed[e] = "eof" => closed[Other(e)] # "no")
  BY Zenon DEF TcpInv, ClosedInv
<1>2. /\ written[Other(e)] \in Seq(Bodies) /\ received[e] \in Seq(Bodies)
      /\ Len(received[e]) <= Len(written[Other(e)])
      /\ \A i \in 1..Len(received[e]) : received[e][i] = written[Other(e)][i]
  BY Zenon, BeingRead
<1>3. received[e] = SubSeq(written[Other(e)], 1, Len(received[e]))
  <2>1. ASSUME NEW S, NEW s \in Seq(S), NEW t \in Seq(S), Len(s) <= Len(t), \A i \in 1..Len(s) : s[i] = t[i]
        PROVE  s = SubSeq(t, 1, Len(s))
    <3>1. SubSeq(t, 1, Len(s)) \in Seq(S) /\ Len(SubSeq(t, 1, Len(s))) = Len(s)
      BY ONLY <2>1
    <3>2. \A i \in 1..Len(s) : s[i] = SubSeq(t, 1, Len(s))[i]
      BY ONLY <2>1
    <3> QED BY Zenon, <3>1, <3>2, SameBytes
  <2> QED BY Zenon, <1>2, <2>1
<1> QED BY Zenon, <1>1, <1>2, <1>3

\* What a side hands up is what the other began to write, whole and in order, for every
\* buffer, load, and way the bytes are cut up by writes and reads; and no side takes a
\* stream that goes on for one that ended or is damaged (WriteAll, ReadBuffer, Receive).
THEOREM FramesArriveWhole == TcpSpec => []StreamIntact
<1>1. TcpSpec => []TcpInv
  BY TcpInitInv, TcpStepKeeps, PTL DEF TcpSpec
<1> QED BY <1>1, TcpInvIsIntact, PTL
=============================================================================
