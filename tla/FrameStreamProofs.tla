-------------------------- MODULE FrameStreamProofs --------------------------
(***************************************************************************)
(* What the runs of FrameStream show for a few channels, entries and sizes *)
(* of a notification, for all of them: the two ends understand each other, *)
(* a frame that is cut into notifications is put together again, and a     *)
(* damaged answer is not taken for one.                                    *)
(*                                                                         *)
(* For the first two the CRC is a byte that both ends compute alike, and   *)
(* nothing looks into it.  The last two sections do: a byte that is not    *)
(* the same gives another CRC, and that dooms a frame for good.            *)
(***************************************************************************)
EXTENDS FrameStream, SequenceTheorems, WellFoundedInduction, TLAPS

-----------------------------------------------------------------------------
(* Numbers and payloads *)

\* Numbers of two and of four bytes, and a payload whose length leaves room for
\* the rest of a frame in two bytes.  (They are opaque in the proofs: a prover that
\* writes numbers in unary does not get past 65536.)
Short(n) == n \in Nat /\ n < 65536
Long(n) == n \in Nat /\ n \div 65536 < 65536
Fits(p) == p \in Seq(Nat) /\ Len(p) < 60000

\* Two bytes are numbers.
LEMMA TwoBytes ==
  ASSUME NEW n \in Nat
  PROVE  U16(n) \in Seq(Nat) /\ Len(U16(n)) = 2
  BY DEF U16

\* What U16 writes, ReadU16 reads.
LEMMA TwoBytesRead ==
  ASSUME NEW n, Short(n), NEW s, NEW i \in Nat,
         s[i + 1] = U16(n)[1], s[i + 2] = U16(n)[2]
  PROVE  ReadU16(s, i) = n
  <1>1. (n % 256) + 256 * ((n \div 256) % 256) = n
    BY DEF Short
  <1>2. s[i + 1] = n % 256 /\ s[i + 2] = (n \div 256) % 256
    BY DEF U16
  <1> QED
    BY <1>1, <1>2 DEF ReadU16

\* A payload leaves room for its frame in a length of two bytes.
LEMMA RoomForMore ==
  ASSUME NEW p, Fits(p)
  PROVE  /\ p \in Seq(Nat) /\ Len(p) \in Nat
         /\ Short(Len(p)) /\ Short(10 + Len(p))
         /\ Short(16 + Len(p)) /\ Short(17 + Len(p))
  BY DEF Fits, Short

\* Four bytes, and the lowest of them.
FourOf(w, n) == w \in Seq(Nat) /\ Len(w) = 4 /\ w[1] = n % 256

LEMMA FourBytes ==
  ASSUME NEW n \in Nat
  PROVE  FourOf(U32(n), n)
  <1>1. U32(n) \in Seq(Nat) /\ Len(U32(n)) = 4 /\ U32(n)[1] = (n % 65536) % 256
    BY DEF U16, U32
  <1>2. (n % 65536) % 256 = n % 256
    OBVIOUS
  <1> QED
    BY <1>1, <1>2 DEF FourOf

\* What U32 writes, ReadU32 reads.
LEMMA FourBytesRead ==
  ASSUME NEW n, Long(n), NEW s, NEW i \in Nat,
         s[i + 1] = U32(n)[1], s[i + 2] = U32(n)[2], s[i + 3] = U32(n)[3],
         s[i + 4] = U32(n)[4]
  PROVE  ReadU32(s, i) = n
  <1> DEFINE a == n % 65536
             b == n \div 65536
  <1>1. a \in Nat /\ b \in Nat /\ n = a + 65536 * b /\ Short(a) /\ Short(b)
    BY DEF Long, Short
  <1>2. s[i + 1] = a % 256 /\ s[i + 2] = (a \div 256) % 256
        /\ s[i + 3] = b % 256 /\ s[i + 4] = (b \div 256) % 256
    BY DEF U16, U32
  <1> HIDE DEF a, b
  <1>3. ReadU16(s, i) = a
    <2>1. s[i + 1] = U16(a)[1] /\ s[i + 2] = U16(a)[2]
      BY <1>2 DEF U16
    <2> QED
      BY <1>1, <2>1, TwoBytesRead
  <1>4. ReadU16(s, i + 2) = b
    <2>1. i + 2 \in Nat /\ (i + 2) + 1 = i + 3 /\ (i + 2) + 2 = i + 4
      OBVIOUS
    <2>2. s[(i + 2) + 1] = U16(b)[1] /\ s[(i + 2) + 2] = U16(b)[2]
      BY <1>2, <2>1 DEF U16
    <2> QED
      BY <1>1, <2>1, <2>2, TwoBytesRead
  <1> QED
    BY <1>1, <1>3, <1>4 DEF ReadU32

-----------------------------------------------------------------------------
(* Sequences *)

\* Two sequences, one after the other.
Joined(q, s, t) == /\ Len(q) = Len(s) + Len(t)
                   /\ \A i \in 1..Len(s) : q[i] = s[i]
                   /\ \A i \in 1..Len(t) : q[Len(s) + i] = t[i]

LEMMA Joining ==
  ASSUME NEW S, NEW s \in Seq(S), NEW t \in Seq(S)
  PROVE  s \o t \in Seq(S) /\ Joined(s \o t, s, t)
  BY DEF Joined

\* Concatenation is associative.
LEMMA Together ==
  ASSUME NEW S, NEW s \in Seq(S), NEW t \in Seq(S), NEW u \in Seq(S)
  PROVE  s \o t \o u = s \o (t \o u)
  OBVIOUS

AllIn(S, s, t, u, v, w) == /\ s \in Seq(S) /\ t \in Seq(S) /\ u \in Seq(S)
                           /\ v \in Seq(S) /\ w \in Seq(S)

LEMMA AllTogether ==
  ASSUME NEW S, NEW s, NEW t, NEW u, NEW v, NEW w, AllIn(S, s, t, u, v, w)
  PROVE  s \o t \o u \o v \o w = s \o (t \o u \o v \o w)
  <1> DEFINE st == s \o t
             tu == t \o u
             tuv == tu \o v
  <1>0. /\ s \in Seq(S) /\ t \in Seq(S) /\ u \in Seq(S)
        /\ v \in Seq(S) /\ w \in Seq(S)
    BY DEF AllIn
  <1>1. tu \in Seq(S) /\ tuv \in Seq(S)
    <2>1. tu \in Seq(S)
      BY <1>0, Joining
    <2> HIDE DEF tu
    <2> QED
      BY <1>0, <2>1, Joining
  <1>2. st \o u = s \o tu
    BY <1>0, Together
  <1>3. (s \o tu) \o v = s \o tuv
    <2> HIDE DEF tu
    <2> QED
      BY <1>0, <1>1
  <1>4. (s \o tuv) \o w = s \o (tuv \o w)
    <2> HIDE DEF tuv
    <2> QED
      BY <1>0, <1>1
  <1> HIDE DEF st, tu, tuv
  <1>5. st \o u \o v \o w = s \o (tuv \o w)
    BY <1>2, <1>3, <1>4
  <1> QED
    BY <1>5 DEF st, tu, tuv

\* The bytes of a sequence.
Elements(s) == {s[i] : i \in 1..Len(s)}

LEMMA OfItsElements ==
  ASSUME NEW S, NEW s \in Seq(S)
  PROVE  s \in Seq(Elements(s)) /\ Len(s) \in Nat
  BY DEF Elements

LEMMA SeqsGrow ==
  ASSUME NEW S, NEW T, S \subseteq T, NEW s \in Seq(S)
  PROVE  s \in Seq(T)
  OBVIOUS

LEMMA FunctionsAreSequences ==
  ASSUME NEW n \in Nat, NEW d \in [1..n -> Nat]
  PROVE  d \in Seq(Nat) /\ Len(d) = n
  OBVIOUS

\* A notification: the first bytes, and the rest.
LEMMA Cut ==
  ASSUME NEW S, NEW s \in Seq(S), NEW k \in 0..Len(s)
  PROVE  /\ SubSeq(s, 1, k) \in Seq(S) /\ SubSeq(s, k + 1, Len(s)) \in Seq(S)
         /\ SubSeq(s, 1, k) \o SubSeq(s, k + 1, Len(s)) = s
  <1> DEFINE n == Len(s)
             a == SubSeq(s, 1, k)
             b == SubSeq(s, k + 1, n)
  <1>1. n \in Nat /\ k \in Nat /\ k <= n
    OBVIOUS
  <1>2. \A i \in 1..n : s[i] \in S
    OBVIOUS
  <1> HIDE DEF n
  <1>3. a \in Seq(S) /\ Len(a) = k /\ \A i \in 1..k : a[i] = s[i]
    <2>1. \A i \in 1..k : s[i] \in S
      BY <1>1, <1>2
    <2>2. /\ a \in Seq(S) /\ Len(a) = (IF 1 <= k THEN k - 1 + 1 ELSE 0)
          /\ \A i \in 1..(k - 1 + 1) : a[i] = s[1 + i - 1]
      BY <1>1, <2>1, SubSeqProperties
    <2> QED
      BY <1>1, <2>2
  <1>4. b \in Seq(S) /\ Len(b) = n - k /\ \A i \in 1..(n - k) : b[i] = s[k + i]
    <2>1. \A i \in (k + 1)..n : s[i] \in S
      BY <1>1, <1>2
    <2>2. /\ b \in Seq(S) /\ Len(b) = (IF k + 1 <= n THEN n - (k + 1) + 1 ELSE 0)
          /\ \A i \in 1..(n - (k + 1) + 1) : b[i] = s[k + 1 + i - 1]
      BY <1>1, <2>1, SubSeqProperties
    <2>3. Len(b) = n - k
      BY <1>1, <2>2
    <2>4. ASSUME NEW i \in 1..(n - k) PROVE b[i] = s[k + i]
      <3>1. i \in 1..(n - (k + 1) + 1) /\ k + 1 + i - 1 = k + i
        BY <1>1
      <3> QED
        BY <2>2, <3>1
    <2> QED
      BY <2>2, <2>3, <2>4
  <1> HIDE DEF a, b
  <1>5. a \o b \in Seq(S) /\ Joined(a \o b, a, b)
    BY <1>3, <1>4, Joining
  <1>6. Len(a \o b) = n
    BY <1>1, <1>3, <1>4, <1>5 DEF Joined
  <1>7. ASSUME NEW i \in 1..n PROVE (a \o b)[i] = s[i]
    <2>1. CASE i <= k
      <3>1. i \in 1..k
        BY <1>1, <2>1
      <3> QED
        BY <1>3, <1>5, <3>1 DEF Joined
    <2>2. CASE ~(i <= k)
      <3> DEFINE j == i - k
      <3>1. j \in 1..(n - k) /\ i = k + j
        BY <1>1, <2>2
      <3> HIDE DEF j
      <3>2. (a \o b)[k + j] = b[j]
        BY <1>3, <1>4, <1>5, <3>1 DEF Joined
      <3> QED
        BY <1>4, <3>1, <3>2
    <2> QED
      BY <2>1, <2>2
  <1>8. a \o b = s
    BY <1>5, <1>6, <1>7, SeqEqual DEF n
  <1> QED
    BY <1>3, <1>4, <1>8 DEF a, b, n

-----------------------------------------------------------------------------
(* The bytes of a frame *)

\* The length of a frame, in its third and fourth byte.
HasLength(f, n) == /\ f[1] = 2 /\ f[2] = 253
                   /\ f[3] = U16(n)[1] /\ f[4] = U16(n)[2]

\* The nine bytes before the CRC of the header.
Opening(len, channel, linked) == <<2, 253>> \o U16(len) \o U32(channel) \o <<linked>>

\* The opening has nine bytes and begins with the marks and the length.
LEMMA OpeningBytes ==
  ASSUME NEW len \in Nat, NEW channel \in Nat, NEW linked \in Nat
  PROVE  LET o == Opening(len, channel, linked)
         IN  o \in Seq(Nat) /\ Len(o) = 9 /\ HasLength(o, len)
  BY DEF Opening, U16, U32, HasLength

\* A header, whatever is added to the nine bytes.
LEMMA HeaderBytes ==
  ASSUME NEW S, NEW o \in Seq(S), o # << >>, NEW c \in S
  PROVE  LET h == Append(o, c)
         IN  /\ h \in Seq(S) /\ Len(h) = Len(o) + 1 /\ h[Len(o) + 1] = c
             /\ \A i \in 1..Len(o) : h[i] = o[i]
             /\ SubSeq(h, 2, Len(o)) = Tail(o)
  <1> DEFINE h == Append(o, c)
             e == <<c>>
             n == Len(o)
  <1>1. n \in Nat \ {0} /\ e \in Seq(S) /\ Len(e) = 1 /\ e[1] = c
    OBVIOUS
  <1>2. h = o \o e
    BY AppendIsConcat
  <1>3. h \in Seq(S) /\ Len(h) = n + 1
        /\ \A i \in 1..(n + 1) : h[i] = IF i <= n THEN o[i] ELSE e[i - n]
    <2>1. /\ o \o e \in Seq(S) /\ Len(o \o e) = Len(o) + Len(e)
          /\ \A i \in 1..(Len(o) + Len(e)) :
                (o \o e)[i] = IF i <= Len(o) THEN o[i] ELSE e[i - Len(o)]
      <3> HIDE DEF e
      <3> QED
        BY <1>1, ConcatProperties
    <2> HIDE DEF h, e
    <2> QED
      BY <1>1, <1>2, <2>1
  <1>4. /\ Tail(o) \in Seq(S) /\ Len(Tail(o)) = n - 1
        /\ \A i \in 1..(n - 1) : Tail(o)[i] = o[i + 1]
    BY HeadTailProperties
  <1> HIDE DEF h, e, n
  <1>5. h[n + 1] = c /\ \A i \in 1..n : h[i] = o[i]
    BY <1>1, <1>3
  <1>6. /\ SubSeq(h, 2, n) \in Seq(S) /\ Len(SubSeq(h, 2, n)) = n - 1
        /\ \A i \in 1..(n - 1) : SubSeq(h, 2, n)[i] = h[i + 1]
    <2>1. \A i \in 2..n : h[i] \in S
      BY <1>1, <1>3
    <2>2. /\ SubSeq(h, 2, n) \in Seq(S)
          /\ Len(SubSeq(h, 2, n)) = IF 2 <= n THEN n - 2 + 1 ELSE 0
          /\ \A i \in 1..(n - 2 + 1) : SubSeq(h, 2, n)[i] = h[2 + i - 1]
      BY <1>1, <2>1, SubSeqProperties
    <2> QED
      BY <1>1, <2>2
  <1>7. \A i \in 1..(n - 1) : SubSeq(h, 2, n)[i] = Tail(o)[i]
    BY <1>1, <1>4, <1>5, <1>6
  <1>8. SubSeq(h, 2, n) = Tail(o)
    BY <1>1, <1>4, <1>6, <1>7, SeqEqual
  <1> QED
    BY <1>3, <1>5, <1>8 DEF h, n

\* What Sealed() makes of a frame.
LEMMA SealedBytes ==
  ASSUME NEW S, NEW g \in Seq(S), g # << >>, Crc(Tail(g)) \in S, 3 \in S
  PROVE  LET f == Sealed(g)
         IN  /\ f \in Seq(S) /\ Len(f) = Len(g) + 2 /\ f[Len(f)] = 3
             /\ \A i \in 1..Len(g) : f[i] = g[i]
             /\ f[Len(f) - 1] = Crc(SubSeq(f, 2, Len(f) - 2))
  <1> DEFINE f == Sealed(g)
             e == <<Crc(Tail(g)), 3>>
             n == Len(g)
  <1>1. n \in Nat \ {0} /\ e \in Seq(S) /\ Len(e) = 2 /\ e[1] = Crc(Tail(g)) /\ e[2] = 3
    OBVIOUS
  <1>2. f = g \o e
    BY DEF Sealed
  <1>3. f \in Seq(S) /\ Len(f) = n + 2
        /\ \A i \in 1..(n + 2) : f[i] = IF i <= n THEN g[i] ELSE e[i - n]
    <2>1. /\ g \o e \in Seq(S) /\ Len(g \o e) = Len(g) + Len(e)
          /\ \A i \in 1..(Len(g) + Len(e)) :
                (g \o e)[i] = IF i <= Len(g) THEN g[i] ELSE e[i - Len(g)]
      <3> HIDE DEF e
      <3> QED
        BY <1>1, ConcatProperties
    <2> HIDE DEF f, e
    <2> QED
      BY <1>1, <1>2, <2>1
  <1>4. /\ Tail(g) \in Seq(S) /\ Len(Tail(g)) = n - 1
        /\ \A i \in 1..(n - 1) : Tail(g)[i] = g[i + 1]
    BY HeadTailProperties
  <1> HIDE DEF f, e, n
  <1>5. f[n + 1] = Crc(Tail(g)) /\ f[n + 2] = 3 /\ \A i \in 1..n : f[i] = g[i]
    BY <1>1, <1>3
  <1>6. /\ SubSeq(f, 2, n) \in Seq(S) /\ Len(SubSeq(f, 2, n)) = n - 1
        /\ \A i \in 1..(n - 1) : SubSeq(f, 2, n)[i] = f[i + 1]
    <2>1. \A i \in 2..n : f[i] \in S
      BY <1>1, <1>3
    <2>2. /\ SubSeq(f, 2, n) \in Seq(S)
          /\ Len(SubSeq(f, 2, n)) = IF 2 <= n THEN n - 2 + 1 ELSE 0
          /\ \A i \in 1..(n - 2 + 1) : SubSeq(f, 2, n)[i] = f[2 + i - 1]
      BY <1>1, <2>1, SubSeqProperties
    <2> QED
      BY <1>1, <2>2
  <1>7. \A i \in 1..(n - 1) : SubSeq(f, 2, n)[i] = Tail(g)[i]
    BY <1>1, <1>4, <1>5, <1>6
  <1>8. SubSeq(f, 2, n) = Tail(g)
    BY <1>1, <1>4, <1>6, <1>7, SeqEqual
  <1>9. Len(f) - 2 = n /\ Len(f) - 1 = n + 1
    BY <1>1, <1>3
  <1> QED
    BY <1>3, <1>5, <1>8, <1>9 DEF f, n

\* A frame: a front of the nine bytes, their CRC and more, a payload, and the seal.
Framed(f, front, p) ==
    /\ f \in Seq(Elements(f)) /\ Len(f) = Len(front) + Len(p) + 2
    /\ \A i \in 1..Len(front) : f[i] = front[i]
    /\ \A i \in 1..Len(p) : f[Len(front) + i] = p[i]
    /\ f[10] = Crc(SubSeq(f, 2, 9))
    /\ f[Len(f) - 1] = Crc(SubSeq(f, 2, Len(f) - 2)) /\ f[Len(f)] = 3

\* What Sealed() makes of a front with its CRC and a payload.
LEMMA FrameBytes ==
  ASSUME NEW front, NEW S, front \in Seq(S), NEW p \in Seq(S), Len(front) >= 10,
         front[10] = Crc(SubSeq(front, 2, 9))
  PROVE  Framed(Sealed(front \o p), front, p)
  <1> DEFINE g == front \o p
             T == S \cup {Crc(Tail(g)), 3}
             f == Sealed(g)
             k == Len(front)
             n == Len(p)
  <1>1. front \in Seq(T) /\ p \in Seq(T) /\ k \in Nat /\ n \in Nat /\ k >= 10
    BY SeqsGrow
  <1>2. /\ g \in Seq(T) /\ Len(g) = k + n
        /\ \A i \in 1..(k + n) : g[i] = IF i <= k THEN front[i] ELSE p[i - k]
    <2> HIDE DEF T
    <2> QED
      BY <1>1, ConcatProperties
  <1>3. /\ f \in Seq(T) /\ Len(f) = Len(g) + 2 /\ f[Len(f)] = 3
        /\ \A i \in 1..Len(g) : f[i] = g[i]
        /\ f[Len(f) - 1] = Crc(SubSeq(f, 2, Len(f) - 2))
    <2>1. Crc(Tail(g)) \in T /\ 3 \in T /\ g # << >>
      <3>1. Len(g) # 0
        BY <1>1, <1>2
      <3> QED
        BY <3>1
    <2> HIDE DEF T, g
    <2> QED
      BY <1>2, <2>1, SealedBytes
  <1>4. f \in Seq(Elements(f))
    BY <1>3, OfItsElements
  <1> HIDE DEF f, g, T
  <1>5. Len(f) = k + n + 2 /\ \A i \in 1..k : f[i] = front[i]
    <2> HIDE DEF k, n
    <2>1. \A i \in 1..k : i \in 1..(k + n) /\ g[i] = front[i]
      BY <1>1, <1>2
    <2> QED
      BY <1>1, <1>2, <1>3, <2>1
  <1>6. \A i \in 1..n : f[k + i] = p[i]
    <2> TAKE i \in 1..n
    <2>1. k + i \in 1..(k + n) /\ ~(k + i <= k) /\ (k + i) - k = i
      BY <1>1
    <2> QED
      BY <1>2, <1>3, <2>1
  <1>7. SubSeq(f, 2, 9) = SubSeq(front, 2, 9)
    <2>1. \A i \in 2..9 : f[i] = front[i] /\ front[i] \in T
      <3> TAKE i \in 2..9
      <3>1. i \in 1..k
        BY <1>1
      <3> QED
        BY <1>1, <1>5, <3>1, ElementOfSeq
    <2>2. /\ SubSeq(f, 2, 9) \in Seq(T) /\ Len(SubSeq(f, 2, 9)) = 8
          /\ \A i \in 1..(9 - 2 + 1) : SubSeq(f, 2, 9)[i] = f[2 + i - 1]
      BY <2>1, SubSeqProperties
    <2>3. /\ SubSeq(front, 2, 9) \in Seq(T) /\ Len(SubSeq(front, 2, 9)) = 8
          /\ \A i \in 1..(9 - 2 + 1) : SubSeq(front, 2, 9)[i] = front[2 + i - 1]
      BY <2>1, SubSeqProperties
    <2>4. \A i \in 1..8 : SubSeq(f, 2, 9)[i] = SubSeq(front, 2, 9)[i]
      BY <2>1, <2>2, <2>3
    <2> QED
      BY <2>2, <2>3, <2>4, SeqEqual
  <1>8. f[10] = Crc(SubSeq(f, 2, 9))
    <2>1. 10 \in 1..k
      BY <1>1
    <2> QED
      BY <1>5, <1>7, <2>1
  <1> QED
    BY <1>3, <1>4, <1>5, <1>6, <1>8 DEF Framed, f, g

\* A front of k bytes, of a frame with this length.
Starts(q, k, len) ==
    /\ q \in Seq(Nat \cup {q[10]}) /\ Len(q) = k
    /\ q[10] = Crc(SubSeq(q, 2, 9)) /\ HasLength(q, len)

\* Nine bytes and their CRC are a header.
LEMMA OpeningStarts ==
  ASSUME NEW o \in Seq(Nat), Len(o) = 9, NEW len, HasLength(o, len)
  PROVE  LET h == Append(o, Crc(Tail(o)))
         IN  Starts(h, 10, len) /\ \A i \in 1..9 : h[i] = o[i]
  <1> DEFINE c == Crc(Tail(o))
             S == Nat \cup {c}
             h == Append(o, c)
  <1>1. o \in Seq(S) /\ c \in S
    <2>1. Nat \subseteq S /\ c \in S
      OBVIOUS
    <2> HIDE DEF S
    <2> QED
      BY <2>1, SeqsGrow
  <1> HIDE DEF c, S
  <1>4. /\ h \in Seq(S) /\ Len(h) = 10 /\ h[10] = c
        /\ \A i \in 1..9 : h[i] = o[i]
        /\ SubSeq(h, 2, 9) = Tail(o)
    <2>1. /\ h \in Seq(S) /\ Len(h) = Len(o) + 1 /\ h[Len(o) + 1] = c
          /\ \A i \in 1..Len(o) : h[i] = o[i]
          /\ SubSeq(h, 2, Len(o)) = Tail(o)
      <3>1. o # << >>
        OBVIOUS
      <3> QED
        BY <1>1, <3>1, HeaderBytes
    <2> HIDE DEF h
    <2> QED
      BY <2>1
  <1> HIDE DEF h
  <1>5. h[10] = Crc(SubSeq(h, 2, 9)) /\ S = Nat \cup {h[10]}
    BY <1>4 DEF c, S
  <1>6. HasLength(h, len)
    <2>1. 1 \in 1..9 /\ 2 \in 1..9 /\ 3 \in 1..9 /\ 4 \in 1..9
      OBVIOUS
    <2> QED
      BY <1>4, <2>1 DEF HasLength
  <1>7. Starts(h, 10, len) /\ \A i \in 1..9 : h[i] = o[i]
    BY <1>4, <1>5, <1>6 DEF Starts
  <1> QED
    BY <1>7 DEF h, c

\* Header() starts every frame.
LEMMA HeaderStarts ==
  ASSUME NEW len \in Nat, NEW channel \in Nat, NEW linked \in Nat
  PROVE  /\ Starts(Header(len, channel, linked), 10, len)
         /\ \A i \in 1..9 : Header(len, channel, linked)[i]
                              = Opening(len, channel, linked)[i]
  <1> DEFINE o == Opening(len, channel, linked)
  <1>1. o \in Seq(Nat) /\ Len(o) = 9 /\ HasLength(o, len)
    BY OpeningBytes, Zenon
  <1>2. Header(len, channel, linked) = Append(o, Crc(Tail(o)))
    BY DEF Header, Opening
  <1> HIDE DEF o
  <1>3. /\ Starts(Append(o, Crc(Tail(o))), 10, len)
        /\ \A i \in 1..9 : Append(o, Crc(Tail(o)))[i] = o[i]
    BY <1>1, OpeningStarts
  <1> QED
    BY <1>2, <1>3 DEF o

\* What follows the first k bytes of q.
Then(q, k, t) == \A i \in 1..Len(t) : q[k + i] = t[i]

\* A header and what is put behind it.
LEMMA StartsOn ==
  ASSUME NEW h, NEW len, Starts(h, 10, len), NEW t \in Seq(Nat)
  PROVE  /\ Starts(h \o t, 10 + Len(t), len)
         /\ \A i \in 1..10 : (h \o t)[i] = h[i]
         /\ Then(h \o t, 10, t)
  <1> DEFINE S == Nat \cup {h[10]}
             q == h \o t
  <1>1. Nat \subseteq S
    OBVIOUS
  <1>2. h \in Seq(S) /\ Len(h) = 10 /\ Len(t) \in Nat
    BY DEF Starts
  <1> HIDE DEF S
  <1>3. t \in Seq(S)
    BY <1>1, SeqsGrow
  <1>4. /\ q \in Seq(S) /\ Len(q) = Len(h) + Len(t)
        /\ \A i \in 1..(Len(h) + Len(t)) :
              q[i] = IF i <= Len(h) THEN h[i] ELSE t[i - Len(h)]
    BY <1>2, <1>3, ConcatProperties
  <1> HIDE DEF q
  <1>5. \A i \in 1..10 : q[i] = h[i]
    BY <1>2, <1>4
  <1>6. \A i \in 1..Len(t) : q[10 + i] = t[i]
    <2> TAKE i \in 1..Len(t)
    <2>1. 10 + i \in 1..(10 + Len(t)) /\ ~(10 + i <= 10) /\ (10 + i) - 10 = i
      BY <1>2
    <2> QED
      BY <1>2, <1>4, <2>1
  <1>8. SubSeq(q, 2, 9) = SubSeq(h, 2, 9)
    <2>1. \A i \in 2..9 : q[i] = h[i] /\ h[i] \in S
      <3>1. ASSUME NEW i \in 2..9 PROVE q[i] = h[i] /\ h[i] \in S
        <4>1. i \in 1..10
          OBVIOUS
        <4>2. h[i] \in S
          BY <1>2, <4>1, ElementOfSeq
        <4> QED
          BY <1>5, <4>1, <4>2
      <3> QED
        BY <3>1
    <2>2. /\ SubSeq(q, 2, 9) \in Seq(S) /\ Len(SubSeq(q, 2, 9)) = 8
          /\ \A i \in 1..(9 - 2 + 1) : SubSeq(q, 2, 9)[i] = q[2 + i - 1]
      BY <2>1, SubSeqProperties
    <2>3. /\ SubSeq(h, 2, 9) \in Seq(S) /\ Len(SubSeq(h, 2, 9)) = 8
          /\ \A i \in 1..(9 - 2 + 1) : SubSeq(h, 2, 9)[i] = h[2 + i - 1]
      BY <2>1, SubSeqProperties
    <2>4. \A i \in 1..8 : SubSeq(q, 2, 9)[i] = SubSeq(h, 2, 9)[i]
      BY <2>1, <2>2, <2>3
    <2> QED
      BY <2>2, <2>3, <2>4, SeqEqual
  <1>9. q[1] = h[1] /\ q[2] = h[2] /\ q[3] = h[3] /\ q[4] = h[4] /\ q[10] = h[10]
    BY <1>5
  <1>10. Starts(q, 10 + Len(t), len)
    BY <1>2, <1>4, <1>8, <1>9 DEF Starts, HasLength, S
  <1> QED
    BY <1>5, <1>6, <1>10 DEF q, Then

\* A frame with a front of k bytes, and what the two ends make of its length.
Shape(f, front, k, p, len) ==
    /\ Framed(f, front, p) /\ Len(f) = k + Len(p) + 2
    /\ \A i \in 1..k : f[i] = front[i]
    /\ f[1] = 2 /\ f[2] = 253 /\ ReadU16(f, 2) = len
    /\ SubSeq(f, k + 1, k + Len(p)) = p

\* A front, a payload and the seal.
LEMMA FrameShape ==
  ASSUME NEW k \in Nat, k >= 10, NEW len, Short(len),
         NEW front, Starts(front, k, len), NEW p \in Seq(Nat)
  PROVE  Shape(Sealed(front \o p), front, k, p, len)
  <1> DEFINE S == Nat \cup {front[10]}
             f == Sealed(front \o p)
             n == Len(p)
  <1>1. front \in Seq(S) /\ Nat \subseteq S
    BY DEF Starts
  <1>2. Len(front) = k /\ front[10] = Crc(SubSeq(front, 2, 9)) /\ HasLength(front, len)
    BY DEF Starts
  <1> HIDE DEF S
  <1>3. p \in Seq(S) /\ n \in Nat
    BY <1>1, SeqsGrow
  <1>4. Framed(f, front, p)
    BY <1>1, <1>2, <1>3, FrameBytes
  <1> HIDE DEF f
  <1>5. Len(f) = k + n + 2 /\ \A i \in 1..k : f[i] = front[i]
    BY <1>2, <1>4 DEF Framed
  <1>6. f[1] = front[1] /\ f[2] = front[2] /\ f[3] = front[3] /\ f[4] = front[4]
    BY <1>5
  <1>7. ReadU16(f, 2) = len
    <2>1. f[2 + 1] = U16(len)[1] /\ f[2 + 2] = U16(len)[2]
      BY <1>2, <1>6 DEF HasLength
    <2> QED
      BY <2>1, TwoBytesRead
  <1>8. \A i \in 1..n : f[k + i] = p[i]
    BY <1>2, <1>4 DEF Framed
  <1>9. SubSeq(f, k + 1, k + n) = p
    <2> HIDE DEF n
    <2>1. ASSUME NEW i \in (k + 1)..(k + n) PROVE f[i] \in S
      <3> DEFINE j == i - k
      <3>1. j \in 1..n /\ i = k + j
        BY <1>3
      <3> HIDE DEF j
      <3>2. f[i] = p[j]
        BY <1>8, <3>1
      <3>3. p[j] \in S
        BY <1>3, <3>1, ElementOfSeq DEF n
      <3> QED
        BY <3>2, <3>3
    <2> DEFINE a == k + 1
               b == k + n
               c == SubSeq(f, a, b)
    <2>2. a \in Int /\ b \in Int /\ (IF a <= b THEN b - a + 1 ELSE 0) = n /\ b - a + 1 = n
          /\ \A i \in 1..n : a + i - 1 = k + i
      BY <1>3
    <2>3. \A i \in a..b : f[i] \in S
      BY <2>1
    <2> HIDE DEF a, b
    <2>4. c \in Seq(S) /\ Len(c) = (IF a <= b THEN b - a + 1 ELSE 0)
          /\ \A i \in 1..(b - a + 1) : c[i] = f[a + i - 1]
      BY <2>2, <2>3, SubSeqProperties
    <2> HIDE DEF c
    <2>5. Len(c) = n /\ \A i \in 1..n : c[i] = p[i]
      <3>1. Len(c) = n
        BY <2>2, <2>4
      <3>2. ASSUME NEW i \in 1..n PROVE c[i] = p[i]
        <4>1. i \in 1..(b - a + 1) /\ a + i - 1 = k + i
          BY <2>2
        <4>2. c[i] = f[k + i]
          BY <2>4, <4>1
        <4> QED
          BY <1>8, <4>2
      <3> QED
        BY <3>1, <3>2
    <2>6. c = p
      BY <1>3, <2>4, <2>5, SeqEqual DEF n
    <2> QED
      BY <2>6 DEF a, b, c
  <1>10. f[1] = 2 /\ f[2] = 253
    BY <1>2, <1>6 DEF HasLength
  <1>11. Shape(f, front, k, p, len)
    BY <1>4, <1>5, <1>7, <1>9, <1>10 DEF Shape
  <1> QED
    BY <1>11 DEF f

-----------------------------------------------------------------------------
(* Questions and answers *)

\* What comes before the payload of a question and of an answer.
QuestionFront(channel, major, minor, n) ==
    Header(16 + n, channel, 1) \o <<0, 175>> \o U16(major) \o U16(minor) \o U16(n)
AnswerFront(channel, major, minor, result, n) ==
    Header(17 + n, channel, 1) \o <<1, 175>> \o U16(major) \o U16(minor) \o <<result>>
    \o U16(n)

\* What is in a front behind the header.
QuestionTail(major, minor, n) == <<0, 175>> \o U16(major) \o U16(minor) \o U16(n)
AnswerTail(major, minor, result, n) ==
    <<1, 175>> \o U16(major) \o U16(minor) \o <<result>> \o U16(n)

\* What the receiver of a question, and of an answer, finds behind the header.
AsksIn(t, major, minor, n) ==
    /\ t \in Seq(Nat) /\ Len(t) = 8
    /\ t[1] = 0 /\ t[2] = 175
    /\ t[3] = U16(major)[1] /\ t[4] = U16(major)[2]
    /\ t[5] = U16(minor)[1] /\ t[6] = U16(minor)[2]
    /\ t[7] = U16(n)[1] /\ t[8] = U16(n)[2]
SaysIn(t, major, minor, result, n) ==
    /\ t \in Seq(Nat) /\ Len(t) = 9
    /\ t[1] = 1 /\ t[2] = 175
    /\ t[3] = U16(major)[1] /\ t[4] = U16(major)[2]
    /\ t[5] = U16(minor)[1] /\ t[6] = U16(minor)[2]
    /\ t[7] = result
    /\ t[8] = U16(n)[1] /\ t[9] = U16(n)[2]

LEMMA QuestionTailBytes ==
  ASSUME NEW major \in Nat, NEW minor \in Nat, NEW n \in Nat
  PROVE  AsksIn(QuestionTail(major, minor, n), major, minor, n)
  BY DEF QuestionTail, U16, AsksIn

LEMMA AnswerTailBytes ==
  ASSUME NEW major \in Nat, NEW minor \in Nat, NEW result \in Nat, NEW n \in Nat
  PROVE  SaysIn(AnswerTail(major, minor, result, n), major, minor, result, n)
  BY DEF AnswerTail, U16, SaysIn

\* What the two ends read behind the header of a question, and of an answer.
Asks(q, major, minor, n) ==
    /\ q[12] = 175
    /\ ReadU16(q, 12) = major /\ ReadU16(q, 14) = minor /\ ReadU16(q, 16) = n
Says(q, major, minor, result, n) ==
    /\ q[12] = 175
    /\ ReadU16(q, 12) = major /\ ReadU16(q, 14) = minor
    /\ q[17] = result /\ ReadU16(q, 17) = n

\* The front of encode_request().
LEMMA QuestionFrontBytes ==
  ASSUME NEW channel \in Nat, NEW major, Short(major), NEW minor, Short(minor),
         NEW n, Short(n)
  PROVE  LET q == QuestionFront(channel, major, minor, n)
         IN  Starts(q, 18, 16 + n) /\ Asks(q, major, minor, n)
  <1>0. major \in Nat /\ minor \in Nat /\ n \in Nat
    BY DEF Short
  <1> DEFINE m == 16 + n
             h == Header(m, channel, 1)
             t == QuestionTail(major, minor, n)
             q == h \o t
  <1>1. Starts(h, 10, m)
    <2>1. m \in Nat /\ 1 \in Nat
      BY <1>0
    <2> HIDE DEF m
    <2> QED
      BY <2>1, HeaderStarts
  <1>2. /\ t \in Seq(Nat) /\ Len(t) = 8 /\ t[1] = 0 /\ t[2] = 175
        /\ t[3] = U16(major)[1] /\ t[4] = U16(major)[2]
        /\ t[5] = U16(minor)[1] /\ t[6] = U16(minor)[2]
        /\ t[7] = U16(n)[1] /\ t[8] = U16(n)[2]
    <2>1. AsksIn(t, major, minor, n)
      BY <1>0, QuestionTailBytes, Zenon
    <2> HIDE DEF t
    <2> QED
      BY <2>1 DEF AsksIn
  <1>3. QuestionFront(channel, major, minor, n) = q
    <2> DEFINE S == Nat \cup {h[10]}
    <2>1. h \in Seq(S) /\ Nat \subseteq S
      BY <1>1 DEF Starts
    <2> HIDE DEF S, h
    <2>2. QuestionFront(channel, major, minor, n) = q
      BY <2>1 DEF QuestionFront, QuestionTail, U16, h, m
    <2> QED
      BY <2>2
  <1> HIDE DEF h, t, m
  <1>4. Starts(q, 10 + Len(t), m)
    BY <1>1, <1>2, StartsOn
  <1>5. Then(q, 10, t)
    BY <1>1, <1>2, StartsOn
  <1> HIDE DEF q
  <1>6. /\ q[12] = t[2] /\ q[13] = t[3] /\ q[14] = t[4] /\ q[15] = t[5]
        /\ q[16] = t[6] /\ q[17] = t[7] /\ q[18] = t[8]
    <2>1. \A i \in 1..8 : q[10 + i] = t[i]
      BY <1>2, <1>5 DEF Then
    <2>2. /\ q[10 + 2] = t[2] /\ q[10 + 3] = t[3] /\ q[10 + 4] = t[4]
          /\ q[10 + 5] = t[5] /\ q[10 + 6] = t[6] /\ q[10 + 7] = t[7]
          /\ q[10 + 8] = t[8]
      BY <2>1
    <2> QED
      BY <2>2
  <1>7. ReadU16(q, 12) = major
    <2>1. q[12 + 1] = U16(major)[1] /\ q[12 + 2] = U16(major)[2]
      BY <1>2, <1>6
    <2> QED
      BY <2>1, TwoBytesRead
  <1>8. ReadU16(q, 14) = minor
    <2>1. q[14 + 1] = U16(minor)[1] /\ q[14 + 2] = U16(minor)[2]
      BY <1>2, <1>6
    <2> QED
      BY <2>1, TwoBytesRead
  <1>9. ReadU16(q, 16) = n
    <2>1. q[16 + 1] = U16(n)[1] /\ q[16 + 2] = U16(n)[2]
      BY <1>2, <1>6
    <2> QED
      BY <2>1, TwoBytesRead
  <1>10. Asks(q, major, minor, n)
    BY <1>2, <1>6, <1>7, <1>8, <1>9 DEF Asks
  <1> QED
    BY <1>2, <1>3, <1>4, <1>10 DEF m

\* The front of an answer.
LEMMA AnswerFrontBytes ==
  ASSUME NEW channel \in Nat, NEW major, Short(major), NEW minor, Short(minor),
         NEW result \in Nat, NEW n, Short(n)
  PROVE  LET q == AnswerFront(channel, major, minor, result, n)
         IN  Starts(q, 19, 17 + n) /\ Says(q, major, minor, result, n)
  <1>0. major \in Nat /\ minor \in Nat /\ n \in Nat
    BY DEF Short
  <1> DEFINE m == 17 + n
             h == Header(m, channel, 1)
             t == AnswerTail(major, minor, result, n)
             q == h \o t
  <1>1. Starts(h, 10, m)
    <2>1. m \in Nat /\ 1 \in Nat
      BY <1>0
    <2> HIDE DEF m
    <2> QED
      BY <2>1, HeaderStarts
  <1>2. /\ t \in Seq(Nat) /\ Len(t) = 9 /\ t[1] = 1 /\ t[2] = 175
        /\ t[3] = U16(major)[1] /\ t[4] = U16(major)[2]
        /\ t[5] = U16(minor)[1] /\ t[6] = U16(minor)[2] /\ t[7] = result
        /\ t[8] = U16(n)[1] /\ t[9] = U16(n)[2]
    <2>1. SaysIn(t, major, minor, result, n)
      BY <1>0, AnswerTailBytes, Zenon
    <2> HIDE DEF t
    <2> QED
      BY <2>1 DEF SaysIn
  <1>3. AnswerFront(channel, major, minor, result, n) = q
    <2> DEFINE S == Nat \cup {h[10]}
    <2>1. h \in Seq(S) /\ Nat \subseteq S
      BY <1>1 DEF Starts
    <2> HIDE DEF S, h
    <2>2. AnswerFront(channel, major, minor, result, n) = q
      BY <2>1 DEF AnswerFront, AnswerTail, U16, h, m
    <2> QED
      BY <2>2
  <1> HIDE DEF h, t, m
  <1>4. Starts(q, 10 + Len(t), m)
    BY <1>1, <1>2, StartsOn
  <1>5. Then(q, 10, t)
    BY <1>1, <1>2, StartsOn
  <1> HIDE DEF q
  <1>6. /\ q[12] = t[2] /\ q[13] = t[3] /\ q[14] = t[4] /\ q[15] = t[5]
        /\ q[16] = t[6] /\ q[17] = t[7] /\ q[18] = t[8] /\ q[19] = t[9]
    <2>1. \A i \in 1..9 : q[10 + i] = t[i]
      BY <1>2, <1>5 DEF Then
    <2>2. /\ q[10 + 2] = t[2] /\ q[10 + 3] = t[3] /\ q[10 + 4] = t[4]
          /\ q[10 + 5] = t[5] /\ q[10 + 6] = t[6] /\ q[10 + 7] = t[7]
          /\ q[10 + 8] = t[8] /\ q[10 + 9] = t[9]
      BY <2>1
    <2> QED
      BY <2>2
  <1>7. ReadU16(q, 12) = major
    <2>1. q[12 + 1] = U16(major)[1] /\ q[12 + 2] = U16(major)[2]
      BY <1>2, <1>6
    <2> QED
      BY <2>1, TwoBytesRead
  <1>8. ReadU16(q, 14) = minor
    <2>1. q[14 + 1] = U16(minor)[1] /\ q[14 + 2] = U16(minor)[2]
      BY <1>2, <1>6
    <2> QED
      BY <2>1, TwoBytesRead
  <1>9. ReadU16(q, 17) = n
    <2>1. q[17 + 1] = U16(n)[1] /\ q[17 + 2] = U16(n)[2]
      BY <1>2, <1>6
    <2> QED
      BY <2>1, TwoBytesRead
  <1>10. Says(q, major, minor, result, n)
    BY <1>2, <1>6, <1>7, <1>8, <1>9 DEF Says
  <1> QED
    BY <1>2, <1>3, <1>4, <1>10 DEF m

\* The mower reads what the bridge has encoded.
UnderstoodAs(f, r) == Understood(f) /\ Request(f) = r

\* The mower takes a question of encode_request() for what it is, whatever the
\* channel, the two ids and the payload.
LEMMA QuestionIsUnderstood ==
  ASSUME NEW channel \in Nat, NEW major, Short(major), NEW minor, Short(minor),
         NEW p, Fits(p)
  PROVE  UnderstoodAs(Encode(channel, major, minor, p),
                      [major |-> major, minor |-> minor, payload |-> p])
  <1> DEFINE n == Len(p)
             q == QuestionFront(channel, major, minor, n)
             len == 16 + n
             f == Encode(channel, major, minor, p)
  <1>1. p \in Seq(Nat) /\ n \in Nat /\ Short(n) /\ Short(len)
    BY RoomForMore
  <1>2. f = Sealed(q \o p)
    BY DEF Encode, QuestionFront
  <1> HIDE DEF n
  <1>3. Starts(q, 18, len) /\ Asks(q, major, minor, n)
    BY <1>1, QuestionFrontBytes
  <1> HIDE DEF q, f, len
  <1>4. Shape(f, q, 18, p, len)
    BY <1>1, <1>2, <1>3, FrameShape
  <1>5. Asks(f, major, minor, n)
    <2>1. \A i \in 1..18 : f[i] = q[i]
      BY <1>4 DEF Shape
    <2>2. /\ f[12] = q[12] /\ f[13] = q[13] /\ f[14] = q[14] /\ f[15] = q[15]
          /\ f[16] = q[16] /\ f[17] = q[17] /\ f[18] = q[18]
      BY <2>1
    <2> QED
      BY <1>3, <2>2 DEF Asks, ReadU16
  <1>6. /\ Len(f) = 20 + n /\ f[1] = 2 /\ f[2] = 253 /\ ReadU16(f, 2) = 16 + n
        /\ SubSeq(f, 19, 18 + n) = p
    BY <1>1, <1>4 DEF Shape, n, len
  <1>7. /\ f[10] = Crc(SubSeq(f, 2, 9)) /\ f[Len(f)] = 3
        /\ f[Len(f) - 1] = Crc(SubSeq(f, 2, Len(f) - 2))
    BY <1>4 DEF Shape, Framed
  <1>8. Understood(f)
    <2>1. Len(f) >= 20 /\ ReadU16(f, 2) + 4 = Len(f) /\ Len(f) = 20 + ReadU16(f, 16)
      BY <1>1, <1>5, <1>6 DEF Asks
    <2>2. f[12] = 175
      BY <1>5 DEF Asks
    <2> QED
      BY <1>6, <1>7, <2>1, <2>2, Zenon DEF Understood
  <1>9. Request(f) = [major |-> major, minor |-> minor, payload |-> p]
    BY <1>5, <1>6, Zenon DEF Request, Asks
  <1> QED
    BY <1>8, <1>9 DEF UnderstoodAs, f

\* A whole frame: what the length rule of the notifications needs of it.
Whole(f) == /\ f \in Seq(Elements(f)) /\ Len(f) >= 12
            /\ f[1] = 2 /\ f[2] = 253 /\ Expected(f) \in Nat /\ Expected(f) >= Len(f)

\* What the bridge decodes is what the mower has said, and the length rule of
\* the notifications gives the length of the answer.
Read(f, r) == /\ Decodes(f) /\ Decoded(f) = r
              /\ Whole(f) /\ Expected(f) = Len(f)

\* decode_response() gives what the mower said, whatever it said.
LEMMA AnswerIsDecoded ==
  ASSUME NEW channel \in Nat, NEW major, Short(major), NEW minor, Short(minor),
         NEW result \in Nat, NEW p, Fits(p)
  PROVE  Read(Answer(channel, major, minor, result, p),
              [major |-> major, minor |-> minor, result |-> result, payload |-> p])
  <1> DEFINE n == Len(p)
             q == AnswerFront(channel, major, minor, result, n)
             len == 17 + n
             f == Answer(channel, major, minor, result, p)
  <1>1. p \in Seq(Nat) /\ n \in Nat /\ Short(n) /\ Short(len)
    BY RoomForMore
  <1>2. f = Sealed(q \o p)
    BY DEF Answer, AnswerFront
  <1> HIDE DEF n
  <1>3. Starts(q, 19, len) /\ Says(q, major, minor, result, n)
    BY <1>1, AnswerFrontBytes
  <1> HIDE DEF q, f, len
  <1>4. Shape(f, q, 19, p, len)
    BY <1>1, <1>2, <1>3, FrameShape
  <1>5. Says(f, major, minor, result, n)
    <2>1. \A i \in 1..19 : f[i] = q[i]
      BY <1>4 DEF Shape
    <2>2. /\ f[12] = q[12] /\ f[13] = q[13] /\ f[14] = q[14] /\ f[15] = q[15]
          /\ f[16] = q[16] /\ f[17] = q[17] /\ f[18] = q[18] /\ f[19] = q[19]
      BY <2>1
    <2> QED
      BY <1>3, <2>2 DEF Says, ReadU16
  <1>6. /\ Len(f) = 21 + n /\ f[1] = 2 /\ f[2] = 253 /\ ReadU16(f, 2) = 17 + n
        /\ SubSeq(f, 20, 19 + n) = p
    BY <1>1, <1>4 DEF Shape, n, len
  <1>7. f[10] = Crc(SubSeq(f, 2, 9)) /\ f[Len(f)] = 3 /\ f \in Seq(Elements(f))
    BY <1>4 DEF Shape, Framed
  <1>8. Decodes(f)
    <2>1. Len(f) >= 21 /\ ReadU16(f, 2) + 4 = Len(f) /\ Len(f) = 21 + ReadU16(f, 17)
      BY <1>1, <1>5, <1>6 DEF Says
    <2> QED
      BY <1>6, <1>7, <2>1, Zenon DEF Decodes
  <1>9. Decoded(f) = [major |-> major, minor |-> minor, result |-> result, payload |-> p]
    BY <1>5, <1>6, Zenon DEF Decoded, Says
  <1>10. Expected(f) = Len(f)
    <2>1. f[12] = 175
      BY <1>5 DEF Says
    <2> QED
      BY <1>1, <1>6, <2>1 DEF Expected
  <1>11. Whole(f)
    BY <1>1, <1>6, <1>7, <1>10 DEF Whole
  <1> QED
    BY <1>8, <1>9, <1>10, <1>11 DEF Read, f

-----------------------------------------------------------------------------
(* Echoes *)

\* A frame of the link with the bytes t, as the mower sends it back.
Echoed(f, t) ==
    /\ f \in Seq(Elements(f)) /\ Len(f) = 12 + Len(t)
    /\ f[1] = 2 /\ f[2] = 253 /\ ReadU16(f, 2) = 10 + Len(t)
    /\ \A i \in 1..Len(t) : f[10 + i] = t[i]

\* A frame of the link comes back with a length of its own rule.
LEMMA EchoShape ==
  ASSUME NEW len, Short(len), NEW channel \in Nat, NEW t, Fits(t)
  PROVE  Echoed(Echo(Sealed(Header(len, channel, 0) \o t)), t)
  <1> DEFINE n == Len(t)
             h == Header(len, channel, 0)
             g == Sealed(h \o t)
             m == 10 + n
             o == <<2, 253>> \o U16(m) \o SubSeq(g, 5, 9)
             k == Append(o, Crc(Tail(o)))
             f == Echo(g)
  <1>1. t \in Seq(Nat) /\ n \in Nat /\ m \in Nat /\ Short(m)
    BY RoomForMore
  <1>0. len \in Nat /\ 0 \in Nat
    BY DEF Short
  <1>2. /\ Starts(h, 10, len)
        /\ \A i \in 1..9 : h[i] = Opening(len, channel, 0)[i]
    BY <1>0, HeaderStarts, Zenon
  <1>3. Opening(len, channel, 0) \in Seq(Nat) /\ Len(Opening(len, channel, 0)) = 9
    BY <1>0, OpeningBytes, Zenon
  <1> HIDE DEF h, n
  <1>4. Shape(g, h, 10, t, len)
    BY <1>1, <1>2, FrameShape
  <1> HIDE DEF g
  <1>5. /\ Len(g) = 10 + n + 2 /\ \A i \in 1..10 : g[i] = h[i]
        /\ SubSeq(g, 10 + 1, 10 + n) = t
    BY <1>4 DEF Shape, n
  <1>6. SubSeq(g, 5, 9) \in Seq(Nat) /\ Len(SubSeq(g, 5, 9)) = 5
    <2>1. \A i \in 5..9 : g[i] \in Nat
      <3> TAKE i \in 5..9
      <3>1. i \in 1..9 /\ i \in 1..10
        OBVIOUS
      <3>2. Opening(len, channel, 0)[i] \in Nat
        BY <1>3, <3>1, ElementOfSeq
      <3> QED
        BY <1>2, <1>5, <3>1, <3>2
    <2> QED
      BY <2>1, SubSeqProperties
  <1>7. o \in Seq(Nat) /\ Len(o) = 9 /\ HasLength(o, m)
    <2> DEFINE e == SubSeq(g, 5, 9)
    <2>1. e \in Seq(Nat) /\ Len(e) = 5
      BY <1>6
    <2> HIDE DEF e, m
    <2> DEFINE x == <<2, 253>>
               u == U16(m)
               xu == x \o u
    <2>2. x \in Seq(Nat) /\ Len(x) = 2 /\ x[1] = 2 /\ x[2] = 253
      OBVIOUS
    <2>3. u \in Seq(Nat) /\ Len(u) = 2
      BY <1>1, TwoBytes
    <2> HIDE DEF x, u
    <2>4. xu \in Seq(Nat) /\ Joined(xu, x, u)
      BY <2>2, <2>3, Joining
    <2> HIDE DEF xu
    <2>5. Len(xu) = 4 /\ xu[1] = 2 /\ xu[2] = 253 /\ xu[3] = u[1] /\ xu[4] = u[2]
      <3>1. /\ \A i \in 1..2 : xu[i] = x[i]
            /\ \A i \in 1..2 : xu[2 + i] = u[i]
        BY <2>2, <2>3, <2>4 DEF Joined
      <3>2. xu[2 + 1] = u[1] /\ xu[2 + 2] = u[2]
        BY <3>1
      <3> QED
        BY <2>2, <2>3, <2>4, <3>1, <3>2 DEF Joined
    <2>6. o = xu \o e
      BY DEF xu, x, u, e
    <2> HIDE DEF o
    <2>7. o \in Seq(Nat) /\ Joined(o, xu, e)
      BY <2>1, <2>4, <2>6, Joining
    <2>8. Len(o) = 9 /\ \A i \in 1..4 : o[i] = xu[i]
      BY <2>1, <2>5, <2>7 DEF Joined
    <2>9. HasLength(o, m)
      BY <2>5, <2>8 DEF HasLength, u
    <2> QED
      BY <2>7, <2>8, <2>9
  <1> HIDE DEF m, o
  <1>8. Starts(k, 10, m)
    BY <1>7, OpeningStarts
  <1> HIDE DEF k
  <1>9. f = Sealed(k \o t)
    <2>1. Len(g) - 2 = m /\ SubSeq(g, 11, Len(g) - 2) = t
      BY <1>1, <1>5 DEF m
    <2> QED
      BY <2>1 DEF Echo, o, k
  <1> HIDE DEF f
  <1>10. Shape(f, k, 10, t, m)
    BY <1>1, <1>8, <1>9, FrameShape
  <1>11. /\ f[1] = 2 /\ f[2] = 253 /\ ReadU16(f, 2) = m /\ Len(f) = 12 + n
    BY <1>1, <1>10 DEF Shape, n
  <1>12. f \in Seq(Elements(f)) /\ \A i \in 1..Len(t) : f[10 + i] = t[i]
    BY <1>8, <1>10 DEF Shape, Framed, Starts
  <1> QED
    BY <1>11, <1>12 DEF Echoed, f, g, h, m, n

\* Phase 1 of the handshake: byte 11 of the echo is the low byte of the channel.
LEMMA ChannelSetupEcho ==
  ASSUME NEW channel \in Nat
  PROVE  LET f == Echo(ChannelSetup(channel))
         IN  /\ Whole(f)
             /\ channel % 256 # 175 => Expected(f) = Len(f)
             /\ channel % 256 = 175 => Expected(f) > Len(f)
  <1> DEFINE t == <<20>> \o U32(channel) \o U32(0) \o <<77, 97, 105, 110, 0>>
             h == Header(22, 0, 0)
             f == Echo(ChannelSetup(channel))
  <1>1. t \in Seq(Nat) /\ Len(t) = 14 /\ t[2] = channel % 256
    <2>0. 0 \in Nat
      OBVIOUS
    <2>1. FourOf(U32(channel), channel) /\ FourOf(U32(0), 0)
      BY <2>0, FourBytes, Zenon
    <2> DEFINE a == U32(channel)
               b == U32(0)
               x == <<20>>
               y == <<77, 97, 105, 110, 0>>
               xa == x \o a
               xab == xa \o b
    <2>2. /\ a \in Seq(Nat) /\ Len(a) = 4 /\ a[1] = channel % 256
          /\ b \in Seq(Nat) /\ Len(b) = 4
      BY <2>1 DEF FourOf
    <2>3. x \in Seq(Nat) /\ Len(x) = 1 /\ y \in Seq(Nat) /\ Len(y) = 5
      OBVIOUS
    <2>4. t = xab \o y
      OBVIOUS
    <2> HIDE DEF a, b, x, y, t
    <2>5. xa \in Seq(Nat) /\ Joined(xa, x, a)
      BY <2>2, <2>3, Joining
    <2> HIDE DEF xa
    <2>6. Len(xa) = 5 /\ xa[2] = a[1]
      <3>1. \A i \in 1..4 : xa[1 + i] = a[i]
        BY <2>2, <2>3, <2>5 DEF Joined
      <3>2. xa[1 + 1] = a[1]
        BY <3>1
      <3> QED
        BY <2>2, <2>3, <2>5, <3>2 DEF Joined
    <2>7. xab \in Seq(Nat) /\ Joined(xab, xa, b)
      BY <2>2, <2>5, Joining
    <2> HIDE DEF xab
    <2>8. Len(xab) = 9 /\ xab[2] = xa[2]
      BY <2>2, <2>6, <2>7 DEF Joined
    <2>9. t \in Seq(Nat) /\ Joined(t, xab, y)
      BY <2>3, <2>4, <2>7, Joining
    <2>10. Len(t) = 14 /\ t[2] = xab[2]
      BY <2>3, <2>8, <2>9 DEF Joined
    <2> QED
      BY <2>2, <2>6, <2>8, <2>9, <2>10
  <1>2. ChannelSetup(channel) = Sealed(h \o t)
    <2> DEFINE S == Nat \cup {h[10]}
    <2>1. h \in Seq(S) /\ Nat \subseteq S
      BY HeaderStarts DEF Starts
    <2> HIDE DEF S, h
    <2>2. ChannelSetup(channel) = Sealed(h \o t)
      <3> DEFINE a == U32(channel)
                 b == U32(0)
                 x == <<20>>
                 y == <<77, 97, 105, 110, 0>>
      <3>1. 0 \in Nat /\ x \in Seq(Nat) /\ y \in Seq(Nat)
        OBVIOUS
      <3>2. a \in Seq(Nat) /\ b \in Seq(Nat)
        BY <3>1, FourBytes DEF FourOf
      <3> HIDE DEF a, b, x, y
      <3>3. a \in Seq(S) /\ b \in Seq(S) /\ x \in Seq(S) /\ y \in Seq(S)
        BY <2>1, <3>1, <3>2, SeqsGrow, Zenon
      <3>5. h \o x \o a \o b \o y = h \o (x \o a \o b \o y)
        <4>1. AllIn(S, h, x, a, b, y)
          BY <2>1, <3>3 DEF AllIn
        <4> QED
          BY <4>1, AllTogether
      <3> QED
        BY <3>5 DEF ChannelSetup, a, b, h, x, y
    <2> QED
      BY <2>2
  <1> HIDE DEF t
  <1>3. Fits(t) /\ Short(22)
    BY <1>1 DEF Fits, Short
  <1>4. Echoed(f, t)
    BY <1>2, <1>3, EchoShape, Zenon
  <1> HIDE DEF f
  <1>5. /\ f \in Seq(Elements(f)) /\ Len(f) = 26 /\ f[1] = 2 /\ f[2] = 253
        /\ ReadU16(f, 2) = 24 /\ \A i \in 1..14 : f[10 + i] = t[i]
    BY <1>1, <1>4 DEF Echoed
  <1>6. f[10 + 2] = t[2]
    BY <1>5
  <1>7. Expected(f) = 24 + IF channel % 256 = 175 THEN 4 ELSE 2
    <2>1. f[12] = channel % 256
      BY <1>1, <1>6
    <2>2. Expected(f) = ReadU16(f, 2) + IF f[12] = 175 THEN 4 ELSE 2
      BY DEF Expected
    <2>3. ReadU16(f, 2) = 24
      BY <1>5
    <2> QED
      BY <2>1, <2>2, <2>3
  <1>8. Whole(f)
    BY <1>5, <1>7 DEF Whole
  <1> QED
    BY <1>5, <1>7, <1>8 DEF f

\* Phase 2 of the handshake: byte 11 of the echo is 1.
LEMMA HandshakeEcho ==
  ASSUME NEW channel \in Nat
  PROVE  LET f == Echo(HandshakeFrame(channel))
         IN  Whole(f) /\ Expected(f) = Len(f)
  <1> DEFINE t == <<8, 1>>
             f == Echo(HandshakeFrame(channel))
  <1>1. t \in Seq(Nat) /\ Len(t) = 2 /\ t[2] = 1
    OBVIOUS
  <1>2. HandshakeFrame(channel) = Sealed(Header(10, channel, 0) \o t)
    BY DEF HandshakeFrame
  <1> HIDE DEF t
  <1>3. Fits(t) /\ Short(10)
    BY <1>1 DEF Fits, Short
  <1>4. Echoed(f, t)
    BY <1>2, <1>3, EchoShape, Zenon
  <1> HIDE DEF f
  <1>5. /\ f \in Seq(Elements(f)) /\ Len(f) = 14 /\ f[1] = 2 /\ f[2] = 253
        /\ ReadU16(f, 2) = 12 /\ \A i \in 1..2 : f[10 + i] = t[i]
    BY <1>1, <1>4 DEF Echoed
  <1>6. f[10 + 2] = t[2]
    BY <1>5
  <1>7. Expected(f) = 14
    BY <1>1, <1>5, <1>6 DEF Expected
  <1>8. Whole(f)
    BY <1>5, <1>7 DEF Whole
  <1> QED
    BY <1>5, <1>7, <1>8 DEF f

-----------------------------------------------------------------------------
(* Entries of the schedule *)

\* Entries of the schedule.
Entries == [start : Nat, duration : Nat, use_on : [1..7 -> BOOLEAN]]

\* decode_task() of the payload of add_task(), whatever follows it.
LEMMA EntryIsDecoded ==
  ASSUME NEW t \in Entries, Long(t.start), Long(t.duration), NEW more \in Seq(Nat)
  PROVE  LET p == TaskPayload(t) \o more
         IN  p \in Seq(Nat) /\ Len(p) = 15 + Len(more)
             /\ TaskDecodes(p) /\ DecodeTask(p) = t
  <1> DEFINE a == U32(t.start)
             b == U32(t.duration)
             d == [i \in 1..7 |-> IF t.use_on[i] THEN 1 ELSE 0]
             p == TaskPayload(t) \o more
  <1>1. t.start \in Nat /\ t.duration \in Nat /\ t.use_on \in [1..7 -> BOOLEAN]
        /\ t = [start |-> t.start, duration |-> t.duration, use_on |-> t.use_on]
    BY DEF Entries
  <1>2. FourOf(a, t.start) /\ FourOf(b, t.duration)
    BY <1>1, FourBytes, Zenon
  <1>3. d \in Seq(Nat) /\ Len(d) = 7
    <2>1. d \in [1..7 -> Nat]
      OBVIOUS
    <2>2. 7 \in Nat
      OBVIOUS
    <2> HIDE DEF d
    <2> QED
      BY <2>1, <2>2, FunctionsAreSequences, Zenon
  <1>4. \A i \in 1..7 : d[i] = IF t.use_on[i] THEN 1 ELSE 0
    OBVIOUS
  <1>5. p = a \o b \o d \o more
    BY DEF TaskPayload
  <1> HIDE DEF a, b, d, p
  <1>6. /\ a \in Seq(Nat) /\ Len(a) = 4 /\ b \in Seq(Nat) /\ Len(b) = 4
    BY <1>2 DEF FourOf
  <1> DEFINE front == a \o b
             tail == d \o more
  <1>7. front \in Seq(Nat) /\ Joined(front, a, b)
    BY <1>6, Joining
  <1>8. tail \in Seq(Nat) /\ Joined(tail, d, more)
    BY <1>3, Joining
  <1>9. p = front \o tail
    <2> DEFINE q == a \o b
    <2>1. q \in Seq(Nat)
      BY <1>7
    <2>2. p = q \o d \o more
      BY <1>5
    <2> HIDE DEF q
    <2>3. q \o d \o more = q \o (d \o more)
      <3>1. q \in Seq(Nat) /\ d \in Seq(Nat) /\ more \in Seq(Nat)
        BY <1>3, <2>1
      <3> QED
        BY <3>1
    <2>4. p = q \o (d \o more)
      BY <2>2, <2>3
    <2> QED
      BY <2>4 DEF q
  <1> HIDE DEF front, tail
  <1>20. p \in Seq(Nat) /\ Joined(p, front, tail)
    BY <1>7, <1>8, <1>9, Joining
  <1>21. /\ Len(front) = 8
         /\ \A i \in 1..4 : front[i] = a[i]
         /\ \A i \in 1..4 : front[4 + i] = b[i]
    BY <1>6, <1>7 DEF Joined
  <1>22. /\ Len(tail) = 7 + Len(more) /\ Len(more) \in Nat
         /\ \A i \in 1..7 : tail[i] = d[i]
    BY <1>3, <1>8 DEF Joined
  <1>23. /\ Len(p) = 15 + Len(more)
         /\ \A i \in 1..8 : p[i] = front[i]
         /\ \A i \in 1..7 : p[8 + i] = tail[i]
    BY <1>20, <1>21, <1>22 DEF Joined
  <1>24. /\ p[1] = a[1] /\ p[2] = a[2] /\ p[3] = a[3] /\ p[4] = a[4]
         /\ p[5] = b[1] /\ p[6] = b[2] /\ p[7] = b[3] /\ p[8] = b[4]
    <2>1. /\ front[4 + 1] = b[1] /\ front[4 + 2] = b[2]
          /\ front[4 + 3] = b[3] /\ front[4 + 4] = b[4]
      BY <1>21
    <2> QED
      BY <1>21, <1>23, <2>1
  <1>10. ASSUME NEW i \in 1..7 PROVE p[8 + i] = IF t.use_on[i] THEN 1 ELSE 0
    <2>1. p[8 + i] = d[i]
      BY <1>22, <1>23
    <2> QED
      BY <1>4, <2>1
  <1>11. ReadU32(p, 0) = t.start
    <2>1. /\ p[0 + 1] = U32(t.start)[1] /\ p[0 + 2] = U32(t.start)[2]
          /\ p[0 + 3] = U32(t.start)[3] /\ p[0 + 4] = U32(t.start)[4]
      BY <1>24 DEF a
    <2> QED
      BY <2>1, FourBytesRead
  <1>12. ReadU32(p, 4) = t.duration
    <2>1. /\ p[4 + 1] = U32(t.duration)[1] /\ p[4 + 2] = U32(t.duration)[2]
          /\ p[4 + 3] = U32(t.duration)[3] /\ p[4 + 4] = U32(t.duration)[4]
      BY <1>24 DEF b
    <2> QED
      BY <2>1, FourBytesRead
  <1>13. [i \in 1..7 |-> p[8 + i] # 0] = t.use_on
    <2>1. ASSUME NEW i \in 1..7 PROVE (p[8 + i] # 0) = t.use_on[i]
      <3>1. t.use_on[i] \in BOOLEAN
        BY <1>1, Zenon
      <3>2. CASE t.use_on[i]
        <4>1. p[8 + i] # 0
          BY <1>10, <3>2
        <4> QED
          BY <3>1, <3>2, <4>1, Zenon
      <3>3. CASE ~t.use_on[i]
        <4>1. p[8 + i] = 0
          BY <1>10, <3>3
        <4> QED
          BY <3>1, <3>3, <4>1, Zenon
      <3> QED
        BY <3>2, <3>3
    <2> QED
      BY <1>1, <2>1, Zenon
  <1>14. DecodeTask(p) = t
    BY <1>1, <1>11, <1>12, <1>13, Zenon DEF DecodeTask
  <1>15. TaskDecodes(p)
    BY <1>22, <1>23 DEF TaskDecodes
  <1> QED
    BY <1>20, <1>23, <1>14, <1>15 DEF p

\* The entries of the schedule there are.
LEMMA TaskIsDecoded ==
  ASSUME NEW t \in Tasks, NEW more \in Appended
  PROVE  /\ Fits(TaskPayload(t) \o more) /\ TaskDecodes(TaskPayload(t) \o more)
         /\ DecodeTask(TaskPayload(t) \o more) = t
  <1>1. t \in Entries /\ Long(t.start) /\ Long(t.duration)
    BY StreamConstants DEF Entries, Long
  <1>2. more \in Seq(Nat) /\ Len(more) <= 2 /\ Len(more) \in Nat
    <2>1. CASE more = << >>
      BY <2>1
    <2>2. CASE more = <<1, 3>>
      BY <2>2
    <2> QED
      BY <2>1, <2>2 DEF Appended
  <1> DEFINE p == TaskPayload(t) \o more
  <1>3. p \in Seq(Nat) /\ Len(p) = 15 + Len(more) /\ TaskDecodes(p) /\ DecodeTask(p) = t
    BY <1>1, <1>2, EntryIsDecoded, Zenon
  <1> HIDE DEF p
  <1>4. Fits(p)
    BY <1>2, <1>3 DEF Fits
  <1> QED
    BY <1>3, <1>4 DEF p

\* The entry add_task() sends, and nothing behind it.
LEMMA PlainTaskIsDecoded ==
  ASSUME NEW t \in Tasks
  PROVE  Fits(TaskPayload(t)) /\ DecodeTask(TaskPayload(t)) = t
  <1>1. TaskPayload(t) \o << >> = TaskPayload(t)
    <2> DEFINE d == [i \in 1..7 |-> IF t.use_on[i] THEN 1 ELSE 0]
    <2>1. t \in Entries
      BY StreamConstants DEF Entries
    <2>2. FourOf(U32(t.start), t.start) /\ FourOf(U32(t.duration), t.duration)
      BY <2>1, FourBytes DEF Entries
    <2>3. d \in Seq(Nat)
      <3>1. d \in [1..7 -> Nat] /\ 7 \in Nat
        OBVIOUS
      <3> HIDE DEF d
      <3> QED
        BY <3>1, FunctionsAreSequences, Zenon
    <2>4. TaskPayload(t) = U32(t.start) \o U32(t.duration) \o d
      BY DEF TaskPayload
    <2> HIDE DEF d
    <2>5. TaskPayload(t) \in Seq(Nat)
      BY <2>2, <2>3, <2>4 DEF FourOf
    <2> QED
      BY <2>5
  <1>2. << >> \in Appended
    BY DEF Appended
  <1> QED
    BY <1>1, <1>2, TaskIsDecoded

-----------------------------------------------------------------------------
(* Notifications *)

\* The part of a frame that has come is complete when all of it has come.
LEMMA CompleteWhenWhole ==
  ASSUME NEW S, NEW b \in Seq(S), NEW w \in Seq(S), Whole(b \o w)
  PROVE  /\ IsComplete(b) => w = << >> /\ Expected(b) = Len(b)
         /\ w = << >> => (IsComplete(b) <=> Expected(b) = Len(b))
         /\ w = << >> => b \o w = b
  <1> DEFINE f == b \o w
  <1>1. f \in Seq(S) /\ Joined(f, b, w)
    BY Joining
  <1> HIDE DEF f
  <1>2. Len(b) \in Nat /\ Len(w) \in Nat /\ Len(f) = Len(b) + Len(w)
    BY <1>1 DEF Joined
  <1>3. /\ Len(f) >= 12 /\ f[1] = 2 /\ f[2] = 253
        /\ Expected(f) \in Nat /\ Expected(f) >= Len(f)
    BY DEF Whole, f
  <1>4. ASSUME Len(b) >= 12
        PROVE  b[1] = 2 /\ b[2] = 253 /\ Expected(b) = Expected(f)
    <2>1. \A i \in 1..Len(b) : f[i] = b[i]
      BY <1>1 DEF Joined
    <2>2. /\ 1 \in 1..Len(b) /\ 2 \in 1..Len(b) /\ 3 \in 1..Len(b) /\ 4 \in 1..Len(b)
          /\ 12 \in 1..Len(b)
      BY <1>2, <1>4
    <2>3. b[1] = f[1] /\ b[2] = f[2] /\ b[3] = f[3] /\ b[4] = f[4] /\ b[12] = f[12]
      BY <2>1, <2>2
    <2> QED
      BY <1>3, <2>3 DEF Expected, ReadU16
  <1>5. IsComplete(b) => Len(w) = 0 /\ Expected(b) = Len(b)
    <2>1. HAVE IsComplete(b)
    <2>2. Len(b) >= 12 /\ Len(b) >= Expected(b)
      BY <2>1 DEF IsComplete
    <2> QED
      BY <1>2, <1>3, <1>4, <2>2
  <1>6. w = << >> => (IsComplete(b) <=> Expected(b) = Len(b))
    <2>1. HAVE w = << >>
    <2>2. Len(b) = Len(f) /\ Len(b) >= 12
      BY <1>2, <1>3, <2>1
    <2> QED
      BY <1>2, <1>3, <1>4, <2>2 DEF IsComplete
  <1>7. Len(w) = 0 => w = << >>
    OBVIOUS
  <1>8. w = << >> => b \o w = b
    OBVIOUS
  <1> QED
    BY <1>5, <1>6, <1>7, <1>8

\* A frame of which nothing has come.
LEMMA FreshFrame ==
  ASSUME NEW f, Whole(f)
  PROVE  /\ << >> \o f = f /\ << >> \in Seq(Elements(f)) /\ f \in Seq(Elements(f))
         /\ ~IsComplete(<< >>)
  <1>1. f \in Seq(Elements(f))
    BY DEF Whole
  <1>2. << >> \o f = f /\ << >> \in Seq(Elements(f)) /\ Len(<< >>) = 0
    BY <1>1
  <1> QED
    BY <1>1, <1>2 DEF IsComplete

-----------------------------------------------------------------------------
(* The inductive invariant *)

\* What has come and what is on its way are one frame, and the semaphore says
\* whether all of it has come.
Carried == /\ Whole(buf \o wire)
           /\ buf \in Seq(Elements(buf \o wire)) /\ wire \in Seq(Elements(buf \o wire))
           /\ ready <=> IsComplete(buf)

\* The frame is the answer of the mower, or the echo of a link frame: one whose
\* length the rule gives, or the one of phase 1 with 175 in the channel.
Promised ==
    \/ /\ asked.kind # "link" /\ Read(buf \o wire, answer)
       /\ asked.kind = "get" => /\ TaskDecodes(answer.payload)
                                /\ DecodeTask(answer.payload) = asked.task
    \/ /\ asked.kind = "link"
       /\ \/ Expected(buf \o wire) = Len(buf \o wire)
          \/ asked.channel % 256 = 175 /\ Expected(buf \o wire) # Len(buf \o wire)

\* The inductive invariant.  Nothing is promised of a damaged answer.
IInv ==
    /\ RequestIsUnderstood
    /\ ready \in BOOLEAN /\ damaged \in BOOLEAN
    /\ asked = Nothing => wire = << >> /\ ~ready
    /\ asked # Nothing => asked.kind # "nothing"
    /\ asked # Nothing /\ ~damaged => Carried /\ Promised

LEMMA InitHolds == Init => IInv
  <1> SUFFICES ASSUME Init PROVE IInv
    OBVIOUS
  <1>1. asked = Nothing /\ wire = << >> /\ damaged = FALSE /\ ready = FALSE
    BY DEF Init
  <1>2. asked.kind = "nothing"
    BY <1>1 DEF Nothing
  <1>3. RequestIsUnderstood
    BY <1>2 DEF RequestIsUnderstood
  <1> QED
    BY <1>1, <1>3 DEF IInv

\* The ids and the payloads of the three questions.
LEMMA Small == /\ Short(4690) /\ Short(4586) /\ Short(7) /\ Short(5) /\ Short(2)
               /\ Fits(<< >>) /\ Fits(<<175>>) /\ Fits(U32(2))
  <1>1. Short(4690) /\ Short(4586) /\ Short(7) /\ Short(5) /\ Short(2)
    BY DEF Short
  <1>2. Fits(<< >>) /\ Fits(<<175>>)
    BY DEF Fits
  <1>3. Fits(U32(2))
    <2> DEFINE w == U32(2)
    <2>1. FourOf(w, 2)
      BY FourBytes
    <2> HIDE DEF w
    <2>2. w \in Seq(Nat) /\ Len(w) = 4
      BY <2>1 DEF FourOf
    <2>3. Fits(w)
      BY <2>2 DEF Fits
    <2> QED
      BY <2>3 DEF w
  <1> QED
    BY <1>1, <1>2, <1>3

\* A question whose task and answer fit into a frame leaves the invariant true.
LEMMA RequestHolds ==
  ASSUME NEW kind \in {"add", "get", "query"}, NEW ch \in Nat, NEW task,
         NEW major, Short(major), NEW minor, Short(minor), NEW p, Fits(p),
         NEW res \in Nat, NEW q, Fits(q),
         kind = "add" => DecodeTask(p) = task,
         kind = "get" => TaskDecodes(q) /\ DecodeTask(q) = task,
         Send(Question(kind, ch, task), Encode(ch, major, minor, p),
              Reply(major, minor, res, q), AnswerBytes(ch, Reply(major, minor, res, q)))
  PROVE  IInv'
  <1> DEFINE r == Reply(major, minor, res, q)
             f == AnswerBytes(ch, r)
             e == Encode(ch, major, minor, p)
  <1>1. /\ asked' = [kind |-> kind, channel |-> ch, task |-> task, frame |-> e]
        /\ answer' = r /\ wire' = f
        /\ buf' = << >> /\ ready' = FALSE /\ damaged' = FALSE
    <2> HIDE DEF r, f, e
    <2>1. Send(Question(kind, ch, task), e, r, f)
      BY DEF r, f, e
    <2> QED
      BY <2>1 DEF Send, Question
  <1>2. r = [major |-> major, minor |-> minor, result |-> res, payload |-> q]
    BY DEF Reply
  <1>3. Read(f, r)
    <2>1. f = Answer(ch, major, minor, res, q)
      BY DEF AnswerBytes, Reply
    <2> HIDE DEF f, r
    <2> QED
      BY <1>2, <2>1, AnswerIsDecoded, Zenon
  <1>4. /\ Understood(e)
        /\ Request(e) = [major |-> major, minor |-> minor, payload |-> p]
    <2>1. UnderstoodAs(e, [major |-> major, minor |-> minor, payload |-> p])
      BY QuestionIsUnderstood, Zenon
    <2> QED
      BY <2>1, Zenon DEF UnderstoodAs
  <1> HIDE DEF r, f, e
  <1>5. asked'.kind = kind /\ asked'.frame = e /\ asked'.task = task
    BY <1>1
  <1>6. RequestIsUnderstood'
    <2>1. Request(e).major = major /\ Request(e).minor = minor /\ Request(e).payload = p
      BY <1>4
    <2>2. answer'.major = major /\ answer'.minor = minor
      BY <1>1, <1>2
    <2> QED
      BY <1>4, <1>5, <2>1, <2>2 DEF RequestIsUnderstood
  <1>7. asked' # Nothing /\ asked'.kind # "nothing" /\ asked'.kind # "link"
    BY <1>5 DEF Nothing
  <1>8. Whole(f)
    BY <1>3 DEF Read
  <1>9. (buf \o wire)' = f
    BY <1>1, <1>8, FreshFrame
  <1>10. Carried'
    BY <1>1, <1>8, <1>9, FreshFrame DEF Carried
  <1>11. Promised'
    <2>1. answer'.payload = q
      BY <1>1, <1>2
    <2>2. Read(f, answer')
      BY <1>1, <1>3
    <2> QED
      BY <1>5, <1>7, <1>9, <2>1, <2>2 DEF Promised
  <1> QED
    BY <1>1, <1>6, <1>7, <1>10, <1>11 DEF IInv

\* So does a frame of the link.
LEMMA LinkHolds ==
  ASSUME NEW ch \in Nat, NEW e, Whole(Echo(e)),
         \/ Expected(Echo(e)) = Len(Echo(e))
         \/ ch % 256 = 175 /\ Expected(Echo(e)) # Len(Echo(e)),
         Send(Question("link", ch, Nothing), e, Nothing, Echo(e))
  PROVE  IInv'
  <1> DEFINE f == Echo(e)
  <1>1. /\ asked' = [kind |-> "link", channel |-> ch, task |-> Nothing, frame |-> e]
        /\ wire' = f
        /\ buf' = << >> /\ ready' = FALSE /\ damaged' = FALSE
    <2> HIDE DEF f
    <2>1. Send(Question("link", ch, Nothing), e, Nothing, f)
      BY DEF f
    <2> QED
      BY <2>1 DEF Send, Question
  <1>2. /\ Whole(f)
        /\ \/ Expected(f) = Len(f)
           \/ ch % 256 = 175 /\ Expected(f) # Len(f)
    OBVIOUS
  <1> HIDE DEF f
  <1>3. asked'.kind = "link" /\ asked'.channel = ch /\ asked' # Nothing
    BY <1>1 DEF Nothing
  <1>4. (buf \o wire)' = f
    BY <1>1, <1>2, FreshFrame
  <1>5. Carried'
    BY <1>1, <1>2, <1>4, FreshFrame DEF Carried
  <1>6. Promised'
    BY <1>2, <1>3, <1>4 DEF Promised
  <1>7. RequestIsUnderstood'
    BY <1>3 DEF RequestIsUnderstood
  <1> QED
    BY <1>1, <1>3, <1>5, <1>6, <1>7 DEF IInv

\* A notification of an answer that was not damaged: what has come and what is on
\* its way stay the same frame, also when the buffer is cut to its length.
LEMMA ReceiveHolds ==
  ASSUME IInv, Receive, ~damaged
  PROVE  Carried' /\ (buf \o wire)' = buf \o wire
  <1>1. PICK n \in Chunks :
          LET k    == IF n < Len(wire) THEN n ELSE Len(wire)
              got  == buf \o SubSeq(wire, 1, k)
              done == IsComplete(got)
          IN  /\ wire' = SubSeq(wire, k + 1, Len(wire))
              /\ buf' = IF done THEN SubSeq(got, 1, Expected(got)) ELSE got
              /\ ready' = (ready \/ done)
    BY DEF Receive
  <1>2. wire # << >>
    BY DEF Receive
  <1>3. asked # Nothing
    BY <1>2 DEF IInv
  <1> DEFINE f   == buf \o wire
             S   == Elements(f)
             k   == IF n < Len(wire) THEN n ELSE Len(wire)
             one == SubSeq(wire, 1, k)
             two == SubSeq(wire, k + 1, Len(wire))
             got == buf \o one
  <1>4. /\ Whole(f) /\ buf \in Seq(S) /\ wire \in Seq(S)
        /\ ready <=> IsComplete(buf)
    BY <1>3 DEF IInv, Carried
  <1>5. k \in 0..Len(wire)
    <2>1. n \in Nat
      BY StreamConstants
    <2> QED
      BY <1>4, <2>1
  <1>6. wire' = two /\ ready' = (ready \/ IsComplete(got))
        /\ buf' = IF IsComplete(got) THEN SubSeq(got, 1, Expected(got)) ELSE got
    BY <1>1
  <1> HIDE DEF f, S, k
  <1>7. one \in Seq(S) /\ two \in Seq(S) /\ one \o two = wire
    BY <1>4, <1>5, Cut
  <1> HIDE DEF one, two
  <1>8. got \in Seq(S) /\ got \o two = f
    <2>1. got \in Seq(S)
      BY <1>4, <1>7, Joining
    <2>2. got \o two = buf \o (one \o two)
      <3>1. buf \in Seq(S) /\ one \in Seq(S) /\ two \in Seq(S)
        BY <1>4, <1>7
      <3> QED
        BY <3>1
    <2> QED
      BY <1>7, <2>1, <2>2 DEF f
  <1>9. ~ready
    BY <1>2, <1>4, CompleteWhenWhole DEF f
  <1> HIDE DEF got
  <1>10. IsComplete(got) => SubSeq(got, 1, Expected(got)) = got
    <2>1. HAVE IsComplete(got)
    <2>2. Expected(got) = Len(got)
      BY <1>4, <1>7, <1>8, <2>1, CompleteWhenWhole
    <2> QED
      BY <1>8, <2>2
  <1>11. buf' = got
    BY <1>6, <1>10
  <1>12. (buf \o wire)' = f
    BY <1>6, <1>8, <1>11
  <1>13. Carried'
    BY <1>4, <1>6, <1>7, <1>8, <1>9, <1>11, <1>12 DEF Carried, S
  <1> QED
    BY <1>12, <1>13 DEF f

\* Every action keeps the invariant.
LEMMA NextHolds == IInv /\ [Next]_vars => IInv'
  <1> SUFFICES ASSUME IInv, [Next]_vars PROVE IInv'
    OBVIOUS
  <1>0. \A ch \in Channels : ch \in Nat
    BY StreamConstants
  <1>00. \A res \in Results : res \in Nat
    BY StreamConstants DEF Byte
  <1>1. CASE AddTask
    <2>1. PICK ch \in Channels, t \in Tasks, res \in Results :
            Send(Question("add", ch, t), Encode(ch, 4690, 7, TaskPayload(t)),
                 Reply(4690, 7, res, << >>), AnswerBytes(ch, Reply(4690, 7, res, << >>)))
      BY <1>1 DEF AddTask
    <2>2. Fits(TaskPayload(t)) /\ DecodeTask(TaskPayload(t)) = t
      BY PlainTaskIsDecoded
    <2>3. ch \in Nat /\ res \in Nat
      BY <1>0, <1>00
    <2> QED
      BY <2>1, <2>2, <2>3, Small, RequestHolds
  <1>2. CASE GetTask
    <2>1. PICK ch \in Channels, t \in Tasks, more \in Appended :
            Send(Question("get", ch, t), Encode(ch, 4690, 5, U32(2)),
                 Reply(4690, 5, 0, TaskPayload(t) \o more),
                 AnswerBytes(ch, Reply(4690, 5, 0, TaskPayload(t) \o more)))
      BY <1>2 DEF GetTask
    <2>2. /\ Fits(TaskPayload(t) \o more) /\ TaskDecodes(TaskPayload(t) \o more)
          /\ DecodeTask(TaskPayload(t) \o more) = t
      BY TaskIsDecoded
    <2>3. ch \in Nat /\ 0 \in Nat
      BY <1>0
    <2> QED
      BY <2>1, <2>2, <2>3, Small, RequestHolds
  <1>3. CASE Query
    <2>1. PICK ch \in Channels, res \in Results :
            Send(Question("query", ch, Nothing), Encode(ch, 4586, 2, << >>),
                 Reply(4586, 2, res, <<175>>),
                 AnswerBytes(ch, Reply(4586, 2, res, <<175>>)))
      BY <1>3 DEF Query
    <2>3. ch \in Nat /\ res \in Nat
      BY <1>0, <1>00
    <2> QED
      BY <2>1, <2>3, Small, RequestHolds
  <1>4. CASE Link
    <2>1. PICK ch \in Channels : \E frame \in {ChannelSetup(ch), HandshakeFrame(ch)} :
            Send(Question("link", ch, Nothing), frame, Nothing, Echo(frame))
      BY <1>4 DEF Link
    <2>5. PICK frame \in {ChannelSetup(ch), HandshakeFrame(ch)} :
            Send(Question("link", ch, Nothing), frame, Nothing, Echo(frame))
      BY <2>1
    <2>2. ch \in Nat
      BY <1>0
    <2>3. CASE frame = ChannelSetup(ch)
      <3> DEFINE f == Echo(ChannelSetup(ch))
      <3>1. /\ Whole(f)
            /\ ch % 256 # 175 => Expected(f) = Len(f)
            /\ ch % 256 = 175 => Expected(f) > Len(f)
        BY <2>2, ChannelSetupEcho
      <3> HIDE DEF f
      <3>2. Expected(f) = Len(f) \/ (ch % 256 = 175 /\ Expected(f) # Len(f))
        BY <3>1 DEF Whole
      <3> QED
        BY <2>5, <2>2, <2>3, <3>1, <3>2, LinkHolds DEF f
    <2>4. CASE frame = HandshakeFrame(ch)
      BY <2>5, <2>2, <2>4, HandshakeEcho, LinkHolds
    <2> QED
      BY <2>3, <2>4, <2>5
  <1>5. CASE Damage
    <2>1. asked # Nothing
      <3>1. asked.kind \in {"add", "get", "query"}
        BY <1>5, Zenon DEF Damage
      <3> QED
        BY <3>1 DEF Nothing
    <2>2. UNCHANGED <<asked, answer, buf, ready>> /\ damaged' = TRUE
      BY <1>5, Zenon DEF Damage
    <2> QED
      BY <2>1, <2>2 DEF IInv, RequestIsUnderstood
  <1>6. CASE Receive
    <2>1. \E done \in BOOLEAN : ready' = (ready \/ done)
      BY <1>6, Zenon DEF Receive, IsComplete
    <2>2. wire # << >> /\ UNCHANGED <<asked, answer, damaged>>
      BY <1>6 DEF Receive
    <2>3. asked # Nothing /\ asked.kind # "nothing"
      BY <2>2 DEF IInv
    <2>4. RequestIsUnderstood'
      BY <2>2 DEF IInv, RequestIsUnderstood
    <2>5. ready' \in BOOLEAN
      BY <2>1 DEF IInv
    <2>6. CASE damaged
      BY <2>2, <2>3, <2>4, <2>5, <2>6 DEF IInv
    <2>7. CASE ~damaged
      <3>1. Carried' /\ (buf \o wire)' = buf \o wire
        BY <1>6, <2>7, ReceiveHolds
      <3>2. Promised'
        BY <2>2, <2>3, <2>7, <3>1 DEF IInv, Promised
      <3> QED
        BY <2>2, <2>3, <2>4, <2>5, <3>1, <3>2 DEF IInv
    <2> QED
      BY <2>6, <2>7
  <1>7. CASE UNCHANGED vars
    BY <1>7 DEF vars, IInv, RequestIsUnderstood, Carried, Promised
  <1> QED
    BY <1>1, <1>2, <1>3, <1>4, <1>5, <1>6, <1>7 DEF Next

LEMMA Invariance == Spec => []IInv
  BY InitHolds, NextHolds, PTL DEF Spec

-----------------------------------------------------------------------------
(* The theorems *)

\* encode_request(): the mower, which reads a frame by its own rules, understands
\* every question, for every channel and every entry of the schedule.
THEOREM TheMowerUnderstands == Spec => []RequestIsUnderstood
  <1>1. IInv => RequestIsUnderstood
    BY DEF IInv
  <1> QED
    BY <1>1, Invariance, PTL

\* A frame is complete exactly when nothing of it is on its way.
LEMMA IInvWakes == IInv => WokenByTheLastByte
  <1> SUFFICES ASSUME IInv, ~damaged, asked # Nothing
               PROVE  \/ ready <=> wire = << >>
                      \/ asked.kind = "link" /\ asked.channel % 256 = 175 /\ ~ready
    BY DEF WokenByTheLastByte
  <1> DEFINE f == buf \o wire
             S == Elements(f)
  <1>1. /\ Whole(f) /\ buf \in Seq(S) /\ wire \in Seq(S)
        /\ ready <=> IsComplete(buf)
    BY DEF IInv, Carried
  <1>2. Promised
    BY DEF IInv
  <1>3. /\ IsComplete(buf) => wire = << >> /\ Expected(buf) = Len(buf)
        /\ wire = << >> => (IsComplete(buf) <=> Expected(buf) = Len(buf))
        /\ wire = << >> => f = buf
    <2> HIDE DEF S
    <2> QED
      BY <1>1, CompleteWhenWhole
  <1>4. \/ Expected(f) = Len(f)
        \/ asked.kind = "link" /\ asked.channel % 256 = 175 /\ Expected(f) # Len(f)
    BY <1>2 DEF Promised, Read
  <1> HIDE DEF f
  <1> QED
    BY <1>1, <1>3, <1>4

\* NOTIFY_RX: however the frames are cut into notifications, the last byte of an
\* answer gives the semaphore, neither an earlier one nor none.  Only the echo of
\* phase 1 to a channel with 175 in its low byte never gives it.
THEOREM TheLastByteWakes == Spec => []WokenByTheLastByte
  BY IInvWakes, Invariance, PTL

\* What is complete is the whole answer.
LEMMA IInvReads == IInv => AnswerIsRead
  <1> SUFFICES ASSUME IInv, ready, ~damaged, asked.kind # "link"
               PROVE  /\ Decodes(buf) /\ Decoded(buf) = answer
                      /\ asked.kind = "get" =>
                            /\ TaskDecodes(Decoded(buf).payload)
                            /\ DecodeTask(Decoded(buf).payload) = asked.task
    BY DEF AnswerIsRead
  <1>1. asked # Nothing
    BY DEF IInv
  <1> DEFINE f == buf \o wire
             S == Elements(f)
  <1>2. /\ Whole(f) /\ buf \in Seq(S) /\ wire \in Seq(S) /\ IsComplete(buf)
    BY <1>1 DEF IInv, Carried
  <1>3. Promised
    BY <1>1 DEF IInv
  <1>4. f = buf
    <2> HIDE DEF S
    <2> QED
      BY <1>2, CompleteWhenWhole
  <1>5. /\ Read(f, answer)
        /\ asked.kind = "get" => /\ TaskDecodes(answer.payload)
                                 /\ DecodeTask(answer.payload) = asked.task
    BY <1>3 DEF Promised
  <1> QED
    BY <1>4, <1>5 DEF Read

\* decode_response() and decode_task(): an answer that is complete and was not
\* damaged decodes to what the mower said, for every result and every entry.
THEOREM WhatIsDecodedWasSaid == Spec => []AnswerIsRead
  BY IInvReads, Invariance, PTL

-----------------------------------------------------------------------------
(* Exclusive or *)

\* Eight binary digits, and the number they write.
Bin(d) == d = 0 \/ d = 1
Eight(p, q, r, s, t, u, v, w) ==
    /\ Bin(p) /\ Bin(q) /\ Bin(r) /\ Bin(s) /\ Bin(t) /\ Bin(u) /\ Bin(v) /\ Bin(w)
Number(p, q, r, s, t, u, v, w) ==
    p + 2 * q + 4 * r + 8 * s + 16 * t + 32 * u + 64 * v + 128 * w
Digit(a, n) == (a \div n) % 2
IsByte(a) == a \in Nat /\ a < 256

\* A byte is the number of its digits.
LEMMA Halves ==
  ASSUME NEW a, IsByte(a)
  PROVE  a = Number(Digit(a, 1), Digit(a, 2), Digit(a, 4), Digit(a, 8),
                    Digit(a, 16), Digit(a, 32), Digit(a, 64), Digit(a, 128))
  BY DEF IsByte, Number, Digit

\* And the digits of the number are those it was written with.
LEMMA DigitsOf ==
  ASSUME NEW p, NEW q, NEW r, NEW s, NEW t, NEW u, NEW v, NEW w,
         Eight(p, q, r, s, t, u, v, w)
  PROVE  LET a == Number(p, q, r, s, t, u, v, w)
         IN  /\ IsByte(a)
             /\ Digit(a, 1) = p /\ Digit(a, 2) = q /\ Digit(a, 4) = r
             /\ Digit(a, 8) = s /\ Digit(a, 16) = t /\ Digit(a, 32) = u
             /\ Digit(a, 64) = v /\ Digit(a, 128) = w
  BY DEF Eight, Bin, IsByte, Number, Digit

\* A byte, for a prover that would write out a range.
LEMMA ByteIs == \A a : a \in Byte <=> IsByte(a)
  BY DEF Byte, IsByte

\* A digit of the exclusive or.
Sum(a, b, n) == (Digit(a, n) + Digit(b, n)) % 2

\* The exclusive or is a byte, with these digits.
LEMMA XorDigits ==
  ASSUME NEW a, IsByte(a), NEW b, IsByte(b)
  PROVE  /\ IsByte(Xor(a, b))
         /\ Digit(Xor(a, b), 1) = Sum(a, b, 1) /\ Digit(Xor(a, b), 2) = Sum(a, b, 2)
         /\ Digit(Xor(a, b), 4) = Sum(a, b, 4) /\ Digit(Xor(a, b), 8) = Sum(a, b, 8)
         /\ Digit(Xor(a, b), 16) = Sum(a, b, 16) /\ Digit(Xor(a, b), 32) = Sum(a, b, 32)
         /\ Digit(Xor(a, b), 64) = Sum(a, b, 64)
         /\ Digit(Xor(a, b), 128) = Sum(a, b, 128)
  <1>1. ASSUME NEW n \in {1, 2, 4, 8, 16, 32, 64, 128}
        PROVE  /\ Bin(Sum(a, b, n))
               /\ ((a \div n) + (b \div n)) % 2 = Sum(a, b, n)
    BY DEF IsByte, Sum, Digit, Bin
  <1>2. /\ Bin(Sum(a, b, 1)) /\ ((a \div 1) + (b \div 1)) % 2 = Sum(a, b, 1)
        /\ Bin(Sum(a, b, 2)) /\ ((a \div 2) + (b \div 2)) % 2 = Sum(a, b, 2)
        /\ Bin(Sum(a, b, 4)) /\ ((a \div 4) + (b \div 4)) % 2 = Sum(a, b, 4)
        /\ Bin(Sum(a, b, 8)) /\ ((a \div 8) + (b \div 8)) % 2 = Sum(a, b, 8)
        /\ Bin(Sum(a, b, 16)) /\ ((a \div 16) + (b \div 16)) % 2 = Sum(a, b, 16)
        /\ Bin(Sum(a, b, 32)) /\ ((a \div 32) + (b \div 32)) % 2 = Sum(a, b, 32)
        /\ Bin(Sum(a, b, 64)) /\ ((a \div 64) + (b \div 64)) % 2 = Sum(a, b, 64)
        /\ Bin(Sum(a, b, 128)) /\ ((a \div 128) + (b \div 128)) % 2 = Sum(a, b, 128)
    BY <1>1
  <1>3. Xor(a, b) = Number(Sum(a, b, 1), Sum(a, b, 2), Sum(a, b, 4), Sum(a, b, 8),
                           Sum(a, b, 16), Sum(a, b, 32), Sum(a, b, 64), Sum(a, b, 128))
    BY <1>2 DEF Xor, Number
  <1>4. Eight(Sum(a, b, 1), Sum(a, b, 2), Sum(a, b, 4), Sum(a, b, 8),
              Sum(a, b, 16), Sum(a, b, 32), Sum(a, b, 64), Sum(a, b, 128))
    BY <1>2 DEF Eight
  <1> QED
    BY <1>3, <1>4, DigitsOf

LEMMA XorByte ==
  ASSUME NEW a \in Byte, NEW b \in Byte
  PROVE  Xor(a, b) \in Byte
  BY ByteIs, XorDigits

LEMMA XorCommutes ==
  ASSUME NEW a \in Byte, NEW b \in Byte
  PROVE  Xor(a, b) = Xor(b, a)
  <1>1. ASSUME NEW n \in {1, 2, 4, 8, 16, 32, 64, 128}
        PROVE  ((a \div n) + (b \div n)) % 2 = ((b \div n) + (a \div n)) % 2
    <2>1. a \in Nat /\ b \in Nat
      BY DEF Byte
    <2> QED
      BY <2>1
  <1> QED
    BY <1>1 DEF Xor

\* What is the same on both sides cancels: in a digit, and in a byte.
LEMMA SumCancels ==
  ASSUME NEW a, IsByte(a), NEW b, IsByte(b), NEW c, IsByte(c),
         NEW n \in Nat \ {0}, Sum(a, b, n) = Sum(a, c, n)
  PROVE  Digit(b, n) = Digit(c, n)
  <1>1. Bin(Digit(a, n)) /\ Bin(Digit(b, n)) /\ Bin(Digit(c, n))
    BY DEF IsByte, Digit, Bin
  <1> QED
    BY <1>1 DEF Sum, Bin

LEMMA XorCancels ==
  ASSUME NEW a \in Byte, NEW b \in Byte, NEW c \in Byte, Xor(a, b) = Xor(a, c)
  PROVE  b = c
  <1>1. IsByte(a) /\ IsByte(b) /\ IsByte(c)
    BY ByteIs
  <1>2. /\ Sum(a, b, 1) = Sum(a, c, 1) /\ Sum(a, b, 2) = Sum(a, c, 2)
        /\ Sum(a, b, 4) = Sum(a, c, 4) /\ Sum(a, b, 8) = Sum(a, c, 8)
        /\ Sum(a, b, 16) = Sum(a, c, 16) /\ Sum(a, b, 32) = Sum(a, c, 32)
        /\ Sum(a, b, 64) = Sum(a, c, 64) /\ Sum(a, b, 128) = Sum(a, c, 128)
    BY <1>1, XorDigits
  <1>3. \A n \in {1, 2, 4, 8, 16, 32, 64, 128} : n \in Nat \ {0}
    OBVIOUS
  <1>4. /\ Digit(b, 1) = Digit(c, 1) /\ Digit(b, 2) = Digit(c, 2)
        /\ Digit(b, 4) = Digit(c, 4) /\ Digit(b, 8) = Digit(c, 8)
        /\ Digit(b, 16) = Digit(c, 16) /\ Digit(b, 32) = Digit(c, 32)
        /\ Digit(b, 64) = Digit(c, 64) /\ Digit(b, 128) = Digit(c, 128)
    BY <1>1, <1>2, <1>3, SumCancels
  <1> QED
    BY <1>1, <1>4, Halves

\* A flipped bit changes a byte.
LEMMA XorChanges ==
  ASSUME NEW a \in Byte, NEW bit \in Bits
  PROVE  Xor(a, bit) \in Byte /\ Xor(a, bit) # a
  <1>1. bit \in Byte /\ 0 \in Byte /\ bit # 0
    BY DEF Byte, Bits
  <1>2. Xor(a, 0) = a
    <2>1. IsByte(a)
      BY ByteIs
    <2>2. ASSUME NEW n \in {1, 2, 4, 8, 16, 32, 64, 128}
          PROVE  ((a \div n) + (0 \div n)) % 2 = Digit(a, n)
      BY <2>1 DEF IsByte, Digit
    <2>3. Xor(a, 0) = Number(Digit(a, 1), Digit(a, 2), Digit(a, 4), Digit(a, 8),
                             Digit(a, 16), Digit(a, 32), Digit(a, 64), Digit(a, 128))
      BY <2>2 DEF Xor, Number
    <2> QED
      BY <2>1, <2>3, Halves
  <1> QED
    BY <1>1, <1>2, XorByte, XorCancels

-----------------------------------------------------------------------------
(* The CRC *)

\* The top digit of a shifted byte tells what was shifted out.
LEMMA ShiftIsOneToOne ==
  ASSUME NEW a \in Byte, NEW b \in Byte
  PROVE  /\ CrcShift(a) \in Byte
         /\ CrcShift(a) = CrcShift(b) => a = b
  <1> DEFINE h(x) == x \div 2
  <1>1. ASSUME NEW x \in Byte
        PROVE  /\ h(x) \in Byte /\ Digit(h(x), 128) = 0
               /\ Xor(h(x), 140) \in Byte /\ Digit(Xor(h(x), 140), 128) = 1
    <2>1. IsByte(x) /\ IsByte(140)
      BY ByteIs DEF IsByte
    <2>2. IsByte(h(x)) /\ Digit(h(x), 128) = 0 /\ Digit(140, 128) = 1
      BY <2>1 DEF IsByte, Digit
    <2>3. Sum(h(x), 140, 128) = 1
      BY <2>2 DEF Sum
    <2> HIDE DEF h
    <2> QED
      BY <2>1, <2>2, <2>3, ByteIs, XorDigits
  <1>2. 140 \in Byte
    BY DEF Byte
  <1>3. ASSUME NEW x \in Byte, NEW y \in Byte, Xor(h(x), 140) = Xor(h(y), 140)
        PROVE  h(x) = h(y)
    <2> HIDE DEF h
    <2>1. Xor(140, h(x)) = Xor(140, h(y))
      BY <1>1, <1>2, <1>3, XorCommutes
    <2> QED
      BY <1>1, <1>2, <2>1, XorCancels
  <1>4. ASSUME NEW x \in Byte, NEW y \in Byte, h(x) = h(y), x % 2 = y % 2
        PROVE  x = y
    <2>1. x \in Nat /\ y \in Nat
      BY DEF Byte
    <2> QED
      BY <1>4, <2>1
  <1>5. \A x \in Byte : x % 2 = 0 \/ x % 2 = 1
    <2>1. \A x \in Byte : x \in Nat
      BY DEF Byte
    <2>2. \A x \in Nat : x % 2 = 0 \/ x % 2 = 1
      OBVIOUS
    <2> QED
      BY <2>1, <2>2, Zenon
  <1>6. \A x \in Byte : /\ x % 2 = 1 => CrcShift(x) = Xor(h(x), 140)
                        /\ x % 2 # 1 => CrcShift(x) = h(x)
    BY DEF CrcShift
  <1> HIDE DEF h
  <1>7. CrcShift(a) \in Byte
    BY <1>1, <1>6
  <1>8. ASSUME CrcShift(a) = CrcShift(b) PROVE a = b
    <2>1. (a % 2 = 1) <=> (b % 2 = 1)
      <3>1. ASSUME NEW x \in Byte
            PROVE  Digit(CrcShift(x), 128) = 1 <=> x % 2 = 1
        <4>1. Digit(Xor(h(x), 140), 128) = 1 /\ Digit(h(x), 128) = 0
          BY <1>1
        <4>2. CASE x % 2 = 1
          BY <1>6, <4>1, <4>2
        <4>3. CASE x % 2 # 1
          <5>1. Digit(CrcShift(x), 128) = 0
            BY <1>6, <4>1, <4>3
          <5> QED
            BY <4>3, <5>1
        <4> QED
          BY <4>2, <4>3
      <3> QED
        BY <1>8, <3>1
    <2>2. a % 2 = b % 2
      BY <1>5, <2>1
    <2>3. h(a) = h(b)
      BY <1>3, <1>6, <1>8, <2>1
    <2> QED
      BY <1>4, <2>2, <2>3
  <1> QED
    BY <1>7, <1>8

\* So the table has every byte once.
LEMMA TableIsOneToOne ==
  ASSUME NEW a \in Byte, NEW b \in Byte
  PROVE  /\ CrcTable[a] \in Byte
         /\ CrcTable[a] = CrcTable[b] => a = b
  <1> DEFINE twice(c) == CrcShift(CrcShift(c))
             four(c) == twice(twice(c))
             all(c) == four(four(c))
  <1>1. ASSUME NEW x \in Byte, NEW y \in Byte
        PROVE  twice(x) \in Byte /\ (twice(x) = twice(y) => x = y)
    BY ShiftIsOneToOne
  <1>2. CrcTable[a] = all(a) /\ CrcTable[b] = all(b)
    BY DEF CrcTable
  <1> HIDE DEF twice
  <1>3. ASSUME NEW x \in Byte, NEW y \in Byte
        PROVE  four(x) \in Byte /\ (four(x) = four(y) => x = y)
    BY <1>1
  <1> HIDE DEF four
  <1>4. all(a) \in Byte /\ (all(a) = all(b) => a = b)
    BY <1>3
  <1> QED
    BY <1>2, <1>4

\* A set of numbers has a least one: what stands for induction here.
LEMMA SomeLeast ==
  ASSUME NEW T, T \subseteq Nat, T # {}
  PROVE  \E i \in T : \A j \in T : i <= j
  <1> DEFINE R == OpToRel(<, Nat)
  <1>1. IsWellFoundedOn(R, Nat)
    BY NatLessThanWellFounded
  <1>2. \A i, j \in Nat : <<i, j>> \in R <=> i < j
    BY DEF OpToRel
  <1> HIDE DEF R
  <1>3. PICK i \in T : \A j \in T : <<j, i>> \notin R
    BY <1>1, WFMin
  <1>4. ASSUME NEW j \in T PROVE i <= j
    <2>1. i \in Nat /\ j \in Nat
      OBVIOUS
    <2>2. ~(j < i)
      BY <1>2, <1>3, <2>1
    <2> QED
      BY <2>1, <2>2
  <1> QED
    BY <1>4

\* c is what the loop of maxim() has computed after each byte, the first k.
Runs(s, c, k) == \A n \in 1..k : c[n] = CrcTable[Xor(c[n - 1], s[n])]

\* One byte more of the loop, and all of them.
LEMMA OneByteMore ==
  ASSUME NEW s \in Seq(Byte), NEW k \in Nat, k + 1 <= Len(s),
         NEW c \in [0..Len(s) -> Byte], c[0] = 0, Runs(s, c, k)
  PROVE  \E d \in [0..Len(s) -> Byte] : d[0] = 0 /\ Runs(s, d, k + 1)
  <1> DEFINE m == k + 1
             x == CrcTable[Xor(c[k], s[m])]
             d == [c EXCEPT ![m] = x]
  <1>1. Len(s) \in Nat /\ m \in 1..Len(s) /\ k \in 0..Len(s) /\ m \in 0..Len(s)
    OBVIOUS
  <1>2. x \in Byte
    <2>1. c[k] \in Byte /\ s[m] \in Byte
      BY <1>1
    <2> QED
      BY <2>1, XorByte, TableIsOneToOne
  <1> HIDE DEF x
  <1>3. d \in [0..Len(s) -> Byte]
    BY <1>2
  <1>4. \A n \in 0..k : d[n] = c[n]
    <2> TAKE n \in 0..k
    <2>1. n # m /\ n \in 0..Len(s)
      BY <1>1
    <2> QED
      BY <2>1
  <1>5. d[m] = x
    BY <1>1
  <1> HIDE DEF d
  <1>6. d[0] = 0
    <2>1. 0 \in 0..k
      OBVIOUS
    <2> QED
      BY <1>4, <2>1
  <1>7. ASSUME NEW n \in 1..m PROVE d[n] = CrcTable[Xor(d[n - 1], s[n])]
    <2>1. n - 1 \in 0..k
      OBVIOUS
    <2>2. d[n - 1] = c[n - 1]
      BY <1>4, <2>1
    <2>3. CASE n = m
      <3>1. n - 1 = k
        BY <2>3
      <3> QED
        BY <1>5, <2>2, <2>3, <3>1 DEF x
    <2>4. CASE n # m
      <3>1. n \in 1..k /\ n \in 0..k
        BY <2>4
      <3>2. d[n] = c[n]
        BY <1>4, <3>1
      <3> QED
        BY <2>2, <3>1, <3>2 DEF Runs
    <2> QED
      BY <2>3, <2>4
  <1> QED
    BY <1>3, <1>6, <1>7 DEF Runs

LEMMA AllBytesRun ==
  ASSUME NEW s \in Seq(Byte)
  PROVE  \E c \in [0..Len(s) -> Byte] : c[0] = 0 /\ Runs(s, c, Len(s))
  <1> DEFINE Can(k) == \E c \in [0..Len(s) -> Byte] : c[0] = 0 /\ Runs(s, c, k)
             T == {k \in 0..Len(s) : ~Can(k)}
  <1>1. Len(s) \in Nat
    OBVIOUS
  <1>2. Can(0)
    <2> DEFINE c == [n \in 0..Len(s) |-> 0]
    <2>1. 0 \in Byte
      BY DEF Byte
    <2>2. c \in [0..Len(s) -> Byte] /\ c[0] = 0
      BY <1>1, <2>1
    <2>3. Runs(s, c, 0)
      BY DEF Runs
    <2> QED
      BY <2>2, <2>3
  <1>3. ASSUME NEW k \in Nat, k + 1 <= Len(s), Can(k) PROVE Can(k + 1)
    BY <1>3, OneByteMore
  <1> HIDE DEF Can
  <1>4. T = {}
    <2> SUFFICES ASSUME T # {} PROVE FALSE
      OBVIOUS
    <2>1. T \subseteq Nat
      BY <1>1
    <2>2. PICK k \in T : \A j \in T : k <= j
      <3> HIDE DEF T
      <3> QED
        BY <2>1, SomeLeast
    <2>3. k \in 0..Len(s) /\ ~Can(k) /\ k # 0
      BY <1>2
    <2>4. k - 1 \in Nat /\ (k - 1) + 1 = k /\ k <= Len(s) /\ k - 1 \in 0..Len(s)
      BY <1>1, <2>3
    <2>5. Can(k - 1)
      <3>1. k - 1 \notin T
        <4> HIDE DEF T
        <4> QED
          BY <2>1, <2>2, <2>4
      <3> QED
        BY <2>4, <3>1
    <2>6. Can((k - 1) + 1)
      BY <1>3, <2>4, <2>5
    <2> QED
      BY <2>3, <2>4, <2>6
  <1>5. Len(s) \in 0..Len(s)
    BY <1>1
  <1>6. Can(Len(s))
    BY <1>4, <1>5
  <1> QED
    BY <1>6 DEF Can

\* What Crc() returns is the end of such a run.
LEMMA CrcRuns ==
  ASSUME NEW s \in Seq(Byte)
  PROVE  \E c \in [0..Len(s) -> Byte] :
            c[0] = 0 /\ Runs(s, c, Len(s)) /\ Crc(s) = c[Len(s)]
  <1> DEFINE Loop(c) == [n \in 0..Len(s) |->
                            IF n = 0 THEN 0 ELSE CrcTable[Xor(c[n - 1], s[n])]]
             e == CHOOSE c : c = Loop(c)
  <1>1. Len(s) \in Nat
    OBVIOUS
  <1>2. Crc(s) = e[Len(s)]
    BY Zenon DEF Crc
  <1>3. PICK c \in [0..Len(s) -> Byte] : c[0] = 0 /\ Runs(s, c, Len(s))
    BY AllBytesRun
  <1>4. c = Loop(c)
    <2>1. ASSUME NEW n \in 0..Len(s) PROVE c[n] = Loop(c)[n]
      <3>1. CASE n = 0
        BY <1>3, <3>1
      <3>2. CASE n # 0
        <4>1. n \in 1..Len(s)
          BY <1>1, <3>2
        <4> QED
          BY <1>3, <3>2, <4>1 DEF Runs
      <3> QED
        BY <3>1, <3>2
    <2> QED
      BY <2>1
  <1>5. e = Loop(e)
    <2> HIDE DEF Loop
    <2> QED
      BY <1>4
  <1> HIDE DEF e
  <1>6. e = [n \in 0..Len(s) |-> IF n = 0 THEN 0 ELSE CrcTable[Xor(e[n - 1], s[n])]]
    BY <1>5
  <1>7. \A n \in 0..Len(s) : e[n] = IF n = 0 THEN 0 ELSE CrcTable[Xor(e[n - 1], s[n])]
    BY <1>6, Zenon
  <1>8. e[0] = 0 /\ Runs(s, e, Len(s))
    <2>1. e[0] = 0
      BY <1>1, <1>7
    <2>2. ASSUME NEW n \in 1..Len(s) PROVE e[n] = CrcTable[Xor(e[n - 1], s[n])]
      <3>1. n \in 0..Len(s) /\ n # 0
        BY <1>1
      <3> QED
        BY <1>7, <3>1
    <2> QED
      BY <2>1, <2>2 DEF Runs
  <1>9. \A n \in 0..Len(s) : e[n] = c[n]
    <2> DEFINE T == {n \in 0..Len(s) : e[n] # c[n]}
    <2> SUFFICES ASSUME T # {} PROVE FALSE
      OBVIOUS
    <2>1. T \subseteq Nat
      BY <1>1
    <2>2. PICK n \in T : \A j \in T : n <= j
      <3> HIDE DEF T
      <3> QED
        BY <2>1, SomeLeast
    <2>3. n \in 0..Len(s) /\ e[n] # c[n] /\ n # 0
      BY <1>3, <1>8
    <2>4. n \in 1..Len(s) /\ n - 1 \in 0..Len(s) /\ ~(n <= n - 1)
      BY <1>1, <2>3
    <2>5. e[n - 1] = c[n - 1]
      <3>1. n - 1 \notin T
        <4> HIDE DEF T
        <4> QED
          BY <2>2, <2>4
      <3> QED
        BY <2>4, <3>1
    <2> QED
      BY <1>3, <1>8, <2>3, <2>4, <2>5 DEF Runs
  <1>10. Len(s) \in 0..Len(s)
    BY <1>1
  <1> QED
    BY <1>2, <1>3, <1>9, <1>10

\* A CRC is a byte.
LEMMA CrcIsByte ==
  ASSUME NEW s \in Seq(Byte)
  PROVE  Crc(s) \in Byte
  <1>1. PICK c \in [0..Len(s) -> Byte] :
            c[0] = 0 /\ Runs(s, c, Len(s)) /\ Crc(s) = c[Len(s)]
    BY CrcRuns
  <1>2. Len(s) \in 0..Len(s)
    OBVIOUS
  <1> QED
    BY <1>1, <1>2

\* maxim(): two sequences of the same length that differ in one byte have different
\* CRCs, however long they are and wherever the byte is.
THEOREM OneByteIsNoticed ==
  ASSUME NEW s \in Seq(Byte), NEW t \in Seq(Byte), Len(s) = Len(t),
         NEW i \in 1..Len(s), s[i] # t[i],
         \A j \in 1..Len(s) : j # i => s[j] = t[j]
  PROVE  Crc(s) # Crc(t)
  <1> DEFINE N == Len(s)
  <1>1. N \in Nat /\ N = Len(t) /\ i \in 1..N
    OBVIOUS
  <1>2. PICK c \in [0..N -> Byte] : c[0] = 0 /\ Runs(s, c, N) /\ Crc(s) = c[N]
    BY CrcRuns
  <1>3. PICK d \in [0..N -> Byte] : d[0] = 0 /\ Runs(t, d, N) /\ Crc(t) = d[N]
    BY <1>1, CrcRuns
  <1>4. \A n \in 1..N : s[n] \in Byte /\ t[n] \in Byte /\ (n # i => s[n] = t[n])
    BY <1>1, ElementOfSeq
  <1> HIDE DEF N
  <1>5. ASSUME NEW n \in 1..N
        PROVE  /\ n - 1 \in 0..N /\ c[n - 1] \in Byte /\ d[n - 1] \in Byte
               /\ c[n] = CrcTable[Xor(c[n - 1], s[n])]
               /\ d[n] = CrcTable[Xor(d[n - 1], t[n])]
    <2>1. n - 1 \in 0..N
      BY <1>1
    <2> QED
      BY <1>2, <1>3, <2>1 DEF Runs
  \* The same so far and another byte, or another value so far and the same byte.
  <1>6. ASSUME NEW n \in 1..N, c[n] = d[n], s[n] # t[n] PROVE c[n - 1] # d[n - 1]
    <2> SUFFICES ASSUME c[n - 1] = d[n - 1] PROVE FALSE
      OBVIOUS
    <2>1. Xor(c[n - 1], s[n]) = Xor(c[n - 1], t[n])
      BY <1>4, <1>5, <1>6, TableIsOneToOne, XorByte
    <2> QED
      BY <1>4, <1>5, <1>6, <2>1, XorCancels
  <1>7. ASSUME NEW n \in 1..N, c[n] = d[n], s[n] = t[n] PROVE c[n - 1] = d[n - 1]
    <2>1. Xor(c[n - 1], s[n]) = Xor(d[n - 1], s[n])
      BY <1>4, <1>5, <1>7, TableIsOneToOne, XorByte
    <2>2. Xor(s[n], c[n - 1]) = Xor(s[n], d[n - 1])
      BY <1>4, <1>5, <2>1, XorCommutes
    <2> QED
      BY <1>4, <1>5, <2>2, XorCancels
  <1>8. c[i - 1] = d[i - 1]
    <2> DEFINE T == {n \in 0..(i - 1) : c[n] # d[n]}
    <2> SUFFICES ASSUME c[i - 1] # d[i - 1] PROVE FALSE
      OBVIOUS
    <2>1. T \subseteq Nat /\ i - 1 \in T
      BY <1>1
    <2>2. PICK n \in T : \A j \in T : n <= j
      <3> HIDE DEF T
      <3> QED
        BY <2>1, SomeLeast
    <2>3. n \in 0..(i - 1) /\ c[n] # d[n] /\ n # 0
      BY <1>2, <1>3
    <2>4. n \in 1..N /\ n # i /\ n - 1 \in 0..(i - 1) /\ ~(n <= n - 1)
      BY <1>1, <2>3
    <2>5. c[n - 1] = d[n - 1]
      <3>1. n - 1 \notin T
        <4> HIDE DEF T
        <4> QED
          BY <2>2, <2>4
      <3> QED
        BY <2>4, <3>1
    <2>6. s[n] = t[n]
      BY <1>4, <2>4
    <2> QED
      BY <1>5, <2>3, <2>4, <2>5, <2>6
  <1>9. c[N] # d[N]
    <2> DEFINE T == {n \in i..N : c[n] = d[n]}
    <2> SUFFICES ASSUME c[N] = d[N] PROVE FALSE
      OBVIOUS
    <2>1. T \subseteq Nat /\ N \in T
      BY <1>1
    <2>2. PICK n \in T : \A j \in T : n <= j
      <3> HIDE DEF T
      <3> QED
        BY <2>1, SomeLeast
    <2>3. n \in i..N /\ c[n] = d[n] /\ n \in 1..N
      BY <1>1
    <2>4. CASE n = i
      BY <1>6, <1>8, <2>3, <2>4
    <2>5. CASE n # i
      <3>1. s[n] = t[n]
        BY <1>4, <2>3, <2>5
      <3>2. c[n - 1] = d[n - 1]
        BY <1>7, <2>3, <3>1
      <3>3. n - 1 \in i..N /\ ~(n <= n - 1)
        BY <1>1, <2>3, <2>5
      <3>4. n - 1 \in T
        BY <3>2, <3>3
      <3> QED
        <4> HIDE DEF T
        <4> QED
          BY <2>2, <3>3, <3>4
    <2> QED
      BY <2>4, <2>5
  <1> QED
    BY <1>2, <1>3, <1>9

-----------------------------------------------------------------------------
(* A flipped bit in an answer *)

\* The bytes of an answer that something is checked in: the header and its CRC,
\* the mark of an answer, and the length of the payload.
Protected == (0..9) \cup {11, 17, 18}

\* Byte i of an answer is another one.
Differs(f, d, i) == /\ f \in Seq(Byte) /\ d \in Seq(Byte) /\ Len(d) = Len(f)
                    /\ i \in 1..Len(f) /\ d[i] # f[i]
                    /\ \A j \in 1..Len(f) : j # i => d[j] = f[j]

\* A flipped bit makes it one.
LEMMA FlipDiffers ==
  ASSUME NEW f \in Seq(Byte), NEW i \in 1..Len(f), NEW bit \in Bits
  PROVE  LET d == [f EXCEPT ![i] = Xor(@, bit)]
         IN  Differs(f, d, i) /\ d[i] = Xor(f[i], bit)
  <1> DEFINE n == Len(f)
             d == [f EXCEPT ![i] = Xor(@, bit)]
  <1>1. n \in Nat /\ f \in [1..n -> Byte] /\ i \in 1..n
    BY LenProperties
  <1>2. Xor(f[i], bit) \in Byte /\ Xor(f[i], bit) # f[i]
    BY <1>1, XorChanges
  <1> HIDE DEF n
  <1>3. d \in [1..n -> Byte] /\ d[i] = Xor(f[i], bit)
        /\ \A j \in 1..n : j # i => d[j] = f[j]
    BY <1>1, <1>2
  <1> HIDE DEF d
  <1>4. d \in Seq(Byte) /\ Len(d) = n
    BY <1>1, <1>3
  <1>5. Differs(f, d, i) /\ d[i] = Xor(f[i], bit)
    BY <1>1, <1>2, <1>3, <1>4 DEF Differs, n
  <1> QED
    BY <1>5 DEF d

\* The first e bytes of a frame.
LEMMA FirstBytes ==
  ASSUME NEW d \in Seq(Byte), NEW e \in 0..Len(d)
  PROVE  LET b == SubSeq(d, 1, e)
         IN  b \in Seq(Byte) /\ Len(b) = e /\ \A j \in 1..e : b[j] = d[j]
  <1>1. Len(d) \in Nat /\ e \in Nat
    OBVIOUS
  <1>2. \A j \in 1..e : d[j] \in Byte
    <2> TAKE j \in 1..e
    <2>1. j \in 1..Len(d)
      BY <1>1
    <2> QED
      BY <2>1, ElementOfSeq
  <1> DEFINE b == SubSeq(d, 1, e)
  <1>3. /\ b \in Seq(Byte) /\ Len(b) = (IF 1 <= e THEN e - 1 + 1 ELSE 0)
        /\ \A j \in 1..(e - 1 + 1) : b[j] = d[1 + j - 1]
    BY <1>1, <1>2, SubSeqProperties
  <1> HIDE DEF b
  <1>4. b \in Seq(Byte) /\ Len(b) = e /\ \A j \in 1..e : b[j] = d[j]
    BY <1>1, <1>3
  <1> QED
    BY <1>4 DEF b

\* The eight bytes the CRC of the header is over.
LEMMA HeaderMiddle ==
  ASSUME NEW d \in Seq(Byte), Len(d) >= 9
  PROVE  LET m == SubSeq(d, 2, 9)
         IN  m \in Seq(Byte) /\ Len(m) = 8 /\ \A j \in 1..8 : m[j] = d[j + 1]
  <1>1. \A j \in 2..9 : d[j] \in Byte
    <2> TAKE j \in 2..9
    <2>1. j \in 1..Len(d)
      OBVIOUS
    <2> QED
      BY <2>1, ElementOfSeq
  <1> DEFINE m == SubSeq(d, 2, 9)
  <1>2. /\ m \in Seq(Byte) /\ Len(m) = 8
        /\ \A j \in 1..(9 - 2 + 1) : m[j] = d[2 + j - 1]
    BY <1>1, SubSeqProperties
  <1> HIDE DEF m
  <1>3. m \in Seq(Byte) /\ Len(m) = 8 /\ \A j \in 1..8 : m[j] = d[j + 1]
    BY <1>2
  <1> QED
    BY <1>3 DEF m

\* A header with another byte in it does not pass, however long the frame is
\* taken to be.
LEMMA HeaderIsChecked ==
  ASSUME NEW f, NEW d, NEW i \in 2..10, Differs(f, d, i), Len(f) >= 21,
         f[10] = Crc(SubSeq(f, 2, 9)), NEW e \in 0..Len(d)
  PROVE  ~Decodes(SubSeq(d, 1, e))
  <1> DEFINE b == SubSeq(d, 1, e)
             s == SubSeq(f, 2, 9)
             t == SubSeq(d, 2, 9)
             u == SubSeq(b, 2, 9)
  <1> SUFFICES ASSUME Len(b) >= 21, b[10] = Crc(u) PROVE FALSE
    BY DEF Decodes
  <1>1. /\ f \in Seq(Byte) /\ d \in Seq(Byte) /\ Len(d) = Len(f) /\ Len(f) \in Nat
        /\ \A j \in 1..Len(f) : j # i => d[j] = f[j]
        /\ d[i] # f[i]
    BY DEF Differs
  <1>2. b \in Seq(Byte) /\ Len(b) = e /\ \A j \in 1..e : b[j] = d[j]
    BY <1>1, FirstBytes
  <1> HIDE DEF b
  <1>3. /\ s \in Seq(Byte) /\ Len(s) = 8 /\ \A j \in 1..8 : s[j] = f[j + 1]
    BY <1>1, HeaderMiddle
  <1>4. /\ t \in Seq(Byte) /\ Len(t) = 8 /\ \A j \in 1..8 : t[j] = d[j + 1]
    BY <1>1, HeaderMiddle
  <1>5. /\ u \in Seq(Byte) /\ Len(u) = 8 /\ \A j \in 1..8 : u[j] = b[j + 1]
    BY <1>2, HeaderMiddle
  <1> HIDE DEF s, t, u
  <1>6. e >= 21 /\ b[10] = d[10] /\ \A j \in 1..8 : b[j + 1] = d[j + 1]
    BY <1>2
  <1>7. u = t
    <2>1. \A j \in 1..8 : u[j] = t[j]
      BY <1>4, <1>5, <1>6
    <2> QED
      BY <1>4, <1>5, <2>1, SeqEqual
  <1>8. CASE i = 10
    <2>1. \A j \in 1..8 : d[j + 1] = f[j + 1]
      BY <1>1, <1>8
    <2>2. t = s
      <3>1. \A j \in 1..8 : t[j] = s[j]
        BY <1>3, <1>4, <2>1
      <3> QED
        BY <1>3, <1>4, <3>1, SeqEqual
    <2> QED
      BY <1>1, <1>6, <1>7, <1>8, <2>2 DEF s
  <1>9. CASE i # 10
    <2> DEFINE k == i - 1
    <2>1. k \in 1..8 /\ k + 1 = i
      BY <1>9
    <2> HIDE DEF k
    <2>2. s[k] # t[k]
      BY <1>1, <1>3, <1>4, <2>1
    <2>3. \A j \in 1..8 : j # k => s[j] = t[j]
      <3> TAKE j \in 1..8
      <3>1. j # k => j + 1 # i /\ j + 1 \in 1..Len(f)
        BY <2>1, <1>1
      <3> QED
        BY <1>1, <1>3, <1>4, <3>1
    <2>4. Crc(s) # Crc(t)
      <3>1. Len(s) = Len(t) /\ k \in 1..Len(s)
            /\ \A j \in 1..Len(s) : j # k => s[j] = t[j]
        BY <1>3, <1>4, <2>1, <2>3
      <3> QED
        BY <1>3, <1>4, <2>2, <3>1, OneByteIsNoticed
    <2>5. d[10] = f[10]
      BY <1>1, <1>9
    <2> QED
      BY <1>6, <1>7, <2>4, <2>5 DEF s
  <1> QED
    BY <1>8, <1>9

\* A frame that never becomes an answer: it is never complete; or as many bytes as
\* its length says do not decode; or so few of them are taken for the frame that no
\* answer is left in the rest (see Stub).
Hopeless(d) ==
    /\ Len(d) >= 21
    /\ d[1] = 2 /\ d[2] = 253 /\ Expected(d) <= Len(d) =>
          \/ Expected(d) >= 12 /\ ~Decodes(SubSeq(d, 1, Expected(d)))
          \/ /\ Expected(d) < 12 /\ d[12] = 175
             /\ ReadU16(d, 2) < 2 => Len(d) <= 36

\* An answer to a question: none has a length between 36 and 38.
Sound(f) == /\ f \in Seq(Byte) /\ Decodes(f) /\ f[12] = 175
            /\ Len(f) <= 36 \/ Len(f) = 38

\* What is read of it before the CRC.
LEMMA SoundBytes ==
  ASSUME NEW f, Sound(f)
  PROVE  /\ f \in Seq(Byte) /\ Len(f) \in Nat /\ Len(f) >= 21
         /\ Len(f) <= 36 \/ Len(f) = 38
         /\ f[3] \in Nat /\ f[4] \in Nat /\ f[18] \in Nat /\ f[19] \in Nat
         /\ f[Len(f)] = 3 /\ f[12] = 175
         /\ f[3] + 256 * f[4] + 4 = Len(f)
         /\ Len(f) = 21 + f[18] + 256 * f[19]
         /\ f[10] = Crc(SubSeq(f, 2, 9))
  <1>1. f \in Seq(Byte) /\ Len(f) \in Nat /\ Len(f) >= 21
    BY DEF Sound, Decodes
  <1>2. \A j \in 1..Len(f) : f[j] \in Nat /\ f[j] \in Byte
    <2> TAKE j \in 1..Len(f)
    <2>1. f[j] \in Byte
      BY <1>1, ElementOfSeq
    <2> QED
      BY <2>1, ByteIs DEF IsByte
  <1>3. /\ f[Len(f)] = 3 /\ f[12] = 175 /\ (Len(f) <= 36 \/ Len(f) = 38)
        /\ ReadU16(f, 2) + 4 = Len(f) /\ Len(f) = 21 + ReadU16(f, 17)
        /\ f[10] = Crc(SubSeq(f, 2, 9))
    BY DEF Sound, Decodes
  <1>4. ReadU16(f, 2) = f[3] + 256 * f[4] /\ ReadU16(f, 17) = f[18] + 256 * f[19]
    BY DEF ReadU16
  <1>5. f[3] \in Nat /\ f[4] \in Nat /\ f[18] \in Nat /\ f[19] \in Nat
    <2>1. 3 \in 1..Len(f) /\ 4 \in 1..Len(f) /\ 18 \in 1..Len(f) /\ 19 \in 1..Len(f)
      BY <1>1
    <2> QED
      BY <1>2, <2>1
  <1>6. f[3] + 256 * f[4] + 4 = Len(f)
    BY <1>3, <1>4
  <1>7. Len(f) = 21 + f[18] + 256 * f[19]
    <2>1. Len(f) = 21 + (f[18] + 256 * f[19])
      BY <1>3, <1>4
    <2> QED
      BY <1>5, <2>1
  <1> QED
    BY <1>1, <1>3, <1>5, <1>6, <1>7

\* The other frame has the same length and the same bytes but one.
LEMMA OtherBytes ==
  ASSUME NEW f, Sound(f), NEW d, NEW i, Differs(f, d, i)
  PROVE  /\ d \in Seq(Byte) /\ Len(d) = Len(f) /\ i \in 1..Len(f) /\ d[i] # f[i]
         /\ d[3] \in Nat /\ d[4] \in Nat /\ d[18] \in Nat /\ d[19] \in Nat
         /\ 3 # i => d[3] = f[3]
         /\ 4 # i => d[4] = f[4]
         /\ 12 # i => d[12] = f[12]
         /\ 18 # i => d[18] = f[18]
         /\ 19 # i => d[19] = f[19]
  <1>1. d \in Seq(Byte) /\ Len(d) = Len(f) /\ i \in 1..Len(f) /\ d[i] # f[i]
    BY DEF Differs
  <1>2. \A j \in 1..Len(f) : d[j] \in Nat
    <2> TAKE j \in 1..Len(f)
    <2>1. d[j] \in Byte
      BY <1>1, ElementOfSeq
    <2> QED
      BY <2>1, ByteIs DEF IsByte
  <1>3. \A j \in 1..Len(f) : j # i => d[j] = f[j]
    BY DEF Differs
  <1>4. /\ 3 \in 1..Len(f) /\ 4 \in 1..Len(f) /\ 12 \in 1..Len(f)
        /\ 18 \in 1..Len(f) /\ 19 \in 1..Len(f)
    <2>1. Len(f) \in Nat /\ Len(f) >= 21
      BY SoundBytes
    <2> QED
      BY <2>1
  <1> QED
    BY <1>1, <1>2, <1>3, <1>4

\* Two bytes of a small number.
LEMMA SmallNumber ==
  ASSUME NEW a \in Nat, NEW b \in Nat, NEW n \in Nat, n < 256, a + 256 * b = n
  PROVE  b = 0 /\ a = n
  OBVIOUS

\* A flipped bit in 34, the length field of the longest answer.
LEMMA LongestFlipped ==
  ASSUME NEW bit \in Bits
  PROVE  Xor(34, bit) >= 2
  BY DEF Bits, Xor

\* A bit in the length of the frame: it is too long, or its header does not pass,
\* or it is shorter than a header.
LEMMA LengthIsChecked ==
  ASSUME NEW f, Sound(f), NEW d, NEW i \in {3, 4}, Differs(f, d, i),
         NEW bit \in Bits, d[i] = Xor(f[i], bit)
  PROVE  Hopeless(d)
  <1> DEFINE n == Len(f)
  <1>1. n \in Nat /\ n >= 21 /\ (n <= 36 \/ n = 38) /\ f[12] = 175
        /\ f[3] \in Nat /\ f[4] \in Nat
        /\ f[3] + 256 * f[4] + 4 = n /\ f[10] = Crc(SubSeq(f, 2, 9))
    BY SoundBytes
  <1>2. /\ d \in Seq(Byte) /\ Len(d) = n /\ d[12] = 175
        /\ d[3] \in Nat /\ d[4] \in Nat /\ d[i] # f[i]
        /\ i = 3 => d[4] = f[4]
        /\ i = 4 => d[3] = f[3]
    <2>1. /\ d \in Seq(Byte) /\ Len(d) = n /\ d[3] \in Nat /\ d[4] \in Nat
          /\ d[i] # f[i]
      BY OtherBytes
    <2>2. d[12] = f[12]
      <3>1. 12 # i
        OBVIOUS
      <3> QED
        BY <3>1, OtherBytes
    <2>3. d[12] = 175
      BY <1>1, <2>2
    <2>4. i = 3 => d[4] = f[4]
      <3>1. i = 3 => 4 # i
        OBVIOUS
      <3> QED
        BY <3>1, OtherBytes
    <2>5. i = 4 => d[3] = f[3]
      <3>1. i = 4 => 3 # i
        OBVIOUS
      <3> QED
        BY <3>1, OtherBytes
    <2> QED
      BY <2>1, <2>3, <2>4, <2>5
  <1>3. ReadU16(d, 2) = d[3] + 256 * d[4]
    BY DEF ReadU16
  <1>4. Expected(d) = d[3] + 256 * d[4] + 4
    BY <1>2, <1>3 DEF Expected
  <1> HIDE DEF n
  <1>5. CASE Expected(d) > n
    BY <1>1, <1>2, <1>4, <1>5 DEF Hopeless
  <1>6. CASE Expected(d) <= n /\ Expected(d) >= 12
    <2>1. Expected(d) \in 0..Len(d)
      BY <1>1, <1>2, <1>4, <1>6
    <2>2. i \in 2..10 /\ Len(f) >= 21 /\ f[10] = Crc(SubSeq(f, 2, 9))
      BY <1>1 DEF n
    <2>3. ~Decodes(SubSeq(d, 1, Expected(d)))
      BY <2>1, <2>2, HeaderIsChecked
    <2> QED
      BY <1>1, <1>2, <1>6, <2>3 DEF Hopeless
  <1>7. CASE Expected(d) < 12
    <2>1. d[3] + 256 * d[4] < 2 => n <= 36
      <3> SUFFICES ASSUME d[3] + 256 * d[4] < 2, n = 38 PROVE FALSE
        BY <1>1
      <3>1. f[4] = 0 /\ f[3] = 34
        <4>1. f[3] \in Nat /\ f[4] \in Nat /\ f[3] + 256 * f[4] = 34
          BY <1>1
        <4> QED
          BY <4>1, SmallNumber
      <3>2. d[4] = 0 /\ d[3] < 2
        <4> DEFINE m == d[3] + 256 * d[4]
        <4>1. d[3] \in Nat /\ d[4] \in Nat /\ m \in Nat
          BY <1>2
        <4>2. m < 2
          OBVIOUS
        <4>3. d[4] = 0 /\ d[3] = m
          BY <4>1, <4>2, SmallNumber
        <4> QED
          BY <4>2, <4>3
      <3>3. i = 3
        BY <1>2, <3>1, <3>2
      <3>4. d[3] = Xor(34, bit)
        BY <3>1, <3>3
      <3> QED
        BY <1>2, <3>2, <3>4, LongestFlipped
    <2> QED
      BY <1>1, <1>2, <1>3, <1>7, <2>1 DEF Hopeless
  <1> QED
    BY <1>1, <1>2, <1>4, <1>5, <1>6, <1>7

\* The length rule gives the whole frame when neither the length nor the mark of
\* an answer has changed.
LEMMA WholeFrame ==
  ASSUME NEW f, Sound(f), NEW d, NEW i, Differs(f, d, i), i \notin {3, 4, 12}
  PROVE  /\ Expected(d) = Len(d) /\ Len(d) >= 21
         /\ SubSeq(d, 1, Expected(d)) = d /\ Len(d) \in 0..Len(d)
  <1>1. Len(f) \in Nat /\ Len(f) >= 21 /\ f[3] + 256 * f[4] + 4 = Len(f) /\ f[12] = 175
    BY SoundBytes
  <1>2. /\ d \in Seq(Byte) /\ Len(d) = Len(f)
        /\ d[3] = f[3] /\ d[4] = f[4] /\ d[12] = f[12]
    BY OtherBytes
  <1>3. Expected(d) = Len(d)
    <2>1. f[3] \in Nat /\ f[4] \in Nat
      BY SoundBytes
    <2>2. Expected(d) = f[3] + 256 * f[4] + 4
      BY <1>1, <1>2 DEF Expected, ReadU16
    <2> QED
      BY <1>1, <1>2, <2>2
  <1>4. SubSeq(d, 1, Len(d)) = d
    BY <1>2
  <1> QED
    BY <1>1, <1>2, <1>3, <1>4

\* A frame whose last byte, payload length or header has changed does not decode.
LEMMA RestIsChecked ==
  ASSUME NEW f, Sound(f), NEW d, NEW i, Differs(f, d, i),
         i \in 5..10 \/ i \in {18, 19} \/ i = Len(f)
  PROVE  Hopeless(d)
  <1>1. Len(f) \in Nat /\ Len(f) >= 21
    BY SoundBytes
  <1>2. i \notin {3, 4, 12}
    BY <1>1
  <1>3. /\ Expected(d) = Len(d) /\ Len(d) >= 21
        /\ SubSeq(d, 1, Expected(d)) = d /\ Len(d) \in 0..Len(d)
    BY <1>2, WholeFrame
  <1>4. d \in Seq(Byte) /\ Len(d) = Len(f) /\ d[i] # f[i]
    BY OtherBytes
  <1>5. ~Decodes(d)
    <2>1. CASE i \in 5..10
      <3>1. i \in 2..10 /\ f[10] = Crc(SubSeq(f, 2, 9))
        BY <2>1, SoundBytes
      <3>2. ~Decodes(SubSeq(d, 1, Len(d)))
        BY <1>1, <1>3, <3>1, HeaderIsChecked
      <3> QED
        BY <1>3, <3>2
    <2>2. CASE i = 18 \/ i = 19
      <3>1. Len(f) = 21 + f[18] + 256 * f[19]
        BY SoundBytes
      <3>2. /\ d[18] \in Nat /\ d[19] \in Nat /\ f[18] \in Nat /\ f[19] \in Nat
            /\ i = 18 => d[19] = f[19]
            /\ i = 19 => d[18] = f[18]
        BY OtherBytes, SoundBytes
      <3>3. ReadU16(d, 17) = d[18] + 256 * d[19]
        BY DEF ReadU16
      <3>4. d[18] + 256 * d[19] # f[18] + 256 * f[19]
        <4>1. CASE i = 18
          BY <1>4, <3>2, <4>1
        <4>2. CASE i = 19
          BY <1>4, <3>2, <4>2
        <4> QED
          BY <2>2, <4>1, <4>2
      <3>5. Len(d) # 21 + ReadU16(d, 17)
        <4> DEFINE x == d[18] + 256 * d[19]
                   y == f[18] + 256 * f[19]
        <4>1. d[18] \in Nat /\ d[19] \in Nat /\ f[18] \in Nat /\ f[19] \in Nat
          BY <3>2
        <4>2. x \in Nat
          BY <4>1
        <4>3. y \in Nat
          BY <4>1
        <4>4. Len(f) = 21 + y
          BY <1>1, <3>1, <4>1
        <4>5. x # y /\ ReadU16(d, 17) = x
          BY <3>3, <3>4
        <4> HIDE DEF x, y
        <4> QED
          BY <1>4, <4>2, <4>3, <4>4, <4>5
      <3> QED
        BY <3>5 DEF Decodes
    <2>3. CASE i = Len(f)
      <3>1. d[Len(d)] # 3
        BY <1>4, <2>3, SoundBytes
      <3> QED
        BY <3>1 DEF Decodes
    <2> QED
      BY <2>1, <2>2, <2>3
  <1>6. ~Decodes(SubSeq(d, 1, Expected(d)))
    BY <1>3, <1>5
  <1>7. Expected(d) >= 12
    BY <1>1, <1>3, <1>4
  <1> QED
    BY <1>3, <1>6, <1>7 DEF Hopeless

\* A frame that is no answer any more loses two bytes.
LEMMA MarkIsChecked ==
  ASSUME NEW f, Sound(f), NEW d, Differs(f, d, 12)
  PROVE  Hopeless(d)
  <1> DEFINE n == Len(f)
  <1>1. n \in Nat /\ n >= 21 /\ f[3] + 256 * f[4] + 4 = n /\ f[12] = 175
    BY SoundBytes
  <1>2. /\ d \in Seq(Byte) /\ Len(d) = n /\ d[12] # 175
        /\ d[3] = f[3] /\ d[4] = f[4] /\ f[3] \in Nat /\ f[4] \in Nat
    <2>1. d \in Seq(Byte) /\ Len(d) = n /\ d[12] # f[12]
      BY OtherBytes
    <2>2. d[3] = f[3] /\ d[4] = f[4]
      <3>1. 3 # 12 /\ 4 # 12
        OBVIOUS
      <3> QED
        BY <3>1, OtherBytes
    <2>3. f[3] \in Nat /\ f[4] \in Nat
      BY SoundBytes
    <2> QED
      BY <1>1, <2>1, <2>2, <2>3
  <1> HIDE DEF n
  <1>3. ReadU16(d, 2) = n - 4 /\ Expected(d) = n - 2
    <2>1. ReadU16(d, 2) = f[3] + 256 * f[4]
      BY <1>2 DEF ReadU16
    <2>2. ReadU16(d, 2) = n - 4
      BY <1>1, <1>2, <2>1
    <2> QED
      BY <1>1, <1>2, <2>2 DEF Expected
  <1> DEFINE e == Expected(d)
             b == SubSeq(d, 1, e)
  <1>4. e \in 0..Len(d) /\ e = n - 2 /\ e >= 12
    BY <1>1, <1>2, <1>3
  <1> HIDE DEF e
  <1>5. Len(b) = e /\ b[3] = d[3] /\ b[4] = d[4]
    <2>1. b \in Seq(Byte) /\ Len(b) = e /\ \A j \in 1..e : b[j] = d[j]
      BY <1>2, <1>4, FirstBytes
    <2>2. 3 \in 1..e /\ 4 \in 1..e
      BY <1>4
    <2> QED
      BY <2>1, <2>2
  <1> HIDE DEF b
  <1>6. ReadU16(b, 2) = ReadU16(d, 2)
    BY <1>5 DEF ReadU16
  <1>7. ReadU16(b, 2) + 4 # Len(b)
    BY <1>1, <1>3, <1>4, <1>5, <1>6
  <1>8. ~Decodes(b)
    BY <1>7 DEF Decodes
  <1> QED
    BY <1>1, <1>2, <1>4, <1>8 DEF Hopeless, b, e

\* decode_response() takes no answer with a flipped bit in a byte that is checked,
\* and neither does what the length rule makes of it.
LEMMA FlippedIsHopeless ==
  ASSUME NEW f, Sound(f), NEW i \in 1..Len(f), i - 1 \in Protected \/ i = Len(f),
         NEW bit \in Bits
  PROVE  LET d == [f EXCEPT ![i] = Xor(@, bit)]
         IN  d \in Seq(Byte) /\ Hopeless(d)
  <1> DEFINE d == [f EXCEPT ![i] = Xor(@, bit)]
  <1>1. Differs(f, d, i) /\ d[i] = Xor(f[i], bit)
    <2>1. f \in Seq(Byte)
      BY DEF Sound
    <2> QED
      BY <2>1, FlipDiffers
  <1> HIDE DEF d
  <1>2. d \in Seq(Byte)
    BY <1>1 DEF Differs
  <1>3. i \in {1, 2} \/ i \in {3, 4} \/ i \in 5..10 \/ i = 12 \/ i \in {18, 19}
        \/ i = Len(f)
    <2>1. i \in Int
      BY DEF Sound
    <2> QED
      BY <2>1 DEF Protected
  <1>4. ASSUME i \in {1, 2} PROVE Hopeless(d)
    <2>1. Len(f) >= 21 /\ f[1] = 2 /\ f[2] = 253
      BY DEF Sound, Decodes
    <2>2. Len(d) >= 21 /\ d[i] # f[i]
      BY <1>1, <2>1 DEF Differs
    <2>3. d[1] # 2 \/ d[2] # 253
      BY <1>4, <2>1, <2>2
    <2> QED
      BY <2>2, <2>3 DEF Hopeless
  <1>5. i \in {3, 4} => Hopeless(d)
    BY <1>1, LengthIsChecked
  <1>6. i \in 5..10 \/ i \in {18, 19} \/ i = Len(f) => Hopeless(d)
    BY <1>1, RestIsChecked
  <1>7. i = 12 => Hopeless(d)
    BY <1>1, MarkIsChecked
  <1>8. Hopeless(d)
    BY <1>3, <1>4, <1>5, <1>6, <1>7
  <1> QED
    BY <1>2, <1>8 DEF d

-----------------------------------------------------------------------------
(* What the notifications make of it *)

\* What is left in the buffer when fewer bytes were taken for the frame than a
\* header has, with w on its way: its length field is too small for an answer, or,
\* where even the field was cut off, there are too few bytes for one.
Stub(b, w) ==
    \/ /\ Len(b) >= 4 /\ ReadU16(b, 2) < 17
       /\ ReadU16(b, 2) < 2 => Len(b) + Len(w) <= 29
    \/ Len(b) + Len(w) <= 20

\* A complete frame that does not decode.
Frozen(b) == IsComplete(b) /\ Len(b) = Expected(b) /\ ~Decodes(b)

\* What NOTIFY_RX leaves in the buffer.
Kept(g) == IF IsComplete(g) THEN SubSeq(g, 1, Expected(g)) ELSE g

\* The length rule on a buffer.
LEMMA LengthRule ==
  ASSUME NEW g \in Seq(Byte)
  PROVE  /\ Len(g) \in Nat
         /\ Len(g) >= 4 => ReadU16(g, 2) \in Nat
         /\ Len(g) >= 12 => /\ Expected(g) \in Nat
                            /\ Expected(g) = ReadU16(g, 2) + 4
                               \/ Expected(g) = ReadU16(g, 2) + 2
                            /\ g[12] = 175 => Expected(g) = ReadU16(g, 2) + 4
  <1>1. Len(g) \in Nat
    OBVIOUS
  <1>2. ASSUME Len(g) >= 4 PROVE ReadU16(g, 2) \in Nat
    <2>1. 3 \in 1..Len(g) /\ 4 \in 1..Len(g)
      BY <1>1, <1>2
    <2>2. g[3] \in Byte /\ g[4] \in Byte
      BY <2>1, ElementOfSeq
    <2>3. g[3] \in Nat /\ g[4] \in Nat
      BY <2>2, ByteIs DEF IsByte
    <2>4. ReadU16(g, 2) = g[3] + 256 * g[4]
      BY DEF ReadU16
    <2> QED
      BY <2>3, <2>4
  <1>3. ASSUME Len(g) >= 12
        PROVE  /\ Expected(g) \in Nat
               /\ Expected(g) = ReadU16(g, 2) + 4 \/ Expected(g) = ReadU16(g, 2) + 2
               /\ g[12] = 175 => Expected(g) = ReadU16(g, 2) + 4
    <2>1. ReadU16(g, 2) \in Nat
      BY <1>1, <1>2, <1>3
    <2> QED
      BY <2>1 DEF Expected
  <1> QED
    BY <1>1, <1>2, <1>3

\* The first bytes of a longer sequence.
Begins(g, d) == /\ Len(g) <= Len(d)
                /\ \A j \in 1..Len(g) : d[j] = g[j]

\* What has come begins what has come and will.
LEMMA PartBegins ==
  ASSUME NEW b \in Seq(Byte), NEW w \in Seq(Byte)
  PROVE  /\ b \o w \in Seq(Byte) /\ Len(b \o w) = Len(b) + Len(w)
         /\ Len(b) \in Nat /\ Len(w) \in Nat
         /\ Begins(b, b \o w)
  <1>1. b \o w \in Seq(Byte) /\ Joined(b \o w, b, w)
    BY Joining
  <1>2. Len(b) \in Nat /\ Len(w) \in Nat
    OBVIOUS
  <1> QED
    BY <1>1, <1>2 DEF Joined, Begins

\* The length field and the length rule look at bytes that are there already.
LEMMA SameLength ==
  ASSUME NEW g \in Seq(Byte), NEW d \in Seq(Byte), Begins(g, d)
  PROVE  /\ Len(g) >= 4 => ReadU16(g, 2) = ReadU16(d, 2)
         /\ Len(g) >= 12 => /\ Expected(g) = Expected(d)
                            /\ g[1] = d[1] /\ g[2] = d[2] /\ g[12] = d[12]
  <1>1. Len(g) \in Nat
    OBVIOUS
  <1>2. \A j \in 1..Len(g) : d[j] = g[j]
    BY DEF Begins
  <1>3. ASSUME Len(g) >= 4 PROVE ReadU16(g, 2) = ReadU16(d, 2)
    <2>1. 3 \in 1..Len(g) /\ 4 \in 1..Len(g)
      BY <1>1, <1>3
    <2>2. d[3] = g[3] /\ d[4] = g[4]
      BY <1>2, <2>1
    <2> QED
      BY <2>2 DEF ReadU16
  <1>4. ASSUME Len(g) >= 12
        PROVE  /\ Expected(g) = Expected(d)
               /\ g[1] = d[1] /\ g[2] = d[2] /\ g[12] = d[12]
    <2>1. 1 \in 1..Len(g) /\ 2 \in 1..Len(g) /\ 12 \in 1..Len(g)
      BY <1>1, <1>4
    <2>2. g[1] = d[1] /\ g[2] = d[2] /\ g[12] = d[12]
      BY <1>2, <2>1
    <2>3. ReadU16(g, 2) = ReadU16(d, 2)
      BY <1>1, <1>3, <1>4
    <2> QED
      BY <2>2, <2>3 DEF Expected
  <1> QED
    BY <1>3, <1>4

\* The first e bytes of g are the first bytes of it.
LEMMA CutBegins ==
  ASSUME NEW g \in Seq(Byte), NEW e \in 0..Len(g)
  PROVE  LET b == SubSeq(g, 1, e)
         IN  b \in Seq(Byte) /\ Len(b) = e /\ Begins(b, g)
  <1> DEFINE b == SubSeq(g, 1, e)
  <1>1. b \in Seq(Byte) /\ Len(b) = e /\ \A j \in 1..e : b[j] = g[j]
    BY FirstBytes
  <1> HIDE DEF b
  <1>2. Len(g) \in Nat /\ e <= Len(g)
    OBVIOUS
  <1>3. Begins(b, g)
    BY <1>1, <1>2 DEF Begins
  <1> QED
    BY <1>1, <1>3 DEF b

\* The first time the buffer is taken for a frame.
LEMMA HopelessEnds ==
  ASSUME NEW g \in Seq(Byte), NEW r \in Seq(Byte), Hopeless(g \o r), IsComplete(g)
  PROVE  Frozen(Kept(g)) \/ Stub(Kept(g), r)
  <1> DEFINE d == g \o r
             e == Expected(g)
             b == SubSeq(g, 1, e)
  <1>1. /\ d \in Seq(Byte) /\ Len(d) = Len(g) + Len(r) /\ Begins(g, d)
        /\ Len(g) \in Nat /\ Len(r) \in Nat
    BY PartBegins
  <1>2. Hopeless(d)
    OBVIOUS
  <1> HIDE DEF d
  <1>3. Len(g) >= 12 /\ g[1] = 2 /\ g[2] = 253 /\ Len(g) >= e
    BY DEF IsComplete
  <1>4. /\ e \in Nat /\ ReadU16(g, 2) \in Nat
        /\ e = ReadU16(g, 2) + 4 \/ e = ReadU16(g, 2) + 2
        /\ g[12] = 175 => e = ReadU16(g, 2) + 4
    BY <1>1, <1>3, LengthRule
  <1>5. /\ e = Expected(d) /\ ReadU16(g, 2) = ReadU16(d, 2)
        /\ d[1] = 2 /\ d[2] = 253 /\ g[12] = d[12]
    BY <1>1, <1>3, SameLength
  <1>6. Kept(g) = b
    BY DEF Kept
  <1> HIDE DEF e
  <1>7. b \in Seq(Byte) /\ Len(b) = e /\ Begins(b, g)
    BY <1>1, <1>3, <1>4, CutBegins
  <1>8. \/ e >= 12 /\ ~Decodes(SubSeq(d, 1, e))
        \/ /\ e < 12 /\ d[12] = 175
           /\ ReadU16(d, 2) < 2 => Len(d) <= 36
    BY <1>1, <1>2, <1>3, <1>4, <1>5 DEF Hopeless
  <1>9. CASE e >= 12 /\ ~Decodes(SubSeq(d, 1, e))
    <2>1. SubSeq(d, 1, e) = b
      <3>1. e \in 0..Len(d)
        BY <1>1, <1>3, <1>4
      <3> DEFINE c == SubSeq(d, 1, e)
      <3>2. c \in Seq(Byte) /\ Len(c) = e /\ \A j \in 1..e : c[j] = d[j]
        BY <1>1, <3>1, FirstBytes
      <3> HIDE DEF b, c
      <3>3. \A j \in 1..e : c[j] = b[j]
        <4> TAKE j \in 1..e
        <4>1. j \in 1..Len(g) /\ j \in 1..Len(b)
          BY <1>1, <1>3, <1>4, <1>7
        <4>2. g[j] = b[j] /\ d[j] = g[j]
          BY <1>1, <1>7, <4>1 DEF Begins
        <4> QED
          BY <3>2, <4>2
      <3>4. c = b
        BY <1>7, <3>2, <3>3, SeqEqual
      <3> QED
        BY <3>4 DEF c
    <2> HIDE DEF b
    <2>2. /\ Expected(b) = Expected(g) /\ b[1] = g[1] /\ b[2] = g[2]
      BY <1>7, <1>9, SameLength
    <2>3. IsComplete(b) /\ Len(b) = Expected(b)
      BY <1>3, <1>4, <1>7, <1>9, <2>2 DEF IsComplete, e
    <2> QED
      BY <1>6, <1>9, <2>1, <2>3 DEF Frozen
  <1>10. CASE e < 12 /\ d[12] = 175 /\ (ReadU16(d, 2) < 2 => Len(d) <= 36)
    <2> HIDE DEF b
    <2>1. e = ReadU16(g, 2) + 4
      BY <1>4, <1>5, <1>10
    <2>2. Len(b) >= 4 /\ ReadU16(b, 2) = ReadU16(g, 2)
      <3>1. Len(b) >= 4
        BY <1>4, <1>7, <2>1
      <3> QED
        BY <1>7, <3>1, SameLength
    <2>3. ReadU16(b, 2) < 17
      BY <1>4, <1>10, <2>1, <2>2
    <2>4. ReadU16(b, 2) < 2 => Len(b) + Len(r) <= 29
      <3> SUFFICES ASSUME ReadU16(b, 2) < 2 PROVE Len(b) + Len(r) <= 29
        OBVIOUS
      <3>1. Len(d) <= 36 /\ e <= 5
        BY <1>4, <1>5, <1>10, <2>1, <2>2
      <3> QED
        BY <1>1, <1>3, <1>4, <1>7, <3>1
    <2> QED
      BY <1>6, <2>2, <2>3, <2>4 DEF Stub
  <1> QED
    BY <1>8, <1>9, <1>10

\* A complete frame stays as it is: what comes behind it is cut off.
LEMMA FrozenStays ==
  ASSUME NEW b \in Seq(Byte), NEW w \in Seq(Byte), Frozen(b)
  PROVE  Kept(b \o w) = b
  <1> DEFINE g == b \o w
             n == Len(b)
             c == SubSeq(g, 1, n)
  <1>1. /\ g \in Seq(Byte) /\ Len(g) = n + Len(w) /\ Begins(b, g)
        /\ n \in Nat /\ Len(w) \in Nat
    BY PartBegins
  <1> HIDE DEF g
  <1>2. n >= 12 /\ b[1] = 2 /\ b[2] = 253 /\ Expected(b) = n
    BY DEF Frozen, IsComplete
  <1>3. Expected(g) = n /\ g[1] = 2 /\ g[2] = 253
    BY <1>1, <1>2, SameLength
  <1>4. IsComplete(g)
    BY <1>1, <1>2, <1>3 DEF IsComplete
  <1>5. c \in Seq(Byte) /\ Len(c) = n /\ Begins(c, g)
    <2>1. n \in 0..Len(g)
      BY <1>1
    <2> QED
      BY <1>1, <2>1, CutBegins
  <1> HIDE DEF c
  <1>6. \A j \in 1..n : c[j] = b[j]
    BY <1>1, <1>5 DEF Begins
  <1>7. c = b
    BY <1>5, <1>6, SeqEqual
  <1>8. Kept(g) = b
    BY <1>3, <1>4, <1>7 DEF Kept, c
  <1> QED
    BY <1>8 DEF g

\* A stub stays one, however often it is cut.
LEMMA StubStays ==
  ASSUME NEW b \in Seq(Byte), NEW w \in Seq(Byte), NEW r \in Seq(Byte),
         Stub(b, w \o r)
  PROVE  Stub(Kept(b \o w), r)
  <1> DEFINE g == b \o w
             k == Kept(g)
             len == ReadU16(b, 2)
  <1>1. /\ g \in Seq(Byte) /\ Len(g) = Len(b) + Len(w) /\ Begins(b, g)
        /\ Len(b) \in Nat /\ Len(w) \in Nat
    BY PartBegins
  <1>2. Len(w \o r) = Len(w) + Len(r) /\ Len(r) \in Nat
    BY PartBegins
  <1>3. \/ /\ Len(b) >= 4 /\ len < 17
           /\ len < 2 => Len(g) + Len(r) <= 29
        \/ Len(g) + Len(r) <= 20
    BY <1>1, <1>2 DEF Stub
  <1> HIDE DEF g
  <1>4. Len(g) \in Nat
    BY <1>1
  <1>5. ASSUME ~IsComplete(g) PROVE Stub(k, r)
    <2>1. k = g
      BY <1>5 DEF Kept
    <2>2. Len(b) >= 4 => Len(g) >= 4 /\ ReadU16(g, 2) = len
      BY <1>1, SameLength
    <2> QED
      BY <1>3, <2>1, <2>2 DEF Stub
  <1>6. ASSUME IsComplete(g) PROVE Stub(k, r)
    <2> DEFINE e == Expected(g)
    <2>1. Len(g) >= 12 /\ Len(g) >= e
      BY <1>6 DEF IsComplete
    <2>2. /\ e \in Nat /\ ReadU16(g, 2) \in Nat
          /\ e = ReadU16(g, 2) + 4 \/ e = ReadU16(g, 2) + 2
      BY <1>1, <2>1, LengthRule
    <2>3. k = SubSeq(g, 1, e)
      BY <1>6 DEF Kept
    <2> HIDE DEF e
    <2>4. Len(k) = e /\ k \in Seq(Byte) /\ Begins(k, g)
      BY <1>1, <2>1, <2>2, <2>3, CutBegins
    <2> HIDE DEF k
    <2>5. CASE Len(g) + Len(r) <= 20
      <3>1. Len(k) + Len(r) <= 20
        BY <1>2, <1>4, <2>1, <2>2, <2>4, <2>5
      <3> QED
        BY <3>1 DEF Stub
    <2>6. CASE Len(b) >= 4 /\ len < 17 /\ (len < 2 => Len(g) + Len(r) <= 29)
      <3>1. ReadU16(g, 2) = len
        BY <1>1, <2>6, SameLength
      <3>2. CASE e >= 4
        <4>1. ReadU16(k, 2) = len
          BY <1>1, <2>4, <3>1, <3>2, SameLength
        <4>2. len < 2 => Len(k) + Len(r) <= 29
          BY <1>2, <1>4, <2>1, <2>2, <2>4, <2>6
        <4> QED
          BY <2>4, <2>6, <3>2, <4>1, <4>2 DEF Stub
      <3>3. CASE e < 4
        <4>1. len < 2
          BY <2>2, <3>1, <3>3
        <4>2. Len(k) + Len(r) <= 20
          BY <1>2, <1>4, <2>1, <2>2, <2>4, <2>6, <3>3, <4>1
        <4> QED
          BY <4>2 DEF Stub
      <3> QED
        BY <2>2, <3>2, <3>3
    <2> QED
      BY <1>3, <2>5, <2>6
  <1> QED
    BY <1>5, <1>6 DEF g, k

\* No stub decodes.
LEMMA StubFails ==
  ASSUME NEW b \in Seq(Byte), NEW w \in Seq(Byte), Stub(b, w)
  PROVE  ~Decodes(b)
  <1> SUFFICES ASSUME Len(b) >= 21, ReadU16(b, 2) + 4 = Len(b) PROVE FALSE
    BY DEF Decodes
  <1>1. Len(b) \in Nat /\ Len(w) \in Nat /\ ReadU16(b, 2) \in Nat
    BY LengthRule
  <1> QED
    BY <1>1 DEF Stub

-----------------------------------------------------------------------------
(* Answers are bytes *)

\* So many bytes.
Bytes(s, n) == s \in Seq(Byte) /\ Len(s) = n

\* Bytes after bytes.
LEMMA MoreBytes ==
  ASSUME NEW s, NEW t, NEW m \in Nat, NEW n \in Nat, Bytes(s, m), Bytes(t, n)
  PROVE  Bytes(s \o t, m + n)
  BY DEF Bytes

\* Two bytes and four bytes.
LEMMA NumbersAreBytes ==
  ASSUME NEW n \in Nat
  PROVE  Bytes(U16(n), 2) /\ Bytes(U32(n), 4)
  <1>1. ASSUME NEW m \in Nat PROVE Bytes(U16(m), 2)
    <2> DEFINE a == m % 256
               b == (m \div 256) % 256
    <2>1. a \in Byte /\ b \in Byte
      <3>1. IsByte(a) /\ IsByte(b)
        BY DEF IsByte
      <3> QED
        BY <3>1, ByteIs
    <2>2. U16(m) = <<a, b>>
      BY DEF U16
    <2> HIDE DEF a, b
    <2> QED
      BY <2>1, <2>2 DEF Bytes
  <1>2. Bytes(U32(n), 4)
    <2> DEFINE a == n % 65536
               b == n \div 65536
    <2>1. a \in Nat /\ b \in Nat
      OBVIOUS
    <2>2. U32(n) = U16(a) \o U16(b)
      BY DEF U32
    <2> HIDE DEF a, b
    <2>3. Bytes(U16(a), 2) /\ Bytes(U16(b), 2) /\ 2 \in Nat /\ 2 + 2 = 4
      BY <1>1, <2>1
    <2>4. Bytes(U16(a) \o U16(b), 2 + 2)
      BY <2>3, MoreBytes, Zenon
    <2> QED
      BY <2>2, <2>3, <2>4
  <1> QED
    BY <1>1, <1>2

\* The payload of an answer: a few bytes, and none has 16.
Payload(p) == /\ p \in Seq(Byte) /\ Fits(p)
              /\ Len(p) <= 15 \/ Len(p) = 17

\* A byte, as a number and as an element.
LEMMA SomeBytes ==
  /\ \A a \in Byte : a \in Nat
  /\ 0 \in Byte /\ 1 \in Byte /\ 2 \in Byte /\ 3 \in Byte /\ 175 \in Byte /\ 253 \in Byte
  BY DEF Byte

\* A function on the first n numbers is a sequence.
LEMMA BytesOf ==
  ASSUME NEW n \in Nat, NEW c \in [1..n -> Byte]
  PROVE  c \in Seq(Byte) /\ Len(c) = n
  OBVIOUS

\* An entry of the schedule, with what some models append.
LEMMA EntryIsPayload ==
  ASSUME NEW t \in Tasks, NEW more \in Appended
  PROVE  Payload(TaskPayload(t) \o more)
  <1> DEFINE a == U32(t.start)
             b == U32(t.duration)
             c == [i \in 1..7 |-> IF t.use_on[i] THEN 1 ELSE 0]
             p == a \o b \o c
  <1>1. t.start \in Nat /\ t.duration \in Nat
    BY StreamConstants
  <1>2. Bytes(a, 4) /\ Bytes(b, 4)
    BY <1>1, NumbersAreBytes
  <1>3. Bytes(c, 7)
    <2>1. c \in [1..7 -> Byte] /\ 7 \in Nat
      BY SomeBytes
    <2> HIDE DEF c
    <2>2. c \in Seq(Byte) /\ Len(c) = 7
      BY <2>1, BytesOf
    <2> QED
      BY <2>2 DEF Bytes
  <1>4. TaskPayload(t) = p
    BY DEF TaskPayload
  <1> HIDE DEF a, b, c
  <1>5. Bytes(p, 15)
    <2>1. 4 \in Nat /\ 7 \in Nat /\ 4 + 4 \in Nat /\ (4 + 4) + 7 = 15
      OBVIOUS
    <2>2. Bytes(a \o b, 4 + 4)
      BY <1>2, <2>1, MoreBytes, Zenon
    <2>3. Bytes((a \o b) \o c, (4 + 4) + 7)
      BY <1>3, <2>1, <2>2, MoreBytes, Zenon
    <2> QED
      BY <2>1, <2>3
  <1> HIDE DEF p
  <1>6. Bytes(more, 0) \/ Bytes(more, 2)
    <2>1. CASE more = << >>
      BY <2>1 DEF Bytes
    <2>2. CASE more = <<1, 3>>
      BY <2>2, SomeBytes DEF Bytes
    <2> QED
      BY <2>1, <2>2 DEF Appended
  <1>7. Bytes(p \o more, 15 + 0) \/ Bytes(p \o more, 15 + 2)
    <2>1. 0 \in Nat /\ 2 \in Nat /\ 15 \in Nat
      OBVIOUS
    <2> QED
      BY <1>5, <1>6, <2>1, MoreBytes
  <1>8. Fits(p \o more)
    BY <1>4, TaskIsDecoded
  <1> QED
    BY <1>4, <1>7, <1>8 DEF Payload, Bytes

\* The two other answers: nothing and one byte.
LEMMA ShortPayloads == Payload(<< >>) /\ Payload(<<175>>)
  BY Small, SomeBytes DEF Payload

\* Every byte of a header is one.
LEMMA HeaderIsBytes ==
  ASSUME NEW len \in Nat, NEW channel \in Nat, NEW linked \in Byte
  PROVE  Header(len, channel, linked) \in Seq(Byte)
  <1> DEFINE a == U16(len)
             b == U32(channel)
             s == <<2, 253>>
             e == <<linked>>
             o == s \o a \o b \o e
  <1>1. a \in Seq(Byte) /\ b \in Seq(Byte)
    BY NumbersAreBytes DEF Bytes
  <1>2. s \in Seq(Byte) /\ e \in Seq(Byte) /\ Len(e) = 1
    BY SomeBytes
  <1>3. Header(len, channel, linked) = Append(o, Crc(Tail(o)))
    BY DEF Header
  <1> HIDE DEF a, b, s, e
  <1>4. o \in Seq(Byte) /\ o # << >>
    <2> DEFINE sab == s \o a \o b
    <2>1. sab \in Seq(Byte)
      BY <1>1, <1>2
    <2> HIDE DEF sab
    <2>2. sab \o e \in Seq(Byte) /\ sab \o e # << >>
      <3>1. Bytes(sab, Len(sab)) /\ Bytes(e, 1) /\ Len(sab) \in Nat /\ 1 \in Nat
        BY <1>2, <2>1 DEF Bytes
      <3>2. Bytes(sab \o e, Len(sab) + 1)
        BY <3>1, MoreBytes, Zenon
      <3> DEFINE o2 == sab \o e
      <3>3. o2 \in Seq(Byte) /\ Len(o2) = Len(sab) + 1
        BY <3>2 DEF Bytes
      <3> HIDE DEF o2
      <3>4. o2 \in Seq(Byte) /\ o2 # << >>
        BY <3>1, <3>3
      <3> QED
        BY <3>4 DEF o2
    <2> QED
      BY <2>2 DEF sab
  <1> HIDE DEF o
  <1>5. Tail(o) \in Seq(Byte)
    BY <1>4
  <1>6. Crc(Tail(o)) \in Byte
    BY <1>5, CrcIsByte
  <1> QED
    BY <1>3, <1>4, <1>6

\* An answer is made of bytes, and as long as its payload makes it.
LEMMA AnswerIsBytes ==
  ASSUME NEW channel \in Nat, NEW major, Short(major), NEW minor, Short(minor),
         NEW result \in Byte, NEW p, Payload(p)
  PROVE  LET f == Answer(channel, major, minor, result, p)
         IN  f \in Seq(Byte) /\ (Len(f) <= 36 \/ Len(f) = 38)
  <1> DEFINE n == Len(p)
             h == Header(17 + n, channel, 1)
             t == AnswerTail(major, minor, result, n)
             q == AnswerFront(channel, major, minor, result, n)
             g == q \o p
             f == Answer(channel, major, minor, result, p)
  <1>1. /\ n \in Nat /\ 17 + n \in Nat /\ Short(n) /\ p \in Seq(Byte)
        /\ n <= 15 \/ n = 17
    BY RoomForMore DEF Payload
  <1>2. result \in Nat /\ major \in Nat /\ minor \in Nat
    BY SomeBytes DEF Short
  <1>3. Len(q) = 19
    <2>1. Starts(q, 19, 17 + n)
      BY <1>1, <1>2, AnswerFrontBytes, Zenon
    <2> QED
      BY <2>1 DEF Starts
  <1>4. q \in Seq(Byte)
    <2> DEFINE a == U16(major)
               b == U16(minor)
               c == U16(n)
               m == <<1, 175>>
               e == <<result>>
    <2>1. h \in Seq(Byte)
      <3>1. 1 \in Byte
        BY SomeBytes
      <3> QED
        BY <1>1, <3>1, HeaderIsBytes
    <2>2. a \in Seq(Byte) /\ b \in Seq(Byte) /\ c \in Seq(Byte)
      BY <1>1, <1>2, NumbersAreBytes DEF Bytes
    <2>3. m \in Seq(Byte) /\ e \in Seq(Byte)
      BY SomeBytes
    <2>4. q = h \o m \o a \o b \o e \o c
      BY DEF AnswerFront
    <2> HIDE DEF h, a, b, c, m, e
    <2> QED
      BY <2>1, <2>2, <2>3, <2>4
  <1>5. f = Sealed(g)
    BY DEF Answer, AnswerFront
  <1> HIDE DEF q, n
  <1>6. g \in Seq(Byte) /\ Len(g) = 19 + n
    BY <1>1, <1>3, <1>4, PartBegins DEF n
  <1> HIDE DEF g
  <1>7. g # << >>
    BY <1>1, <1>6
  <1>8. Crc(Tail(g)) \in Byte /\ 3 \in Byte
    <2>1. Tail(g) \in Seq(Byte)
      BY <1>6, <1>7
    <2> QED
      BY <2>1, CrcIsByte, SomeBytes
  <1>9. Sealed(g) \in Seq(Byte) /\ Len(Sealed(g)) = Len(g) + 2
    BY <1>6, <1>7, <1>8, SealedBytes
  <1> HIDE DEF f
  <1>10. f \in Seq(Byte) /\ (Len(f) <= 36 \/ Len(f) = 38)
    BY <1>1, <1>5, <1>6, <1>9
  <1> QED
    BY <1>10 DEF f

-----------------------------------------------------------------------------
(* The invariant of the damage *)

\* What is in the buffer, and what is on its way, never decodes.
Doomed(b, w, woken) ==
    \/ ~woken /\ Hopeless(b \o w)
    \/ Frozen(b)
    \/ Stub(b, w)

\* The invariant of the damage, on top of IInv: an undamaged answer is one that
\* damage dooms, and a damaged one is doomed.
Dooms ==
    /\ asked.kind \in {"add", "get", "query"} /\ ~damaged =>
          /\ buf \o wire \in Seq(Byte)
          /\ Len(buf \o wire) <= 36 \/ Len(buf \o wire) = 38
    /\ damaged => /\ buf \in Seq(Byte) /\ wire \in Seq(Byte)
                  /\ Doomed(buf, wire, ready)

\* A notification leaves it doomed.
LEMMA DoomedStays ==
  ASSUME NEW b \in Seq(Byte), NEW w \in Seq(Byte), NEW k \in 0..Len(w),
         NEW woken \in BOOLEAN, Doomed(b, w, woken)
  PROVE  LET g == b \o SubSeq(w, 1, k)
             r == SubSeq(w, k + 1, Len(w))
         IN  /\ Kept(g) \in Seq(Byte) /\ r \in Seq(Byte)
             /\ Doomed(Kept(g), r, woken \/ IsComplete(g))
  <1> DEFINE s == SubSeq(w, 1, k)
             r == SubSeq(w, k + 1, Len(w))
             g == b \o s
  <1>1. s \in Seq(Byte) /\ r \in Seq(Byte) /\ s \o r = w
    BY Cut
  <1> HIDE DEF s, r
  <1>2. g \in Seq(Byte) /\ g \o r = b \o w
    <2>1. g \in Seq(Byte)
      BY <1>1, PartBegins
    <2>2. g \o r = b \o (s \o r)
      <3>1. b \in Seq(Byte) /\ s \in Seq(Byte) /\ r \in Seq(Byte)
        BY <1>1
      <3> QED
        BY <3>1
    <2> QED
      BY <1>1, <2>1, <2>2
  <1>3. Kept(g) \in Seq(Byte)
    <2> HIDE DEF g
    <2>1. CASE IsComplete(g)
      <3>1. Expected(g) \in 0..Len(g)
        <4>1. Len(g) >= 12 /\ Len(g) >= Expected(g)
          BY <2>1 DEF IsComplete
        <4>2. Len(g) \in Nat /\ Expected(g) \in Nat
          BY <1>2, <4>1, LengthRule
        <4> QED
          BY <4>1, <4>2
      <3>2. Kept(g) = SubSeq(g, 1, Expected(g))
        BY <2>1 DEF Kept
      <3> QED
        BY <1>2, <3>1, <3>2, CutBegins
    <2>2. CASE ~IsComplete(g)
      BY <1>2, <2>2 DEF Kept
    <2> QED
      BY <2>1, <2>2
  <1>4. Doomed(Kept(g), r, woken \/ IsComplete(g))
    <2>1. ASSUME ~woken, Hopeless(b \o w) PROVE Doomed(Kept(g), r, woken \/ IsComplete(g))
      <3> HIDE DEF g
      <3>1. Hopeless(g \o r)
        BY <1>2, <2>1
      <3>2. CASE IsComplete(g)
        <4>1. Frozen(Kept(g)) \/ Stub(Kept(g), r)
          BY <1>1, <1>2, <3>1, <3>2, HopelessEnds
        <4> QED
          BY <4>1 DEF Doomed
      <3>3. CASE ~IsComplete(g)
        <4>1. Kept(g) = g
          BY <3>3 DEF Kept
        <4> QED
          BY <2>1, <3>1, <3>3, <4>1 DEF Doomed
      <3> QED
        BY <3>2, <3>3
    <2>2. ASSUME Frozen(b) PROVE Frozen(Kept(g))
      BY <1>1, <2>2, FrozenStays
    <2>3. ASSUME Stub(b, w) PROVE Stub(Kept(g), r)
      BY <1>1, <2>3, StubStays
    <2> QED
      BY <2>1, <2>2, <2>3 DEF Doomed
  <1> QED
    BY <1>1, <1>3, <1>4 DEF g, s, r

\* What is doomed does not decode.
LEMMA DoomedFails ==
  ASSUME NEW b \in Seq(Byte), NEW w \in Seq(Byte), Doomed(b, w, TRUE)
  PROVE  ~Decodes(b)
  BY StubFails DEF Doomed, Frozen

\* At first there is nothing to damage.
LEMMA DoomsHoldsAtFirst == Init => Dooms
  <1> SUFFICES ASSUME Init PROVE Dooms
    OBVIOUS
  <1>1. asked.kind = "nothing" /\ damaged = FALSE
    BY DEF Init, Nothing
  <1> QED
    BY <1>1 DEF Dooms

\* The three questions: their answers are bytes.
LEMMA QuestionDooms ==
  ASSUME NEW what, NEW frame, NEW ch \in Nat, NEW major, Short(major),
         NEW minor, Short(minor), NEW res \in Byte, NEW p, Payload(p),
         Send(what, frame, Reply(major, minor, res, p),
              AnswerBytes(ch, Reply(major, minor, res, p)))
  PROVE  Dooms'
  <1> DEFINE f == Answer(ch, major, minor, res, p)
  <1>1. wire' = f /\ buf' = << >> /\ damaged' = FALSE
    BY DEF Send, AnswerBytes, Reply
  <1>2. f \in Seq(Byte) /\ (Len(f) <= 36 \/ Len(f) = 38)
    BY AnswerIsBytes
  <1> HIDE DEF f
  <1>3. (buf \o wire)' = f
    BY <1>1, <1>2
  <1> QED
    BY <1>1, <1>2, <1>3 DEF Dooms

\* The damage dooms the answer.
LEMMA DamageDooms ==
  ASSUME IInv, Dooms, Damage, Guarded \subseteq Protected
  PROVE  Dooms'
  <1>1. /\ buf = << >> /\ asked.kind \in {"add", "get", "query"} /\ ~damaged
        /\ damaged' = TRUE /\ buf' = buf /\ ready' = ready
    BY DEF Damage
  <1>2. PICK i \in {j \in DOMAIN wire : j - 1 \in Guarded \/ j = Len(wire)},
             bit \in Bits :
            wire' = [wire EXCEPT ![i] = Xor(@, bit)]
    BY DEF Damage
  <1>3. asked # Nothing /\ asked.kind # "link"
    BY <1>1 DEF Nothing
  <1>4. Carried /\ Promised
    BY <1>1, <1>3 DEF IInv
  <1>5. wire \in Seq(Elements(buf \o wire)) /\ ~ready
    BY <1>1, <1>4 DEF Carried, IsComplete
  <1>6. buf \o wire = wire
    BY <1>1, <1>5
  <1>7. wire \in Seq(Byte) /\ (Len(wire) <= 36 \/ Len(wire) = 38)
    BY <1>1, <1>6 DEF Dooms
  <1>8. Decodes(wire) /\ Expected(wire) = Len(wire)
    BY <1>3, <1>4, <1>6 DEF Promised, Read
  <1>9. wire[12] = 175
    <2> SUFFICES ASSUME wire[12] # 175 PROVE FALSE
      OBVIOUS
    <2>1. Expected(wire) = ReadU16(wire, 2) + 2
      BY DEF Expected
    <2>2. ReadU16(wire, 2) + 4 = Len(wire) /\ Len(wire) >= 21
      BY <1>8 DEF Decodes
    <2>3. ReadU16(wire, 2) \in Nat
      BY <1>7, <2>2, LengthRule
    <2> QED
      BY <1>8, <2>1, <2>2, <2>3
  <1>10. Sound(wire)
    BY <1>7, <1>8, <1>9 DEF Sound
  <1>11. i \in 1..Len(wire) /\ (i - 1 \in Protected \/ i = Len(wire))
    BY <1>2, <1>7
  <1>12. wire' \in Seq(Byte) /\ Hopeless(wire')
    BY <1>2, <1>10, <1>11, FlippedIsHopeless
  <1>13. (buf \o wire)' = wire'
    BY <1>1, <1>12
  <1>14. buf' \in Seq(Byte) /\ Doomed(buf', wire', ready')
    BY <1>1, <1>5, <1>12, <1>13 DEF Doomed
  <1> QED
    BY <1>1, <1>12, <1>14 DEF Dooms

\* A notification keeps the invariant.
LEMMA ReceiveDooms ==
  ASSUME IInv, Dooms, Receive
  PROVE  Dooms'
  <1>1. PICK n \in Chunks :
          LET k    == IF n < Len(wire) THEN n ELSE Len(wire)
              got  == buf \o SubSeq(wire, 1, k)
              done == IsComplete(got)
          IN  /\ wire' = SubSeq(wire, k + 1, Len(wire))
              /\ buf' = IF done THEN SubSeq(got, 1, Expected(got)) ELSE got
              /\ ready' = (ready \/ done)
    BY DEF Receive
  <1>2. UNCHANGED <<asked, answer, damaged>> /\ damaged \in BOOLEAN /\ ready \in BOOLEAN
    BY DEF Receive, IInv
  <1>3. CASE ~damaged
    <2>1. (buf \o wire)' = buf \o wire
      BY <1>3, ReceiveHolds
    <2> QED
      BY <1>2, <1>3, <2>1 DEF Dooms
  <1>4. CASE damaged
    <2> DEFINE k == IF n < Len(wire) THEN n ELSE Len(wire)
               got == buf \o SubSeq(wire, 1, k)
    <2>1. buf \in Seq(Byte) /\ wire \in Seq(Byte) /\ Doomed(buf, wire, ready)
      BY <1>4 DEF Dooms
    <2>2. k \in 0..Len(wire)
      <3>1. n \in Nat
        BY StreamConstants
      <3> QED
        BY <2>1, <3>1
    <2>3. /\ wire' = SubSeq(wire, k + 1, Len(wire))
          /\ buf' = Kept(got) /\ ready' = (ready \/ IsComplete(got))
      BY <1>1 DEF Kept
    <2> HIDE DEF k
    <2>4. buf' \in Seq(Byte) /\ wire' \in Seq(Byte) /\ Doomed(buf', wire', ready')
      BY <1>2, <2>1, <2>2, <2>3, DoomedStays
    <2> QED
      BY <1>2, <1>4, <2>4 DEF Dooms
  <1> QED
    BY <1>3, <1>4

\* Every action keeps the invariant.
LEMMA NextDooms ==
  ASSUME Guarded \subseteq Protected
  PROVE  IInv /\ Dooms /\ [Next]_vars => Dooms'
  <1> SUFFICES ASSUME IInv, Dooms, [Next]_vars PROVE Dooms'
    OBVIOUS
  <1>0. /\ \A ch \in Channels : ch \in Nat
        /\ \A res \in Results : res \in Byte
    BY StreamConstants
  <1>1. CASE AddTask
    <2>1. PICK ch \in Channels, t \in Tasks, res \in Results :
            Send(Question("add", ch, t), Encode(ch, 4690, 7, TaskPayload(t)),
                 Reply(4690, 7, res, << >>), AnswerBytes(ch, Reply(4690, 7, res, << >>)))
      BY <1>1 DEF AddTask
    <2> QED
      BY <1>0, <2>1, Small, ShortPayloads, QuestionDooms
  <1>2. CASE GetTask
    <2>1. PICK ch \in Channels, t \in Tasks, more \in Appended :
            Send(Question("get", ch, t), Encode(ch, 4690, 5, U32(2)),
                 Reply(4690, 5, 0, TaskPayload(t) \o more),
                 AnswerBytes(ch, Reply(4690, 5, 0, TaskPayload(t) \o more)))
      BY <1>2 DEF GetTask
    <2>2. Payload(TaskPayload(t) \o more) /\ 0 \in Byte
      BY EntryIsPayload, SomeBytes
    <2> QED
      BY <1>0, <2>1, <2>2, Small, QuestionDooms
  <1>3. CASE Query
    <2>1. PICK ch \in Channels, res \in Results :
            Send(Question("query", ch, Nothing), Encode(ch, 4586, 2, << >>),
                 Reply(4586, 2, res, <<175>>),
                 AnswerBytes(ch, Reply(4586, 2, res, <<175>>)))
      BY <1>3 DEF Query
    <2> QED
      BY <1>0, <2>1, Small, ShortPayloads, QuestionDooms
  <1>4. CASE Link
    <2>1. asked'.kind = "link" /\ damaged' = FALSE
      BY <1>4 DEF Link, Send, Question
    <2> QED
      BY <2>1 DEF Dooms
  <1>5. CASE Damage
    BY <1>5, DamageDooms
  <1>6. CASE Receive
    BY <1>6, ReceiveDooms
  <1>7. CASE UNCHANGED vars
    BY <1>7 DEF vars, Dooms
  <1> QED
    BY <1>1, <1>2, <1>3, <1>4, <1>5, <1>6, <1>7 DEF Next

\* What is ready and damaged does not decode.
LEMMA DoomsNotices == Dooms => DamageIsNoticed
  <1> SUFFICES ASSUME Dooms, ready, damaged PROVE ~Decodes(buf)
    BY DEF DamageIsNoticed
  <1>1. buf \in Seq(Byte) /\ wire \in Seq(Byte) /\ Doomed(buf, wire, ready)
    BY DEF Dooms
  <1>2. Doomed(buf, wire, TRUE)
    BY <1>1 DEF Doomed
  <1> QED
    BY <1>1, <1>2, DoomedFails

\* decode_response() takes no answer with a flipped bit, when the bit is in one of the
\* bytes that something is checked in or in the end mark: however the answer is cut
\* into notifications, whatever length the damage gives it, and whatever is taken
\* for a frame in what is left behind it.
THEOREM DamagedAnswersFail ==
  ASSUME Guarded \subseteq Protected
  PROVE  Spec => []DamageIsNoticed
  <1>1. IInv /\ Dooms /\ [Next]_vars => (IInv /\ Dooms)'
    BY NextHolds, NextDooms
  <1>2. Init => IInv /\ Dooms
    BY InitHolds, DoomsHoldsAtFirst
  <1> QED
    BY <1>1, <1>2, DoomsNotices, PTL DEF Spec
=============================================================================
