------------------------------ MODULE OtaProofs ------------------------------
(***************************************************************************)
(* The theorems about the firmware update.                                 *)
(*                                                                         *)
(* OtaUpload, for all requests, any blank line and marker, any sizes of    *)
(* the buffers and every way to cut a body into reads, if a part header    *)
(* does not end in a read that is longer than what is left of the preamble *)
(* buffer (~SplitHeader; the run claim_upload_intact shows what happens    *)
(* otherwise).  The lemmas about sequences come first: where a pattern     *)
(* begins in a part of a sequence (PlacesInPart), and that what has been   *)
(* written and what is kept go on to be one part of the payload when the   *)
(* next read is appended (NextPart, NoMarkerMissed).                       *)
(*                                                                         *)
(* OtaUpdate, for any number of updates, tasks and resets: the image that  *)
(* runs stays whole, and BLE panics only after a restart into another      *)
(* image without the flag.  The image that runs stays whole because every  *)
(* write goes to the other partition, and a boot falls back to the one     *)
(* that ran.  For the panics the invariant says what each phase of a boot  *)
(* knows: before BLE starts, the image of a boot is the one the next boot  *)
(* would run (Steady), so the clean reboot is a clean one; and a first     *)
(* boot that may panic has either its clean reboot ahead or an unmarked    *)
(* restart behind it (Accounted).                                          *)
(***************************************************************************)
EXTENDS OtaUpdate, OtaUpload, SequenceTheorems, WellFoundedInduction, TLAPS

-----------------------------------------------------------------------------
(* Sequences *)

LEMMA LeastIsFirst ==
  ASSUME NEW T \in SUBSET Nat, T # {}
  PROVE  Least(T) \in T /\ \A j \in T : Least(T) <= j
  <1> DEFINE R == {ss \in Nat \X Nat : ss[1] < ss[2]}
  <1>1. IsWellFoundedOn(R, Nat)
    BY NatLessThanWellFounded DEF OpToRel
  <1>2. \A i, j \in Nat : <<i, j>> \in R <=> i < j
    OBVIOUS
  <1>3. PICK i \in T : \A j \in T : <<j, i>> \notin R
    <2> HIDE DEF R
    <2> QED
      BY <1>1, WFMin
  <1>4. ASSUME NEW j \in T PROVE i <= j
    <2>1. i \in Nat /\ j \in Nat
      OBVIOUS
    <2>2. ~(j < i)
      <3> HIDE DEF R
      <3> QED
        BY <1>2, <1>3, <2>1
    <2> QED
      BY <2>1, <2>2
  <1> QED
    BY <1>4 DEF Least

\* A part of a sequence: what comes after its first a elements, up to the b-th.
Part(P, a, b) == SubSeq(P, a + 1, b)

LEMMA PartOf ==
  ASSUME NEW P \in Seq(Bytes), NEW a \in 0..Len(P), NEW b \in a..Len(P)
  PROVE  /\ Part(P, a, b) \in Seq(Bytes) /\ Len(Part(P, a, b)) = b - a
         /\ \A k \in 1..(b - a) : Part(P, a, b)[k] = P[a + k]
  <1>1. \A k \in (a + 1)..b : P[k] \in Bytes
    BY ElementOfSeq
  <1>2. a + 1 \in Int /\ b \in Int /\ b - (a + 1) + 1 = b - a
        /\ \A k \in 1..(b - a) : (a + 1) + k - 1 = a + k
    OBVIOUS
  <1> QED
    BY <1>1, <1>2, SubSeqProperties DEF Part

LEMMA WholePart ==
  ASSUME NEW P \in Seq(Bytes)
  PROVE  Part(P, 0, Len(P)) = P
  <1>1. SubSeq(P, 1, Len(P)) = P /\ 0 + 1 = 1
    BY SubSeqFull
  <1> QED
    BY <1>1 DEF Part

\* Two parts that meet.
LEMMA PartsMeet ==
  ASSUME NEW P \in Seq(Bytes), NEW a \in 0..Len(P), NEW b \in a..Len(P),
         NEW c \in b..Len(P)
  PROVE  Part(P, a, b) \o Part(P, b, c) = Part(P, a, c)
  <1>1. a + 1 \in 1..(Len(P) + 1) /\ b \in (a + 1) - 1..Len(P) /\ c \in b..Len(P)
    OBVIOUS
  <1> QED
    BY <1>1, ConcatAdjacentSubSeq DEF Part

\* A part of a part.
LEMMA PartOfPart ==
  ASSUME NEW P \in Seq(Bytes), NEW a \in 0..Len(P), NEW b \in a..Len(P),
         NEW c \in 0..(b - a), NEW d \in c..(b - a)
  PROVE  Part(Part(P, a, b), c, d) = Part(P, a + c, a + d)
  <1> DEFINE q == Part(P, a, b)
             r == Part(q, c, d)
             s == Part(P, a + c, a + d)
  <1>1. q \in Seq(Bytes) /\ Len(q) = b - a /\ \A k \in 1..(b - a) : q[k] = P[a + k]
    BY PartOf
  <1>2. r \in Seq(Bytes) /\ Len(r) = d - c /\ \A k \in 1..(d - c) : r[k] = q[c + k]
    <2> HIDE DEF q
    <2>1. c \in 0..Len(q) /\ d \in c..Len(q)
      BY <1>1
    <2> QED
      BY <1>1, <2>1, PartOf
  <1>3. s \in Seq(Bytes) /\ Len(s) = d - c /\ \A k \in 1..(d - c) : s[k] = P[a + c + k]
    <2>1. a + c \in 0..Len(P) /\ a + d \in (a + c)..Len(P) /\ (a + d) - (a + c) = d - c
      OBVIOUS
    <2> QED
      BY <2>1, PartOf
  <1>4. \A k \in 1..(d - c) : c + k \in 1..(b - a) /\ a + (c + k) = a + c + k
    OBVIOUS
  <1> HIDE DEF q, r, s
  <1>5. \A k \in 1..Len(r) : r[k] = s[k]
    BY <1>1, <1>2, <1>3, <1>4
  <1>6. r = s
    BY <1>2, <1>3, <1>5, SeqEqual
  <1> QED
    BY <1>6 DEF q, r, s

\* The two halves of a beginning.
HalvesAre(w, c, P, m) ==
    /\ Len(w) \in 0..m /\ Len(w) + Len(c) = m
    /\ w = Part(P, 0, Len(w)) /\ c = Part(P, Len(w), m)

LEMMA HalvesOf ==
  ASSUME NEW P \in Seq(Bytes), NEW m \in 0..Len(P),
         NEW w \in Seq(Bytes), NEW c \in Seq(Bytes), w \o c = Part(P, 0, m)
  PROVE  HalvesAre(w, c, P, m)
  <1> DEFINE l == Len(w)
             d == Len(c)
             q == Part(P, 0, m)
             u == Part(P, 0, l)
             v == Part(P, l, m)
  <1>1. q \in Seq(Bytes) /\ Len(q) = m /\ \A k \in 1..m : q[k] = P[0 + k]
    <2>1. 0 \in 0..Len(P) /\ m \in 0..Len(P) /\ m - 0 = m
      OBVIOUS
    <2> QED
      BY <2>1, PartOf
  <1>2. q = w \o c
    OBVIOUS
  <1>3. l + d = m /\ l \in Nat /\ d \in Nat
    BY <1>1, <1>2, ConcatProperties, LenProperties
  <1>4. \A k \in 1..l : (w \o c)[k] = w[k]
    OBVIOUS
  <1>5. \A k \in 1..d : (w \o c)[l + k] = c[k]
    OBVIOUS
  <1> HIDE DEF l, d
  <1>6. /\ l \in 0..m /\ 0 \in 0..Len(P) /\ l \in 0..Len(P) /\ m \in l..Len(P)
        /\ l - 0 = l /\ m - l = d
    BY <1>3
  <1>7. u \in Seq(Bytes) /\ Len(u) = l /\ \A k \in 1..l : u[k] = P[0 + k]
    BY <1>6, PartOf
  <1>8. v \in Seq(Bytes) /\ Len(v) = d /\ \A k \in 1..d : v[k] = P[l + k]
    BY <1>6, PartOf
  <1>9. /\ \A k \in 1..l : k \in 1..m
        /\ \A k \in 1..d : l + k \in 1..m /\ 0 + (l + k) = l + k
    BY <1>3
  <1> HIDE DEF q, u, v
  <1>10. u = w
    <2>1. \A k \in 1..Len(u) : u[k] = w[k]
      BY <1>1, <1>2, <1>4, <1>7, <1>9
    <2> QED
      BY <1>7, <2>1, SeqEqual DEF l
  <1>11. v = c
    <2>1. \A k \in 1..Len(v) : v[k] = c[k]
      BY <1>1, <1>2, <1>5, <1>8, <1>9
    <2> QED
      BY <1>8, <2>1, SeqEqual DEF d
  <1> QED
    BY <1>3, <1>6, <1>10, <1>11 DEF u, v, l, d, HalvesAre

LEMMA PrefixOf ==
  ASSUME NEW P \in Seq(Bytes), NEW n \in 0..Len(P), NEW m \in 0..n
  PROVE  IsPrefix(Part(P, 0, m), Part(P, 0, n))
  <1>1. 0 \in 0..Len(P) /\ m \in 0..Len(P) /\ m - 0 = m /\ n - 0 = n
        /\ 0 \in 0..(n - 0) /\ m \in 0..(n - 0) /\ 0 \in 0..(m - 0) /\ m \in 0..(m - 0)
    OBVIOUS
  <1>2. Len(Part(P, 0, m)) = m /\ Len(Part(P, 0, n)) = n
    BY <1>1, PartOf
  <1>3. /\ Part(Part(P, 0, n), 0, m) = Part(P, 0 + 0, 0 + m)
        /\ Part(Part(P, 0, m), 0, m) = Part(P, 0 + 0, 0 + m)
    BY <1>1, PartOfPart
  <1>4. \A t : Part(t, 0, m) = SubSeq(t, 1, m)
    BY DEF Part
  <1> QED
    BY <1>1, <1>2, <1>3, <1>4 DEF IsPrefix

-----------------------------------------------------------------------------
(* Places *)

LEMMA PlacesOf ==
  ASSUME NEW P \in Seq(Bytes), NEW p \in Seq(Bytes), NEW i \in Nat
  PROVE  i \in Places(P, p) <=>
            i + Len(p) <= Len(P) /\ \A k \in 1..Len(p) : P[i + k] = p[k]
  <1>1. ASSUME i + Len(p) <= Len(P)
        PROVE  SubSeq(P, i + 1, i + Len(p)) = p
                  <=> \A k \in 1..Len(p) : P[i + k] = p[k]
    <2> DEFINE q == Part(P, i, i + Len(p))
    <2>1. i \in 0..Len(P) /\ i + Len(p) \in i..Len(P) /\ (i + Len(p)) - i = Len(p)
      BY <1>1
    <2>2. /\ q \in Seq(Bytes) /\ Len(q) = (i + Len(p)) - i
          /\ \A k \in 1..((i + Len(p)) - i) : q[k] = P[i + k]
      BY <2>1, PartOf
    <2> HIDE DEF q
    <2>3. (\A k \in 1..Len(p) : q[k] = p[k]) <=> q = p
      BY <2>1, <2>2, SeqEqual
    <2> QED
      BY <2>1, <2>2, <2>3 DEF q, Part
  <1>2. i \in 0..(Len(P) - Len(p)) <=> i + Len(p) <= Len(P)
    OBVIOUS
  <1> QED
    BY <1>1, <1>2 DEF Places

LEMMA PlacesAreNumbers ==
  ASSUME NEW P \in Seq(Bytes), NEW p \in Seq(Bytes)
  PROVE  Places(P, p) \in SUBSET Nat
  BY DEF Places

\* A pattern begins in a part where it begins in the whole, if it also ends
\* there.
LEMMA PlacesInPart ==
  ASSUME NEW P \in Seq(Bytes), NEW p \in Seq(Bytes),
         NEW a \in 0..Len(P), NEW b \in a..Len(P), NEW i \in Nat
  PROVE  i \in Places(Part(P, a, b), p) <=>
            a + i \in Places(P, p) /\ a + i + Len(p) <= b
  <1> DEFINE q == Part(P, a, b)
  <1>1. q \in Seq(Bytes) /\ Len(q) = b - a /\ \A k \in 1..(b - a) : q[k] = P[a + k]
    BY PartOf
  <1>2. i \in Places(q, p) <=>
           i + Len(p) <= b - a /\ \A k \in 1..Len(p) : q[i + k] = p[k]
    BY <1>1, PlacesOf
  <1>3. a + i \in Places(P, p) <=>
           a + i + Len(p) <= Len(P) /\ \A k \in 1..Len(p) : P[a + i + k] = p[k]
    <2>1. a + i \in Nat
      OBVIOUS
    <2> QED
      BY <2>1, PlacesOf
  <1>4. ASSUME i + Len(p) <= b - a, NEW k \in 1..Len(p)
        PROVE  q[i + k] = P[a + i + k]
    <2>1. i + k \in 1..(b - a) /\ a + (i + k) = a + i + k
      BY <1>4
    <2> QED
      BY <1>1, <2>1
  <1> HIDE DEF q
  <1>5. i + Len(p) <= b - a <=> a + i + Len(p) <= b
    OBVIOUS
  <1>6. a + i + Len(p) <= b => a + i + Len(p) <= Len(P)
    OBVIOUS
  <1>7. i \in Places(q, p) <=> a + i \in Places(P, p) /\ a + i + Len(p) <= b
    BY <1>2, <1>3, <1>4, <1>5, <1>6
  <1> QED
    BY <1>7 DEF q

\* In a beginning of a sequence, patterns begin at the same places.
LEMMA PlacesInPrefix ==
  ASSUME NEW P \in Seq(Bytes), NEW p \in Seq(Bytes), NEW n \in 0..Len(P)
  PROVE  Places(Part(P, 0, n), p) = {i \in Places(P, p) : i + Len(p) <= n}
  <1>1. 0 \in 0..Len(P) /\ n \in 0..Len(P)
    OBVIOUS
  <1>2. Part(P, 0, n) \in Seq(Bytes)
    BY <1>1, PartOf
  <1>3. Places(Part(P, 0, n), p) \in SUBSET Nat /\ Places(P, p) \in SUBSET Nat
    BY <1>2, PlacesAreNumbers
  <1>4. ASSUME NEW i \in Nat
        PROVE  i \in Places(Part(P, 0, n), p) <=> i \in Places(P, p) /\ i + Len(p) <= n
    <2>1. 0 + i = i
      OBVIOUS
    <2>2. i \in Places(Part(P, 0, n), p) <=>
             0 + i \in Places(P, p) /\ 0 + i + Len(p) <= n
      BY <1>1, PlacesInPart
    <2> QED
      BY <2>1, <2>2
  <1> QED
    BY <1>3, <1>4

-----------------------------------------------------------------------------
(* A body, and what the next read adds *)

LEMMA BodyTypes ==
  ASSUME NEW b \in Bodies
  PROVE  /\ b.bytes \in Seq(Bytes) /\ Len(b.head) \in 0..Len(b.bytes)
         /\ Payload(b) = Part(b.bytes, Len(b.head), Len(b.bytes))
         /\ Payload(b) \in Seq(Bytes)
         /\ Len(Payload(b)) = Len(b.bytes) - Len(b.head)
  <1>1. b.bytes \in Seq(Bytes) /\ b.multipart \in BOOLEAN
        /\ Len(b.bytes) \in Nat /\ Blank \in Seq(Bytes) /\ Len(Blank) \in Nat
    BY UploadConstants
  <1>2. Len(b.head) \in 0..Len(b.bytes)
    <2> DEFINE begins == Places(b.bytes, Blank)
    <2>1. CASE b.multipart /\ begins # {}
      <3>1. Least(begins) \in begins /\ begins \in SUBSET Nat
        BY <1>1, <2>1, PlacesAreNumbers, LeastIsFirst
      <3>2. Least(begins) + Len(Blank) <= Len(b.bytes) /\ Least(begins) \in Nat
        BY <1>1, <3>1, PlacesOf
      <3>3. Len(b.head) = Least(begins) + Len(Blank)
        BY <2>1, Forms
      <3> QED
        BY <1>1, <3>2, <3>3
    <2>2. CASE ~(b.multipart /\ begins # {})
      <3>1. Len(b.head) = Len(b.bytes) \/ Len(b.head) = 0
        BY <1>1, <2>2, Forms
      <3> QED
        BY <1>1, <3>1
    <2> QED
      BY <2>1, <2>2
  <1>3. Len(b.bytes) \in Len(b.head)..Len(b.bytes)
    BY <1>1, <1>2
  <1>4. Payload(b) = Part(b.bytes, Len(b.head), Len(b.bytes))
    BY DEF Payload, Suffix, Part
  <1> QED
    BY <1>1, <1>2, <1>3, <1>4, PartOf

\* What a read brings once the header is over is a part of the payload.
LEMMA PayloadPart ==
  ASSUME NEW b \in Bodies, NEW m \in Len(b.head)..Len(b.bytes),
         NEW n \in m..Len(b.bytes)
  PROVE  Part(b.bytes, m, n) = Part(Payload(b), m - Len(b.head), n - Len(b.head))
  <1> DEFINE H == Len(b.head)
             L == Len(b.bytes)
  <1>1. b.bytes \in Seq(Bytes) /\ H \in 0..L /\ L \in Nat
    BY BodyTypes
  <1>2. /\ L \in H..L /\ m - H \in 0..(L - H) /\ n - H \in (m - H)..(L - H)
        /\ H + (m - H) = m /\ H + (n - H) = n
    BY <1>1
  <1>3. Part(Part(b.bytes, H, L), m - H, n - H)
           = Part(b.bytes, H + (m - H), H + (n - H))
    BY <1>1, <1>2, PartOfPart
  <1> QED
    BY <1>2, <1>3, BodyTypes

\* What was kept goes on with what is read.
Joined(s, c, P, m, n) == s = c \o Part(P, m, n)

Continues(s, w, c, P, m, n) ==
    /\ Len(w) \in 0..m /\ Len(w) + Len(c) = m
    /\ s = Part(P, Len(w), n) /\ s \in Seq(Bytes) /\ Len(s) = n - Len(w)

LEMMA NextPart ==
  ASSUME NEW P \in Seq(Bytes), NEW m \in 0..Len(P), NEW n \in m..Len(P),
         NEW w \in Seq(Bytes), NEW c \in Seq(Bytes), w \o c = Part(P, 0, m),
         NEW s, Joined(s, c, P, m, n)
  PROVE  Continues(s, w, c, P, m, n)
  <1> DEFINE l == Len(w)
  <1>1. l \in 0..m /\ l + Len(c) = m /\ c = Part(P, l, m)
    <2>1. HalvesAre(w, c, P, m)
      BY HalvesOf
    <2> QED
      BY <2>1 DEF HalvesAre
  <1>2. l \in 0..Len(P) /\ m \in l..Len(P) /\ n \in m..Len(P) /\ n \in l..Len(P)
    <2>1. l \in 0..m /\ Len(P) \in Nat
      BY <1>1, LenProperties
    <2> HIDE DEF l
    <2> QED
      BY <2>1
  <1> HIDE DEF l
  <1>3. Part(P, l, m) \o Part(P, m, n) = Part(P, l, n)
    BY <1>2, PartsMeet
  <1>4. s = Part(P, l, n)
    BY <1>1, <1>3 DEF Joined
  <1>5. Part(P, l, n) \in Seq(Bytes) /\ Len(Part(P, l, n)) = n - l
    BY <1>2, PartOf
  <1> QED
    BY <1>1, <1>4, <1>5 DEF l, Continues

\* However that is cut, what is written then and what is kept are parts again.
CutAt(k, s, w, P, n) ==
    /\ w \o SubSeq(s, 1, k) = Part(P, 0, Len(w) + k)
    /\ Suffix(s, k) = Part(P, Len(w) + k, n)

LEMMA NextCut ==
  ASSUME NEW P \in Seq(Bytes), NEW m \in 0..Len(P), NEW n \in m..Len(P),
         NEW w \in Seq(Bytes), NEW c \in Seq(Bytes), w \o c = Part(P, 0, m),
         NEW s, Joined(s, c, P, m, n), NEW k \in 0..(n - Len(w))
  PROVE  CutAt(k, s, w, P, n)
  <1> DEFINE l == Len(w)
  <1>1. w = Part(P, 0, l)
    <2>1. HalvesAre(w, c, P, m)
      BY HalvesOf
    <2> QED
      BY <2>1 DEF HalvesAre
  <1>2. l \in 0..m /\ s = Part(P, l, n) /\ Len(s) = n - l
    <2>1. Continues(s, w, c, P, m, n)
      BY NextPart
    <2> QED
      BY <2>1 DEF Continues
  <1>3. l \in 0..Len(P) /\ n \in l..Len(P) /\ k \in 0..(n - l) /\ Len(P) \in Nat
    BY <1>2
  <1> HIDE DEF l
  <1>4. /\ 0 \in 0..(n - l) /\ n - l \in k..(n - l) /\ n - l \in 0..(n - l)
        /\ l + 0 = l /\ l + (n - l) = n /\ 0 + 1 = 1
        /\ 0 \in 0..Len(P) /\ l + k \in l..Len(P)
    BY <1>3
  <1>5. Part(s, 0, k) = Part(P, l + 0, l + k)
    BY <1>2, <1>3, <1>4, PartOfPart
  <1>6. Part(s, k, n - l) = Part(P, l + k, l + (n - l))
    BY <1>2, <1>3, <1>4, PartOfPart
  <1>7. Part(P, 0, l) \o Part(P, l, l + k) = Part(P, 0, l + k)
    BY <1>3, <1>4, PartsMeet
  <1>8. SubSeq(s, 1, k) = Part(s, 0, k)
    BY <1>4 DEF Part
  <1>9. Suffix(s, k) = Part(s, k, n - l)
    BY <1>2 DEF Part, Suffix
  <1> QED
    BY <1>1, <1>4, <1>5, <1>6, <1>7, <1>8, <1>9 DEF l, CutAt

\* A marker that has come is found, whatever part of it was kept: it begins at
\* or after the first byte that was kept.
NoneMissed(M, P, l, n) ==
    /\ \A i \in Nat : i \in Places(Part(P, l, n), M) <=>
                        l + i \in Places(P, M) /\ l + i + Len(M) <= n
    /\ \A j \in Places(P, M) : j + Len(M) <= n => l <= j

LEMMA NoMarkerMissed ==
  ASSUME NEW P \in Seq(Bytes), NEW m \in 0..Len(P), NEW n \in m..Len(P),
         NEW M \in Seq(Bytes) \ {<< >>}, NEW l \in 0..m,
         m - l = Smaller(Len(M) - 1, m), Places(Part(P, 0, m), M) = {}
  PROVE  NoneMissed(M, P, l, n)
  <1>1. Len(M) \in Nat \ {0} /\ Places(P, M) \in SUBSET Nat /\ Len(P) \in Nat
    BY PlacesAreNumbers, EmptySeq
  <1>2. l \in 0..Len(P) /\ n \in l..Len(P) /\ m \in 0..Len(P)
    BY <1>1
  <1>3. \A i \in Nat : i \in Places(Part(P, l, n), M) <=>
               l + i \in Places(P, M) /\ l + i + Len(M) <= n
    BY <1>2, PlacesInPart
  <1>4. ASSUME NEW j \in Places(P, M), j + Len(M) <= n PROVE l <= j
    <2>1. ~(j + Len(M) <= m)
      BY <1>2, PlacesInPrefix
    <2>2. j \in Nat
      BY <1>1
    <2> QED
      BY <1>1, <2>1, <2>2 DEF Smaller
  <1> QED
    BY <1>3, <1>4 DEF NoneMissed
\* As long as no marker has come, what is in the flash is a beginning of the
\* image; at the end of the body it is the image with what was kept.
LEMMA ImageGoesOn ==
  ASSUME body \in Bodies, NEW n \in 0..Len(Payload(body)),
         body.multipart => Places(Part(Payload(body), 0, n), Marker) = {}
  PROVE  /\ IsPrefix(Part(Payload(body), 0, n - Smaller(Keep, n)), body.image)
         /\ n = Len(Payload(body)) => Part(Payload(body), 0, n) = body.image
  <1> DEFINE P == Payload(body)
  <1>1. P \in Seq(Bytes) /\ Len(P) \in Nat
    BY BodyTypes
  <1>2. /\ Marker \in Seq(Bytes) /\ Len(Marker) \in Nat \ {0}
        /\ body.multipart \in BOOLEAN /\ body.bytes \in Seq(Bytes)
    BY UploadConstants, EmptySeq
  <1> DEFINE k == n - Smaller(Keep, n)
  <1>3. k \in 0..n /\ (body.multipart => Keep = Len(Marker) - 1)
    BY <1>2 DEF Smaller, Keep
  <1>4. CASE ~body.multipart \/ Places(P, Marker) = {}
    <2>1. body.image = P
      <3>1. CASE ~body.multipart
        <4>1. body.image = body.bytes /\ Len(body.head) = 0
          BY <3>1, Forms
        <4>2. P = Part(body.bytes, 0, Len(body.bytes))
          BY <4>1, BodyTypes
        <4> QED
          BY <1>2, <4>1, <4>2, WholePart
      <3>2. CASE body.multipart
        BY <1>4, <3>2, Forms
      <3> QED
        BY <3>1, <3>2
    <2>2. Part(P, 0, Len(P)) = P
      BY <1>1, WholePart
    <2>3. IsPrefix(Part(P, 0, k), Part(P, 0, Len(P)))
      <3>1. Len(P) \in 0..Len(P) /\ k \in 0..Len(P)
        BY <1>1, <1>3
      <3> HIDE DEF P, k
      <3> QED
        BY <1>1, <3>1, PrefixOf
    <2> QED
      BY <2>1, <2>2, <2>3
  <1>5. CASE body.multipart /\ Places(P, Marker) # {}
    <2> DEFINE e == Least(Places(P, Marker))
               g == Len(Marker)
    <2>1. e \in Places(P, Marker) /\ e \in Nat
      BY <1>1, <1>2, <1>5, PlacesAreNumbers, LeastIsFirst
    <2>2. e + g <= Len(P)
      BY <1>1, <1>2, <2>1, PlacesOf
    <2>3. ~(e + g <= n)
      <3>1. Places(Part(P, 0, n), Marker) = {} /\ n \in 0..Len(P)
        BY <1>5
      <3> HIDE DEF P, e
      <3> QED
        BY <1>1, <1>2, <2>1, <3>1, PlacesInPrefix
    <2>4. body.image = SubSeq(P, 1, e)
      BY <1>5, Forms
    <2>5. body.image = Part(P, 0, e)
      <3>1. 0 + 1 = 1
        OBVIOUS
      <3> QED
        BY <2>4, <3>1 DEF Part
    <2>6. k \in 0..e /\ e \in 0..Len(P)
      <3>1. g \in Nat \ {0} /\ n \in Nat /\ e \in Nat /\ Len(P) \in Nat
            /\ k = n - (IF g - 1 <= n THEN g - 1 ELSE n)
        BY <1>1, <1>2, <1>3, <1>5, <2>1 DEF Smaller
      <3> HIDE DEF g, e, k, P
      <3> QED
        BY <2>2, <2>3, <3>1
    <2>7. IsPrefix(Part(P, 0, k), Part(P, 0, e))
      <3> HIDE DEF P, k, e
      <3> QED
        BY <1>1, <2>6, PrefixOf
    <2>8. n # Len(P)
      <3> HIDE DEF P, e
      <3> QED
        BY <2>2, <2>3
    <2> QED
      BY <2>5, <2>7, <2>8
  <1> QED
    BY <1>2, <1>4, <1>5

\* One pass of Phase 2: data is what comes of the payload after its first m
\* bytes.
LEMMA StripStep ==
  ASSUME body \in Bodies, written \in Seq(Bytes), carry \in Seq(Bytes), ok, ~done,
         IsPrefix(written, body.image),
         NEW m \in 0..Len(Payload(body)), NEW n \in m..Len(Payload(body)),
         written \o carry = Part(Payload(body), 0, m),
         Len(carry) = Smaller(Keep, m),
         body.multipart => Places(Part(Payload(body), 0, m), Marker) = {},
         ok \in BOOLEAN, done \in BOOLEAN,
         Strip(Part(Payload(body), m, n))
  PROVE  /\ written' \in Seq(Bytes) /\ carry' \in Seq(Bytes)
         /\ ok' \in BOOLEAN /\ done' \in BOOLEAN
         /\ IsPrefix(written', body.image)
         /\ done' /\ ok' => written' = body.image
         /\ ~done' /\ ok' =>
              /\ written' \o carry' = Part(Payload(body), 0, n)
              /\ Len(carry') = Smaller(Keep, n)
              /\ body.multipart => Places(Part(Payload(body), 0, n), Marker) = {}
  <1> DEFINE P == Payload(body)
             M == Marker
             s == carry \o Part(P, m, n)
             l == Len(written)
  <1>1. P \in Seq(Bytes) /\ Len(P) \in Nat
    BY BodyTypes
  <1>2. M \in Seq(Bytes) \ {<< >>} /\ Len(M) \in Nat \ {0} /\ body.multipart \in BOOLEAN
        /\ (body.multipart => Keep = Len(M) - 1) /\ (~body.multipart => Keep = 0)
        /\ Keep \in Nat
    BY UploadConstants, EmptySeq DEF Keep
  <1>3. /\ written \o carry = Part(P, 0, m) /\ m \in 0..Len(P) /\ n \in m..Len(P)
        /\ Joined(s, carry, P, m, n)
    BY <1>1 DEF Joined
  <1>4. /\ l \in 0..m /\ l + Len(carry) = m
        /\ s = Part(P, l, n) /\ s \in Seq(Bytes) /\ Len(s) = n - l
    <2>1. Continues(s, written, carry, P, m, n)
      <3> HIDE DEF P, s
      <3> QED
        BY <1>1, <1>3, NextPart
    <2> QED
      BY <2>1 DEF Continues
  <1>5. ASSUME NEW k \in 0..(n - l)
        PROVE  written \o SubSeq(s, 1, k) = Part(P, 0, l + k)
               /\ Suffix(s, k) = Part(P, l + k, n)
    <2>1. CutAt(k, s, written, P, n)
      <3> HIDE DEF P, s
      <3> QED
        BY <1>1, <1>3, NextCut
    <2> QED
      BY <2>1 DEF CutAt
  <1>6. m - l = Smaller(Keep, m) /\ l \in 0..n /\ n \in Nat /\ m \in Nat /\ m <= n
        /\ l \in 0..Len(P) /\ n \in 0..Len(P) /\ 0 \in 0..Len(P)
    BY <1>1, <1>4
  <1>7. ASSUME body.multipart
        PROVE  /\ \A i \in Nat : i \in Places(s, M) <=>
                     l + i \in Places(P, M) /\ l + i + Len(M) <= n
               /\ \A j \in Places(P, M) : j + Len(M) <= n => l <= j
    <2>1. m - l = Smaller(Len(M) - 1, m) /\ Places(Part(P, 0, m), M) = {}
      BY <1>2, <1>6, <1>7
    <2>2. NoneMissed(M, P, l, n)
      <3> HIDE DEF P, M, s, l
      <3> QED
        BY <1>1, <1>2, <1>3, <1>4, <2>1, NoMarkerMissed
    <2> HIDE DEF P, M, s, l
    <2> QED
      BY <1>4, <2>2 DEF NoneMissed
  <1>8. Places(s, M) \in SUBSET Nat /\ Places(P, M) \in SUBSET Nat
    BY <1>1, <1>2, <1>4, PlacesAreNumbers
  <1> DEFINE found == IF body.multipart THEN Places(s, M) ELSE {}
             keep  == Smaller(Keep, Len(s))
  <1>9. CASE found # {}
    <2>1. body.multipart /\ found = Places(s, M)
      BY <1>9
    <2> DEFINE f == Least(found)
    <2>2. f \in found /\ f \in Nat /\ \A j \in found : f <= j
      BY <1>8, <1>9, <2>1, LeastIsFirst
    <2>3. l + f \in Places(P, M) /\ l + f + Len(M) <= n
      BY <1>7, <2>1, <2>2
    <2>4. ASSUME NEW j \in Places(P, M) PROVE l + f <= j
      <3>1. j \in Nat
        BY <1>8
      <3>2. CASE j + Len(M) <= n
        <4>1. l <= j
          BY <1>7, <2>1, <3>2
        <4>2. j - l \in Nat /\ l + (j - l) = j
          BY <1>6, <3>1, <4>1
        <4>3. j - l \in Places(s, M)
          BY <1>7, <2>1, <3>2, <4>2
        <4>4. f <= j - l
          BY <2>1, <2>2, <4>3
        <4> HIDE DEF f, l
        <4> QED
          BY <1>6, <2>2, <3>1, <4>1, <4>4
      <3>3. CASE ~(j + Len(M) <= n)
        <4> HIDE DEF f, l
        <4> QED
          BY <1>2, <1>6, <2>2, <2>3, <3>1, <3>3
      <3> QED
        BY <3>2, <3>3
    <2> DEFINE e == Least(Places(P, M))
    <2>5. l + f = e
      <3>1. e \in Places(P, M) /\ \A j \in Places(P, M) : e <= j
        BY <1>8, <2>3, LeastIsFirst
      <3>2. e <= l + f /\ l + f <= e /\ e \in Nat /\ l + f \in Nat
        BY <1>6, <1>8, <2>2, <2>3, <2>4, <3>1
      <3> HIDE DEF e, l, f
      <3> QED
        BY <3>2
    <2>6. body.image = SubSeq(P, 1, e)
      BY <2>1, <2>3, Forms
    <2>7. f \in 0..(n - l) /\ l + f \in 0..Len(P)
      <3> HIDE DEF l, f
      <3> QED
        BY <1>1, <1>2, <1>6, <2>2, <2>3
    <2>8. written \o SubSeq(s, 1, f) = Part(P, 0, l + f)
      <3> HIDE DEF s, f, l, P
      <3> QED
        BY <1>5, <2>7
    <2>9. Part(P, 0, l + f) = body.image
      <3>1. 0 + 1 = 1
        OBVIOUS
      <3> HIDE DEF f, l, e
      <3> QED
        BY <2>5, <2>6, <3>1 DEF Part
    <2>10. Part(P, 0, l + f) \in Seq(Bytes)
      BY <1>1, <1>6, <2>7, PartOf
    <2>11. Flash(SubSeq(s, 1, f)) /\ done' = TRUE /\ UNCHANGED carry
      BY <1>9 DEF Strip
    <2>12. \/ written' = body.image /\ ok' = ok
           \/ written' = written /\ ok' = FALSE
      BY <2>8, <2>9, <2>11 DEF Flash
    <2>13. body.image \in Seq(Bytes)
      BY <2>9, <2>10
    <2>14. IsPrefix(body.image, body.image)
      BY DEF IsPrefix
    <2>15. done' = TRUE /\ carry' = carry
      BY <2>11
    <2> HIDE DEF s, f, l, e
    <2> QED
      BY <2>12, <2>13, <2>14, <2>15
  <1>10. CASE found = {}
    <2> DEFINE k == Len(s) - keep
    <2>1. Flash(SubSeq(s, 1, k)) /\ carry' = Suffix(s, k) /\ UNCHANGED done
      BY <1>10 DEF Strip
    <2>2. k \in 0..(n - l) /\ l + k = n - Smaller(Keep, n)
      <3>1. CASE Keep <= m
        <4>1. m - l = Keep
          BY <1>6, <3>1 DEF Smaller
        <4> HIDE DEF l, s
        <4> QED
          BY <1>2, <1>4, <1>6, <3>1, <4>1 DEF Smaller
      <3>2. CASE ~(Keep <= m)
        <4>1. m - l = m
          BY <1>6, <3>2 DEF Smaller
        <4> HIDE DEF l, s
        <4> QED
          BY <1>2, <1>4, <1>6, <3>2, <4>1 DEF Smaller
      <3> QED
        BY <1>2, <1>6, <3>1, <3>2
    <2>3. /\ written \o SubSeq(s, 1, k) = Part(P, 0, l + k)
          /\ Suffix(s, k) = Part(P, l + k, n)
      <3> HIDE DEF s, l, k, P
      <3> QED
        BY <1>5, <2>2
    <2> DEFINE w == l + k
    <2>4. w \in 0..Len(P) /\ n \in w..Len(P) /\ n - w = Smaller(Keep, n)
      <3>1. Smaller(Keep, n) \in Nat
        BY <1>2, <1>6 DEF Smaller
      <3> HIDE DEF l, k
      <3> QED
        BY <1>1, <1>6, <2>2, <3>1
    <2> HIDE DEF w
    <2>5. /\ Part(P, 0, w) \in Seq(Bytes) /\ Part(P, w, n) \in Seq(Bytes)
          /\ Len(Part(P, w, n)) = Smaller(Keep, n)
          /\ Part(P, 0, w) \o Part(P, w, n) = Part(P, 0, n)
      <3> HIDE DEF P
      <3> QED
        BY <1>1, <1>6, <2>4, PartOf, PartsMeet
    <2>6. body.multipart => Places(Part(P, 0, n), M) = {}
      <3> SUFFICES ASSUME body.multipart, NEW j \in Places(Part(P, 0, n), M)
                   PROVE  FALSE
        OBVIOUS
      <3>1. j \in Places(P, M) /\ j + Len(M) <= n
        <4> HIDE DEF P, M
        <4> QED
          BY <1>1, <1>2, <1>6, PlacesInPrefix
      <3>2. l <= j /\ j \in Nat
        BY <1>7, <1>8, <3>1
      <3>3. j - l \in Nat /\ l + (j - l) = j
        BY <1>6, <3>2
      <3>4. j - l \in Places(s, M)
        BY <1>7, <3>1, <3>3
      <3> QED
        BY <1>10, <3>4
    <2>7. IsPrefix(Part(P, 0, w), body.image)
      <3>1. IsPrefix(Part(P, 0, n - Smaller(Keep, n)), body.image)
        BY <1>6, <2>6, ImageGoesOn
      <3> QED
        BY <2>2, <3>1 DEF w
    <2>8. done' \in BOOLEAN /\ ~done' /\ carry' = Part(P, w, n)
      BY <2>1, <2>3 DEF w
    <2>9. \/ written' = Part(P, 0, w) /\ ok' = ok
          \/ written' = written /\ ok' = FALSE
      BY <2>1, <2>3 DEF Flash, w
    <2> HIDE DEF s, l, k
    <2>10. CASE written' = Part(P, 0, w) /\ ok' = ok
      BY <2>5, <2>6, <2>7, <2>8, <2>10
    <2>11. CASE written' = written /\ ok' = FALSE
      BY <2>5, <2>8, <2>11
    <2> QED
      BY <2>9, <2>10, <2>11
  <1> QED
    BY <1>9, <1>10
-----------------------------------------------------------------------------
(* The invariant *)

\* What has come of the payload.
Got == Part(Payload(body), 0, pos - Len(body.head))

\* The loop goes on.
Going == outcome = "none" /\ ok /\ ~done

Types ==
    /\ body \in Bodies /\ pos \in 0..Len(body.bytes)
    /\ written \in Seq(Bytes) /\ carry \in Seq(Bytes)
    /\ ok \in BOOLEAN /\ done \in BOOLEAN /\ inBody \in BOOLEAN
    /\ ~inBody => body.multipart

\* Before the blank line has come: all of what has come is in pre.
InHead ==
    Going /\ ~inBody =>
       /\ pre = Part(body.bytes, 0, pos) /\ Places(pre, Blank) = {}
       /\ written = << >> /\ carry = << >>

\* After it: what has come of the payload is in the flash but for its last
\* bytes, and no marker is in it.
InImage ==
    Going /\ inBody =>
       /\ Len(body.head) <= pos
       /\ written \o carry = Got /\ Len(carry) = Smaller(Keep, Len(Got))
       /\ body.multipart => Places(Got, Marker) = {}

\* At the end, and always.
Closed == (done /\ ok) \/ outcome = "flashed" => written = body.image
Clean  == IsPrefix(written, body.image)

UploadInv == Types /\ InHead /\ InImage /\ Closed /\ Clean

\* Nothing begins in nothing.
LEMMA NothingYet ==
  ASSUME NEW P \in Seq(Bytes), NEW a \in 0..Len(P), NEW p \in Seq(Bytes) \ {<< >>}
  PROVE  Part(P, a, a) = << >> /\ Places(<< >>, p) = {}
  <1>1. Part(P, a, a) = << >>
    <2>1. a \in a..Len(P) /\ a - a = 0
      OBVIOUS
    <2>2. Part(P, a, a) \in Seq(Bytes) /\ Len(Part(P, a, a)) = 0
      BY <2>1, PartOf
    <2> QED
      BY <2>2, EmptySeq
  <1>2. Len(p) \in Nat \ {0} /\ Len(<< >>) = 0
    BY EmptySeq
  <1> QED
    BY <1>1, <1>2 DEF Places

LEMMA NoneOfTheImage ==
  ASSUME body \in Bodies
  PROVE  /\ Part(Payload(body), 0, 0) = << >> /\ IsPrefix(<< >>, body.image)
         /\ Len(<< >>) = Smaller(Keep, 0) /\ Places(<< >>, Marker) = {}
         /\ << >> \o << >> = Part(Payload(body), 0, 0)
         /\ Payload(body) = << >> => body.image = << >>
  <1>1. Payload(body) \in Seq(Bytes) /\ 0 \in 0..Len(Payload(body))
        /\ Marker \in Seq(Bytes) \ {<< >>} /\ Len(Marker) \in Nat \ {0}
    BY BodyTypes, UploadConstants, EmptySeq
  <1>2. Part(Payload(body), 0, 0) = << >> /\ Places(<< >>, Marker) = {}
    BY <1>1, NothingYet
  <1>3. Smaller(Keep, 0) = 0 /\ 0 - 0 = 0 /\ Len(<< >>) = 0
    <2>1. Keep \in Nat
      BY <1>1 DEF Keep
    <2> QED
      BY <2>1 DEF Smaller
  <1>4. /\ IsPrefix(Part(Payload(body), 0, 0 - Smaller(Keep, 0)), body.image)
        /\ 0 = Len(Payload(body)) => Part(Payload(body), 0, 0) = body.image
    BY <1>1, <1>2, ImageGoesOn
  <1> QED
    BY <1>2, <1>3, <1>4

LEMMA UploadInit == BodyInit => UploadInv
  <1> SUFFICES ASSUME BodyInit PROVE UploadInv
    OBVIOUS
  <1>1. /\ body \in Bodies /\ body.bytes \in Seq(Bytes) /\ body.multipart \in BOOLEAN
        /\ 0 \in 0..Len(body.bytes) /\ Blank \in Seq(Bytes) \ {<< >>}
        /\ << >> \in Seq(Bytes)
    BY UploadConstants, EmptySeq DEF BodyInit
  <1>2. Types
    BY <1>1 DEF BodyInit, Types
  <1>3. InHead
    BY <1>1, NothingYet DEF BodyInit, InHead
  <1>4. InImage
    <2> SUFFICES ASSUME inBody PROVE InImage
      BY DEF InImage
    <2>1. ~body.multipart
      BY DEF BodyInit
    <2>2. Len(body.head) = 0
      BY <1>1, <2>1, Forms
    <2>3. pos = 0 /\ pos - Len(body.head) = 0 /\ Len(body.head) <= pos
      BY <2>2 DEF BodyInit
    <2>4. Got = << >>
      BY <1>1, <2>3, NoneOfTheImage DEF Got
    <2> QED
      BY <1>1, <2>1, <2>3, <2>4, NoneOfTheImage DEF BodyInit, InImage
  <1>5. Closed /\ Clean
    BY <1>1, NoneOfTheImage DEF BodyInit, Closed, Clean
  <1> QED
    BY <1>2, <1>3, <1>4, <1>5 DEF UploadInv

\* A pass of Phase 2 with what comes of the payload up to the n-th byte.
LEMMA StripKeeps ==
  ASSUME UploadInv, Going,
         NEW m \in 0..Len(Payload(body)), NEW n \in m..Len(Payload(body)),
         written \o carry = Part(Payload(body), 0, m), Len(carry) = Smaller(Keep, m),
         body.multipart => Places(Part(Payload(body), 0, m), Marker) = {},
         Strip(Part(Payload(body), m, n)),
         pos' \in 0..Len(body.bytes), n = pos' - Len(body.head),
         inBody' = TRUE, UNCHANGED <<body, outcome>>
  PROVE  UploadInv'
  <1>1. /\ body \in Bodies /\ written \in Seq(Bytes) /\ carry \in Seq(Bytes)
        /\ ok \in BOOLEAN /\ done \in BOOLEAN /\ IsPrefix(written, body.image)
        /\ ok /\ ~done
    BY DEF UploadInv, Types, Clean, Going
  <1>2. /\ written' \in Seq(Bytes) /\ carry' \in Seq(Bytes)
        /\ ok' \in BOOLEAN /\ done' \in BOOLEAN
        /\ IsPrefix(written', body.image)
        /\ done' /\ ok' => written' = body.image
        /\ ~done' /\ ok' =>
              /\ written' \o carry' = Part(Payload(body), 0, n)
              /\ Len(carry') = Smaller(Keep, n)
              /\ body.multipart => Places(Part(Payload(body), 0, n), Marker) = {}
    BY <1>1, StripStep
  <1>3. Payload(body)' = Payload(body) /\ Keep' = Keep
    BY DEF Payload, Keep
  <1>4. Got' = Part(Payload(body), 0, n) /\ Len(Part(Payload(body), 0, n)) = n
    <2>1. /\ Payload(body) \in Seq(Bytes) /\ 0 \in 0..Len(Payload(body))
          /\ n \in 0..Len(Payload(body)) /\ n - 0 = n
      BY <1>1, BodyTypes
    <2>2. Len(Part(Payload(body), 0, n)) = n
      BY <2>1, PartOf
    <2> QED
      BY <1>3, <2>2 DEF Got
  <1>5. outcome' = "none" /\ Len(body.head) <= pos'
    <2>1. Len(body.head) \in Nat /\ n \in Nat /\ pos' \in Nat
      BY <1>1, BodyTypes
    <2> QED
      BY <2>1 DEF Going
  <1>6. Types'
    BY <1>1, <1>2 DEF Types
  <1>7. InHead'
    BY DEF InHead
  <1>8. InImage'
    BY <1>2, <1>3, <1>4, <1>5 DEF InImage, Going
  <1>9. Closed' /\ Clean'
    BY <1>2, <1>5 DEF Closed, Clean
  <1> QED
    BY <1>6, <1>7, <1>8, <1>9 DEF UploadInv

\* Phase 1 takes the whole read, and the blank line it finds is the first one.
LEMMA SkipKeeps ==
  ASSUME UploadInv, Going, ~inBody, UNCHANGED <<body, outcome>>,
         NEW q \in pos..Len(body.bytes), pos' = q,
         Len(pre) + (q - pos) <= PreMax,
         Skip(Part(body.bytes, pos, q))
  PROVE  UploadInv'
  <1> DEFINE B == body.bytes
             data == Part(B, pos, q)
             all == Part(B, 0, q)
             ends == Places(all, Blank)
             H == Len(body.head)
  <1>1. /\ body \in Bodies /\ B \in Seq(Bytes) /\ Len(B) \in Nat /\ PreMax \in Nat
        /\ Blank \in Seq(Bytes) \ {<< >>} /\ Len(Blank) \in Nat \ {0}
    BY UploadConstants, EmptySeq DEF UploadInv, Types
  <1>2. /\ pos \in 0..Len(B) /\ q \in 0..Len(B) /\ 0 \in 0..Len(B) /\ q \in Nat
        /\ pos \in Nat /\ body.multipart
    BY <1>1 DEF UploadInv, Types
  <1>3. pre = Part(B, 0, pos) /\ written = << >> /\ carry = << >>
    BY DEF UploadInv, InHead
  <1>4. /\ Len(pre) = pos /\ data \in Seq(Bytes) /\ Len(data) = q - pos
        /\ all \in Seq(Bytes) /\ Len(all) = q /\ pre \o data = all
    <2>1. pos - 0 = pos /\ q - 0 = q /\ pos \in 0..Len(B) /\ q \in pos..Len(B)
      BY <1>2
    <2>2. Len(Part(B, 0, pos)) = pos
      BY <1>1, <1>2, <2>1, PartOf
    <2>3. data \in Seq(Bytes) /\ Len(data) = q - pos
      BY <1>1, <2>1, PartOf
    <2>4. all \in Seq(Bytes) /\ Len(all) = q
      BY <1>1, <1>2, <2>1, PartOf
    <2>5. Part(B, 0, pos) \o data = all
      BY <1>1, <1>2, <2>1, PartsMeet
    <2> QED
      BY <1>3, <2>2, <2>3, <2>4, <2>5
  <1>5. pre \o SubSeq(data, 1, Smaller(PreMax - Len(pre), Len(data))) = all
    <2>1. Smaller(PreMax - Len(pre), Len(data)) = Len(data)
      <3>1. Len(pre) \in Nat /\ Len(data) \in Nat /\ Len(data) <= PreMax - Len(pre)
        BY <1>1, <1>2, <1>4
      <3> HIDE DEF data
      <3> QED
        BY <1>1, <3>1 DEF Smaller
    <2>2. SubSeq(data, 1, Len(data)) = data
      BY <1>4, SubSeqFull
    <2> QED
      BY <1>4, <2>1, <2>2
  <1>6. /\ pre' = all
        /\ IF ends = {}
           THEN ok' = (Len(all) < PreMax) /\ UNCHANGED <<inBody, carry, written, done>>
           ELSE inBody' = TRUE /\ Strip(Suffix(all, Least(ends) + Len(Blank)))
    <2> DEFINE W == pre \o SubSeq(data, 1, Smaller(PreMax - Len(pre), Len(data)))
    <2>1. Skip(data)
      OBVIOUS
    <2>2. /\ pre' = W
          /\ IF Places(W, Blank) = {}
             THEN ok' = (Len(W) < PreMax) /\ UNCHANGED <<inBody, carry, written, done>>
             ELSE inBody' = TRUE /\ Strip(Suffix(W, Least(Places(W, Blank)) + Len(Blank)))
      <3> HIDE DEF data
      <3> QED
        BY <2>1 DEF Skip
    <2>3. W = all
      BY <1>5
    <2> HIDE DEF W
    <2>4. ends = Places(W, Blank)
      BY <2>3
    <2> HIDE DEF all, ends, data
    <2> QED
      BY <2>2, <2>3, <2>4
  <1>7. CASE ends = {}
    <2>1. ok' \in BOOLEAN /\ UNCHANGED <<inBody, carry, written, done>>
      BY <1>6, <1>7
    <2>2. Types'
      BY <1>2, <2>1 DEF UploadInv, Types
    <2>3. InHead'
      BY <1>3, <1>6, <1>7, <2>1 DEF InHead
    <2>4. InImage'
      BY <2>1 DEF InImage
    <2>5. Closed' /\ Clean'
      BY <2>1 DEF UploadInv, Closed, Clean, Going
    <2> QED
      BY <2>2, <2>3, <2>4, <2>5 DEF UploadInv
  <1>8. CASE ends # {}
    <2> DEFINE f == Least(ends)
               e == Least(Places(B, Blank))
    <2>1. ends = {i \in Places(B, Blank) : i + Len(Blank) <= q}
          /\ Places(B, Blank) \in SUBSET Nat
      BY <1>1, <1>2, PlacesInPrefix, PlacesAreNumbers
    <2>2. f \in ends /\ \A i \in ends : f <= i
      BY <1>8, <2>1, LeastIsFirst
    <2>3. e \in Places(B, Blank) /\ \A i \in Places(B, Blank) : e <= i
      BY <1>8, <2>1, LeastIsFirst
    <2>4. e \in Nat /\ f \in Nat /\ e <= f /\ f + Len(Blank) <= q
      BY <2>1, <2>2, <2>3
    <2>5. e \in ends
      <3>1. e + Len(Blank) <= q
        <4> HIDE DEF e, f
        <4> QED
          BY <1>1, <1>2, <2>4
      <3> QED
        BY <2>1, <2>3, <3>1
    <2>6. f = e
      <3>1. f <= e
        BY <2>2, <2>5
      <3> HIDE DEF e, f
      <3> QED
        BY <2>4, <3>1
    <2>7. H = e + Len(Blank)
      BY <1>1, <1>2, <2>3, Forms
    <2>8. H = f + Len(Blank) /\ H <= q /\ H \in 0..Len(B) /\ H \in 0..q /\ q \in H..Len(B)
          /\ H \in Nat
      <3> HIDE DEF e, f, H
      <3> QED
        BY <1>1, <1>2, <2>4, <2>6, <2>7
    <2> DEFINE n == q - H
    <2>9. Suffix(all, f + Len(Blank)) = Part(Payload(body), 0, n)
      <3>1. Suffix(all, H) = Part(all, H, q)
        BY <1>4 DEF Suffix, Part
      <3>2. /\ 0 \in 0..Len(B) /\ q \in 0..Len(B) /\ q - 0 = q /\ q \in H..(q - 0)
            /\ H \in 0..(q - 0) /\ 0 + H = H /\ 0 + q = q /\ H - H = 0
            /\ H \in H..Len(B)
        BY <1>1, <1>2, <2>8
      <3>3. Part(Part(B, 0, q), H, q) = Part(B, 0 + H, 0 + q)
        BY <1>1, <3>2, PartOfPart
      <3>4. Part(B, H, q) = Part(Payload(body), H - H, q - H)
        BY <1>1, <2>8, <3>2, PayloadPart
      <3> QED
        BY <2>8, <3>1, <3>2, <3>3, <3>4
    <2>10. Len(Payload(body)) = Len(B) - H
      BY <1>1, BodyTypes
    <2>11. n \in 0..Len(Payload(body)) /\ 0 \in 0..Len(Payload(body))
      BY <1>1, <1>2, <2>8, <2>10
    <2>12. /\ written \o carry = Part(Payload(body), 0, 0) /\ Len(carry) = Smaller(Keep, 0)
           /\ Places(Part(Payload(body), 0, 0), Marker) = {}
      BY <1>1, <1>3, NoneOfTheImage
    <2>13. Strip(Part(Payload(body), 0, n)) /\ inBody' = TRUE
      BY <1>6, <1>8, <2>9
    <2>14. pos' \in 0..Len(B) /\ n = pos' - Len(body.head)
      BY <1>2
    <2> HIDE DEF n
    <2> QED
      BY <2>11, <2>12, <2>13, <2>14, StripKeeps
  <1> QED
    BY <1>7, <1>8

LEMMA ReceiveKeeps ==
  ASSUME ~SplitHeader, UploadInv, Receive
  PROVE  UploadInv'
  <1> DEFINE B == body.bytes
             H == Len(body.head)
  <1>1. Going /\ UNCHANGED <<body, outcome>> /\ pos < Len(B)
    BY DEF Receive, Reading, Going
  <1>2. /\ body \in Bodies /\ pos \in 0..Len(B) /\ B \in Seq(Bytes) /\ Len(B) \in Nat
        /\ BufMax \in Nat
    BY UploadConstants DEF UploadInv, Types
  <1>3. PICK r \in 1..Smaller(BufMax, Len(B) - pos) :
           /\ inBody \/ Len(pre) + r <= PreMax
           /\ pos' = pos + r
           /\ \/ ~inBody /\ Skip(SubSeq(B, pos + 1, pos + r))
              \/ inBody /\ Strip(SubSeq(B, pos + 1, pos + r)) /\ UNCHANGED <<pre, inBody>>
    BY DEF Receive
  <1> DEFINE q == pos + r
  <1>4. q \in pos..Len(B) /\ q - pos = r /\ pos' = q /\ q \in 0..Len(B)
    <2>1. r <= Len(B) - pos /\ r \in Nat
      BY <1>2 DEF Smaller
    <2> QED
      BY <1>2, <1>3, <2>1
  <1>5. SubSeq(B, pos + 1, pos + r) = Part(B, pos, q)
    BY DEF Part
  <1>6. CASE ~inBody
    <2>1. Skip(Part(B, pos, q)) /\ Len(pre) + (q - pos) <= PreMax
      BY <1>3, <1>4, <1>5, <1>6
    <2> HIDE DEF q
    <2> QED
      BY <1>1, <1>4, <1>6, <2>1, SkipKeeps
  <1>7. CASE inBody
    <2>1. Strip(Part(B, pos, q)) /\ UNCHANGED inBody
      BY <1>3, <1>5, <1>7
    <2> DEFINE m == pos - H
               n == q - H
    <2>2. /\ H <= pos /\ written \o carry = Got /\ Len(carry) = Smaller(Keep, Len(Got))
          /\ body.multipart => Places(Got, Marker) = {}
      BY <1>1, <1>7 DEF UploadInv, InImage
    <2>3. H \in 0..Len(B) /\ Len(Payload(body)) = Len(B) - H
          /\ Payload(body) \in Seq(Bytes)
      BY <1>2, BodyTypes
    <2>4. /\ pos \in H..Len(B) /\ m \in 0..Len(Payload(body)) /\ n \in m..Len(Payload(body))
          /\ m - 0 = m /\ 0 \in 0..Len(Payload(body))
      BY <1>2, <1>4, <2>2, <2>3
    <2>5. Part(B, pos, q) = Part(Payload(body), m, n)
      BY <1>2, <1>4, <2>4, PayloadPart
    <2>6. Got = Part(Payload(body), 0, m) /\ Len(Got) = m
      <3>1. Got = Part(Payload(body), 0, m)
        BY DEF Got
      <3>2. Len(Part(Payload(body), 0, m)) = m
        <4> HIDE DEF m
        <4> QED
          BY <2>3, <2>4, PartOf
      <3> QED
        BY <3>1, <3>2
    <2>7. n = pos' - Len(body.head) /\ pos' \in 0..Len(body.bytes)
      BY <1>4
    <2>8. inBody' = TRUE
      BY <1>7, <2>1 DEF UploadInv, Types
    <2> HIDE DEF m, n
    <2>9. /\ written \o carry = Part(Payload(body), 0, m)
          /\ Len(carry) = Smaller(Keep, m)
          /\ body.multipart => Places(Part(Payload(body), 0, m), Marker) = {}
          /\ Strip(Part(Payload(body), m, n))
      BY <2>1, <2>2, <2>5, <2>6
    <2> QED
      BY <1>1, <2>4, <2>7, <2>8, <2>9, StripKeeps
  <1> QED
    BY <1>6, <1>7

LEMMA FinishKeeps ==
  ASSUME UploadInv, Finish
  PROVE  UploadInv'
  <1>1. /\ body \in Bodies /\ written \in Seq(Bytes) /\ carry \in Seq(Bytes)
        /\ ok \in BOOLEAN /\ done \in BOOLEAN /\ pos \in 0..Len(body.bytes)
        /\ IsPrefix(written, body.image)
    BY DEF UploadInv, Types, Clean
  <1>2. /\ outcome = "none" /\ ~Reading
        /\ outcome' = (IF ok' THEN "flashed" ELSE "flash failed")
        /\ UNCHANGED <<body, pos, pre, inBody, carry, done>>
        /\ IF ok /\ ~done THEN Flash(carry) ELSE UNCHANGED <<written, ok>>
    BY DEF Finish
  <1>3. ~Going'
    BY <1>2 DEF Going
  <1>4. CASE ok /\ ~done
    <2>1. written \o carry = body.image
      <3>1. Going /\ ~(pos < Len(body.bytes))
        BY <1>2, <1>4 DEF Going, Reading
      <3>2. /\ body.bytes \in Seq(Bytes) /\ Len(body.head) \in 0..Len(body.bytes)
            /\ Payload(body) \in Seq(Bytes) /\ Len(body.bytes) \in Nat
            /\ Len(Payload(body)) = Len(body.bytes) - Len(body.head)
        BY <1>1, BodyTypes
      <3>3. pos = Len(body.bytes) /\ pos - Len(body.head) = Len(Payload(body))
        BY <1>1, <3>1, <3>2
      <3>4. CASE inBody
        <4>1. /\ written \o carry = Got
              /\ body.multipart => Places(Got, Marker) = {}
              /\ Got = Part(Payload(body), 0, Len(Payload(body)))
          BY <3>1, <3>3, <3>4 DEF UploadInv, InImage, Got
        <4>2. Len(Payload(body)) \in 0..Len(Payload(body))
          BY <3>2
        <4>3. Part(Payload(body), 0, Len(Payload(body))) = body.image
          BY <1>1, <4>1, <4>2, ImageGoesOn
        <4> QED
          BY <4>1, <4>3
      <3>5. CASE ~inBody
        <4>1. /\ pre = Part(body.bytes, 0, pos) /\ Places(pre, Blank) = {}
              /\ written = << >> /\ carry = << >> /\ body.multipart
          BY <3>1, <3>5 DEF UploadInv, InHead, Types
        <4>2. Places(body.bytes, Blank) = {}
          BY <3>2, <3>3, <4>1, WholePart
        <4>3. Len(body.head) = Len(body.bytes)
          BY <1>1, <4>1, <4>2, Forms
        <4>4. Len(Payload(body)) = 0
          BY <3>2, <4>3
        <4>5. body.image = << >>
          BY <1>1, <3>2, <4>4, NoneOfTheImage, EmptySeq
        <4> QED
          BY <4>1, <4>5
      <3> QED
        BY <3>4, <3>5
    <2>2. \/ written' = body.image /\ ok' = ok
          \/ written' = written /\ ok' = FALSE
      BY <1>2, <1>4, <2>1 DEF Flash
    <2>3. written \o carry \in Seq(Bytes)
      BY <1>1, ConcatProperties
    <2>4. written' \in Seq(Bytes) /\ ok' \in BOOLEAN
      BY <1>1, <2>1, <2>2, <2>3
    <2>5. Types'
      BY <1>2, <2>4 DEF UploadInv, Types
    <2>6. Closed' /\ Clean'
      <3>1. IsPrefix(body.image, body.image)
        BY DEF IsPrefix
      <3>2. CASE written' = body.image /\ ok' = ok
        BY <1>2, <3>1, <3>2 DEF Closed, Clean
      <3>3. CASE written' = written /\ ok' = FALSE
        BY <1>1, <1>2, <3>3 DEF Closed, Clean
      <3> QED
        BY <2>2, <3>2, <3>3
    <2> QED
      BY <1>3, <2>5, <2>6 DEF UploadInv, InHead, InImage
  <1>5. CASE ~(ok /\ ~done)
    <2>1. UNCHANGED <<written, ok>>
      BY <1>2, <1>5
    <2>2. Types'
      BY <1>2, <2>1 DEF UploadInv, Types
    <2>3. Closed' /\ Clean'
      BY <1>1, <1>2, <1>5, <2>1 DEF UploadInv, Closed, Clean
    <2> QED
      BY <1>3, <2>2, <2>3 DEF UploadInv, InHead, InImage
  <1> QED
    BY <1>4, <1>5

LEMMA BrokenKeeps ==
  ASSUME UploadInv, Broken
  PROVE  UploadInv'
  <1>1. ok' = FALSE /\ outcome = "none"
        /\ UNCHANGED <<body, pos, pre, inBody, carry, written, done, outcome>>
    BY DEF Broken, Reading
  <1>2. Types' /\ Closed' /\ Clean'
    BY <1>1 DEF UploadInv, Types, Closed, Clean
  <1>3. InHead' /\ InImage'
    BY <1>1 DEF InHead, InImage, Going
  <1> QED
    BY <1>2, <1>3 DEF UploadInv

LEMMA StepKeepsUpload == ~SplitHeader /\ UploadInv /\ [BodyNext]_bodyVars => UploadInv'
  <1> SUFFICES ASSUME ~SplitHeader, UploadInv, [BodyNext]_bodyVars PROVE UploadInv'
    OBVIOUS
  <1>1. CASE UNCHANGED bodyVars
    BY <1>1 DEF bodyVars, UploadInv, Types, InHead, InImage, Closed, Clean, Going, Got,
       Payload, Keep
  <1> QED
    BY <1>1, ReceiveKeeps, BrokenKeeps, FinishKeeps DEF BodyNext

-----------------------------------------------------------------------------
(* The theorems *)

\* Nothing of the envelope reaches the flash, however the socket cuts header,
\* image and boundary, and what is held back goes on from what was written.
THEOREM EnvelopeIsTakenOff ==
  ASSUME ~SplitHeader
  PROVE  BodySpec => []OnlyTheImageIsWritten
  <1>1. UploadInv => OnlyTheImageIsWritten
    <2> SUFFICES ASSUME UploadInv PROVE OnlyTheImageIsWritten
      OBVIOUS
    <2>1. body \in Bodies /\ IsPrefix(written, body.image)
      BY DEF UploadInv, Types, Clean
    <2>2. /\ Payload(body) \in Seq(Bytes) /\ Len(Payload(body)) \in Nat
          /\ Part(Payload(body), 0, Len(Payload(body))) = Payload(body)
          /\ Len(Payload(body)) = Len(body.bytes) - Len(body.head)
          /\ Len(body.head) \in Nat /\ Len(body.bytes) \in Nat
      BY <2>1, BodyTypes, WholePart
    <2>3. Keep \in Nat /\ \A k \in Nat : Smaller(Keep, k) <= Keep
      <3>1. Keep \in Nat
        <4>1. Len(Marker) \in Nat \ {0}
          BY UploadConstants, EmptySeq
        <4> QED
          BY <4>1 DEF Keep
      <3> QED
        BY <3>1 DEF Smaller
    <2>4. ASSUME Going, ~inBody
          PROVE  Len(carry) <= Keep /\ IsPrefix(written \o carry, Payload(body))
      <3>1. written = << >> /\ carry = << >>
        BY <2>4 DEF UploadInv, InHead
      <3>2. 0 \in 0..Len(Payload(body)) /\ Len(Payload(body)) \in 0..Len(Payload(body))
            /\ 0 \in 0..Len(Payload(body))
        BY <2>2
      <3>3. IsPrefix(Part(Payload(body), 0, 0), Part(Payload(body), 0, Len(Payload(body))))
        BY <2>2, <3>2, PrefixOf
      <3>4. << >> \o << >> = Part(Payload(body), 0, 0)
        BY <2>1, NoneOfTheImage
      <3>5. Len(carry) <= Keep
        <4>1. Len(carry) = 0
          BY <3>1, EmptySeq
        <4> QED
          BY <2>3, <4>1
      <3>6. written \o carry = Part(Payload(body), 0, 0)
        BY <3>1, <3>4
      <3> QED
        BY <2>2, <3>3, <3>5, <3>6
    <2>5. ASSUME Going, inBody
          PROVE  Len(carry) <= Keep /\ IsPrefix(written \o carry, Payload(body))
      <3> DEFINE m == pos - Len(body.head)
      <3>1. /\ written \o carry = Part(Payload(body), 0, m)
            /\ Len(carry) = Smaller(Keep, Len(Got)) /\ Len(body.head) <= pos
            /\ pos \in 0..Len(body.bytes) /\ Got = Part(Payload(body), 0, m)
        BY <2>5 DEF UploadInv, InImage, Types, Got
      <3>2. /\ m \in 0..Len(Payload(body)) /\ 0 \in 0..Len(Payload(body))
            /\ Len(Payload(body)) \in 0..Len(Payload(body))
        BY <2>2, <3>1
      <3> HIDE DEF m
      <3>3. IsPrefix(Part(Payload(body), 0, m), Part(Payload(body), 0, Len(Payload(body))))
        BY <2>2, <3>2, PrefixOf
      <3>4. Len(Got) \in Nat
        <4>1. Part(Payload(body), 0, m) \in Seq(Bytes)
          BY <2>2, <3>2, PartOf
        <4> QED
          BY <3>1, <4>1, LenProperties
      <3> QED
        BY <2>2, <2>3, <3>1, <3>3, <3>4
    <2> QED
      BY <2>1, <2>4, <2>5 DEF OnlyTheImageIsWritten, Going, UploadInv, Types
  <1> QED
    BY UploadInit, StepKeepsUpload, <1>1, PTL DEF BodySpec

\* What goes on to esp_ota_end() is the image, all of it: also if the body is not
\* closed, or not wrapped at all.
THEOREM TheImageIsFlashed ==
  ASSUME ~SplitHeader
  PROVE  BodySpec => []FlashedIsTheImage
  <1>1. UploadInv => FlashedIsTheImage
    BY DEF UploadInv, Closed, FlashedIsTheImage
  <1> QED
    BY UploadInit, StepKeepsUpload, <1>1, PTL DEF BodySpec

-----------------------------------------------------------------------------
(* The update *)

Images == Updaters \cup {None, "old"}

TypeOK ==
    /\ phase \in {"guard", "reboot", "init", "run"}
    /\ po \in {0, 1, 2} /\ risky \in BOOLEAN
    /\ slot \in [Slots -> [Halves -> Images]]
    /\ runs \in Slots /\ boot \in Slots
    /\ unmarked \in Nat /\ panics \in Nat

FlashInv == TypeOK /\ OneImageIsWhole

Steady == phase \in {"guard", "reboot"} => Booted = runs
Accounted ==
    /\ panics <= unmarked
    /\ \/ ~risky \/ panics < unmarked
       \/ phase = "guard" /\ po = 1
       \/ phase = "reboot"

IInv == FlashInv /\ Steady /\ Accounted

USE DEF Slots, Halves, Other

LEMMA InitHolds == Init => IInv
  <1> SUFFICES ASSUME Init PROVE IInv
    OBVIOUS
  <1>1. Whole(1) /\ runs = 1 /\ boot = 1
    BY UpdateConstants DEF Init, Whole
  <1>2. TypeOK
    BY DEF Init, TypeOK, Images
  <1>3. OneImageIsWhole /\ Steady /\ Accounted
    BY <1>1 DEF Init, OneImageIsWhole, Steady, Booted, Accounted
  <1> QED
    BY <1>2, <1>3 DEF IInv, FlashInv

\* The boot loader never leaves the partition that runs for one without an image.
LEMMA BootedIsWhole ==
  ASSUME FlashInv
  PROVE  Booted \in Slots /\ Whole(Booted)
  BY DEF FlashInv, TypeOK, OneImageIsWhole, Booted

-----------------------------------------------------------------------------
\* A reset boots a whole image and leaves a steady state; a clean one, or one
\* with the flag up, owes no panic.
LEMMA ResetKeeps ==
  ASSUME IInv, NEW clean \in BOOLEAN, Reset(clean), UNCHANGED flash,
         po' \in {0, 1, 2}, panics' \in Nat, panics' <= unmarked
  PROVE  IInv'
  <1> USE DEF IInv, FlashInv, TypeOK, Reset, flash
  <1>1. Booted \in Slots /\ Whole(Booted) /\ Booted' = Booted
    BY BootedIsWhole DEF Booted, Whole
  <1>2. unmarked' \in Nat /\ panics' <= unmarked'
    OBVIOUS
  <1>3. TypeOK'
    BY <1>1, <1>2
  <1>4. OneImageIsWhole'
    BY <1>1 DEF OneImageIsWhole, Whole
  <1>5. Steady'
    BY <1>1 DEF Steady
  <1>6. Accounted'
    <2>1. CASE ~clean /\ Booted # runs /\ po' # 1
      BY <2>1 DEF Accounted
    <2>2. CASE ~clean /\ Booted # runs /\ po' = 1
      BY <1>2, <2>2 DEF Accounted
    <2>3. CASE clean \/ Booted = runs
      <3>1. ~risky'
        BY <2>3
      <3> QED
        BY <1>2, <3>1 DEF Accounted
    <2> QED
      BY <2>1, <2>2, <2>3
  <1> QED
    BY <1>3, <1>4, <1>5, <1>6

\* The phases of a boot.
LEMMA BootKeeps == ASSUME IInv, Boot PROVE IInv'
  <1> USE DEF IInv, FlashInv, TypeOK
  <1>1. CASE Guard
    <2>1. UNCHANGED <<slot, boot, runs, risky, unmarked, panics>>
      BY <1>1 DEF Guard, flash
    <2>2. TypeOK' /\ Accounted'
      BY <1>1, <2>1 DEF Guard, Accounted
    <2>3. OneImageIsWhole' /\ Steady'
      BY <1>1, <2>1 DEF Guard, OneImageIsWhole, Whole, Steady, Booted
    <2> QED
      BY <2>2, <2>3
  <1>2. CASE CleanReboot
    BY <1>2, ResetKeeps DEF CleanReboot, Accounted
  <1>3. CASE StartUp
    <2>1. CASE UNCHANGED <<runs, risky, unmarked, panics>> /\ phase' = "run"
      BY <1>3, <2>1
         DEF StartUp, OneImageIsWhole, Whole, Steady, Accounted, flash
    <2>2. CASE ~maint /\ risky /\ panics' = panics + 1 /\ Reset(FALSE)
      <3>1. panics + 1 <= unmarked
        BY <1>3, <2>2 DEF StartUp, Accounted
      <3>2. UNCHANGED flash /\ po' \in {0, 1, 2} /\ panics' \in Nat
            /\ panics' <= unmarked
        BY <1>3, <2>2, <3>1 DEF StartUp
      <3> QED
        BY <2>2, <3>2, ResetKeeps
    <2> QED
      BY <1>3, <2>1, <2>2 DEF StartUp
  <1> QED
    BY <1>1, <1>2, <1>3 DEF Boot

\* Everything else that restarts the bridge.
LEMMA ResetsKeep ==
  ASSUME IInv, Restart \/ PowerFails \/ FactoryReset
  PROVE  IInv'
  BY ResetKeeps
     DEF IInv, FlashInv, TypeOK, Accounted, Restart, PowerFails, FactoryReset

\* An update, up to its restart, happens in a boot that is past its guard, and
\* writes to the partition that does not run.
LEMMA UpdateKeeps ==
  ASSUME IInv, NEW u \in Updaters, Begin(u) \/ Update(u)
  PROVE  IInv'
  <1> USE DEF IInv, FlashInv, TypeOK
  <1>1. /\ phase \in {"init", "run"}
        /\ UNCHANGED <<phase, runs, risky, unmarked, panics>>
        /\ po' \in {0, 1, 2} /\ (po' = po \/ po' = 1)
    BY DEF Begin, Update, Step, Erase, WriteFirst, WriteRest, Ended, Fails,
       SetBoot, Mark, Schedule, Write
  <1>2. Steady' /\ Accounted'
    BY <1>1 DEF Steady, Accounted
  <1>3. /\ boot' \in Slots
        /\ slot' \in [Slots -> [Halves -> Images]]
        /\ slot'[runs] = slot[runs]
    <2>1. Target \in Slots /\ Target # runs
      BY DEF Target
    <2>2. CASE Erase(u)
      BY <2>1, <2>2 DEF Erase, Images
    <2>3. CASE WriteFirst(u)
      BY <2>1, <2>3 DEF WriteFirst, Write, Images
    <2>4. CASE WriteRest(u)
      BY <2>1, <2>4 DEF WriteRest, Write, Images
    <2>5. CASE SetBoot(u)
      BY <2>1, <2>5 DEF SetBoot
    <2>6. CASE Begin(u) \/ Ended(u) \/ Fails(u) \/ Mark(u) \/ Schedule(u)
      BY <2>6 DEF Begin, Ended, Fails, Mark, Schedule, flash
    <2> QED
      BY <2>2, <2>3, <2>4, <2>5, <2>6 DEF Update
  <1>4. OneImageIsWhole'
    BY <1>1, <1>3 DEF OneImageIsWhole, Whole
  <1> QED
    BY <1>1, <1>2, <1>3, <1>4

LEMMA StepKeeps == IInv /\ [Next]_vars => IInv'
  <1> SUFFICES ASSUME IInv, [Next]_vars PROVE IInv'
    OBVIOUS
  <1>1. CASE UNCHANGED vars
    BY <1>1 DEF IInv, FlashInv, TypeOK, OneImageIsWhole, Whole, Steady, Booted,
       Accounted, vars, flash
  <1>2. CASE SettingsPage
    BY <1>2 DEF SettingsPage, IInv, FlashInv, TypeOK, OneImageIsWhole, Whole,
       Steady, Booted, Accounted, flash
  <1>3. CASE Next
    BY <1>2, <1>3, BootKeeps, ResetsKeep, UpdateKeeps DEF Next
  <1> QED
    BY <1>1, <1>3

-----------------------------------------------------------------------------
\* Two updates may spoil each other's image, and the power may fail at any
\* step: the image that runs stays whole.
THEOREM ThereIsAlwaysAnImage == Spec => []OneImageIsWhole
  <1>1. IInv => OneImageIsWhole
    BY DEF IInv, FlashInv
  <1> QED
    BY InitHolds, StepKeeps, <1>1, PTL DEF Spec

\* There is at most one panic for each restart into another image that came
\* before its flag: with the flag up, the clean reboot always comes first.
THEOREM PanicsAreAccountedFor == Spec => []NoPanicAfterUpdate
  <1>1. IInv => NoPanicAfterUpdate
    BY DEF IInv, Accounted, NoPanicAfterUpdate
  <1> QED
    BY InitHolds, StepKeeps, <1>1, PTL DEF Spec
=============================================================================
