-------------------------- MODULE IcableWireProofs --------------------------
(***************************************************************************)
(* Theorems about IcableWire, for any frames the client may send and any    *)
(* way the network cuts its stream into pieces: what is decoded was sent,   *)
(* what is relayed still says where it goes, and a thread ends for a reason.*)
(***************************************************************************)
EXTENDS IcableWire, SequenceTheorems, TLAPS

Byte == Nat \X Nat

Total(frame) == HeaderBytes + frame.len

-----------------------------------------------------------------------------
(* The bytes that are held for the server.                                 *)

\* The bytes h are those of the frames of s that follow the first d, each frame
\* whole and the frames in their order.
Frame(h, s, k) ==
    /\ h[k][1] \in 1..Len(s) /\ h[k][2] \in 1..Total(s[h[k][1]])
    /\ h[k] = <<h[k][1], h[k][2]>>
\* With byte k of h, all the others of its frame that h can hold.
Whole(h, s, k) ==
    \A j \in 1..Total(s[h[k][1]]) :
        (k - h[k][2]) + j >= 1 =>
            /\ (k - h[k][2]) + j <= Len(h)
            /\ h[(k - h[k][2]) + j] = <<h[k][1], j>>
\* The last byte of a frame is followed by the first of the next.
Next1(h, s, k) ==
    h[k][2] = Total(s[h[k][1]]) =>
        IF k < Len(h) THEN h[k + 1] = <<h[k][1] + 1, 1>> ELSE h[k][1] = Len(s)

Chain(h, s, d) ==
    /\ h \in Seq(Byte) /\ s \in Seq(Frames) /\ d \in 0..Len(s)
    /\ \A k \in 1..Len(h) : Frame(h, s, k) /\ Whole(h, s, k) /\ Next1(h, s, k)
    /\ IF h = << >> THEN d = Len(s) ELSE h[1] = <<d + 1, 1>>

LEMMA TotalType ==
    ASSUME NEW s \in Seq(Frames), NEW i \in 1..Len(s)
    PROVE  Total(s[i]) \in Nat /\ Total(s[i]) >= 8 /\ s[i].len \in Nat
<1>1. s[i] \in Frames
  OBVIOUS
<1>2. s[i].len \in 0..(2^16 - 1)
  BY <1>1, WireAssumption DEF WireAssumption
<1>3. s[i].len \in Nat
  BY <1>2
<1> QED
  BY <1>3 DEF Total, HeaderBytes

\* The first frame that is held.
LEMMA ChainFront ==
    ASSUME NEW h, NEW s, NEW d, Chain(h, s, d), h # << >>
    PROVE  /\ d + 1 \in 1..Len(s)
           /\ Total(s[d + 1]) <= Len(h)
           /\ \A j \in 1..Total(s[d + 1]) : h[j] = <<d + 1, j>>
<1>1. /\ h \in Seq(Byte) /\ Len(h) \in Nat /\ Len(h) >= 1
      /\ h[1] = <<d + 1, 1>> /\ d \in Nat
  BY DEF Chain
<1>2. h[1][1] = d + 1 /\ h[1][2] = 1
  BY <1>1
<1>3. Frame(h, s, 1) /\ Whole(h, s, 1)
  BY <1>1 DEF Chain
<1>4. d + 1 \in 1..Len(s)
  BY <1>2, <1>3 DEF Frame
<1>5. Total(s[d + 1]) \in Nat /\ Total(s[d + 1]) >= 8
  BY <1>4, TotalType DEF Chain
<1>6. ASSUME NEW j \in 1..Total(s[d + 1])
      PROVE  j <= Len(h) /\ h[j] = <<d + 1, j>>
  <2>1. (1 - 1) + j = j /\ j >= 1
    BY <1>5
  <2> QED
    BY <1>2, <1>3, <2>1 DEF Whole
<1> QED
  BY <1>4, <1>5, <1>6

\* The first frame is taken away.
LEMMA ChainDrop ==
    ASSUME NEW h, NEW s, NEW d, Chain(h, s, d), h # << >>,
           NEW g \in Seq(Byte), Len(g) = Len(h) - Total(s[d + 1]),
           \A i \in 1..Len(g) : g[i] = h[Total(s[d + 1]) + i]
    PROVE  Chain(g, s, d + 1)
<1> PICK t : t = Total(s[d + 1])
  OBVIOUS
<1>1. /\ d + 1 \in 1..Len(s) /\ t <= Len(h)
      /\ \A j \in 1..t : h[j] = <<d + 1, j>>
      /\ t \in Nat /\ t >= 8
  <2>1. /\ d + 1 \in 1..Len(s) /\ t <= Len(h)
        /\ \A j \in 1..t : h[j] = <<d + 1, j>>
    BY ChainFront
  <2>2. s \in Seq(Frames)
    BY DEF Chain
  <2> QED
    BY <2>1, <2>2, TotalType
<1>2. /\ Len(h) \in Nat /\ Len(g) \in Nat /\ Len(g) = Len(h) - t
      /\ \A i \in 1..Len(g) : g[i] = h[t + i] /\ t + i \in 1..Len(h)
  <2>1. h \in Seq(Byte) /\ g \in Seq(Byte)
    BY DEF Chain
  <2>2. Len(h) \in Nat /\ Len(g) \in Nat
    BY ONLY <2>1
  <2>3. Len(g) = Len(h) - t /\ \A i \in 1..Len(g) : g[i] = h[t + i]
    OBVIOUS
  <2>4. ASSUME NEW i \in 1..Len(g) PROVE t + i \in 1..Len(h)
    BY ONLY <1>1, <2>2, <2>3, i \in 1..Len(g)
  <2> QED
    BY ONLY <2>2, <2>3, <2>4
<1>3. ASSUME NEW k \in 1..Len(g)
      PROVE  Frame(g, s, k) /\ Whole(g, s, k) /\ Next1(g, s, k)
  <2> PICK a, b : a = h[t + k][1] /\ b = h[t + k][2]
    OBVIOUS
  <2>1. Frame(h, s, t + k) /\ Whole(h, s, t + k) /\ Next1(h, s, t + k)
    BY <1>2 DEF Chain
  <2>2. g[k] = h[t + k] /\ g[k][1] = a /\ g[k][2] = b
    BY <1>2
  <2>3. a \in 1..Len(s) /\ b \in 1..Total(s[a]) /\ h[t + k] = <<a, b>>
    BY <2>1 DEF Frame
  <2>4. Total(s[a]) \in Nat
    BY <2>3, TotalType DEF Chain
  <2>5. Frame(g, s, k)
    BY <2>2, <2>3 DEF Frame
  <2>6. Whole(g, s, k)
    <3> SUFFICES ASSUME NEW j \in 1..Total(s[a]), (k - b) + j >= 1
                 PROVE  (k - b) + j <= Len(g) /\ g[(k - b) + j] = <<a, j>>
      BY <2>2 DEF Whole
    <3> PICK q : q = (k - b) + j
      OBVIOUS
    <3>0. k \in Nat /\ b \in Nat /\ j \in Nat /\ t \in Nat
      <4>1. /\ k \in 1..Len(g) /\ b \in 1..Total(s[a]) /\ j \in 1..Total(s[a])
            /\ Len(g) \in Nat /\ Total(s[a]) \in Nat /\ t \in Nat
        BY ONLY <1>1, <1>2, <2>3, <2>4, k \in 1..Len(g), j \in 1..Total(s[a])
      <4> QED
        BY ONLY <4>1
    <3>1. q \in Nat /\ q >= 1 /\ ((t + k) - b) + j = t + q
      BY ONLY <3>0, (k - b) + j >= 1, q = (k - b) + j
    <3>2. t + q <= Len(h) /\ h[t + q] = <<a, j>>
      <4>1. h[t + k][1] = a /\ h[t + k][2] = b
        BY <2>2
      <4>2. ((t + k) - b) + j >= 1 =>
               /\ ((t + k) - b) + j <= Len(h)
               /\ h[((t + k) - b) + j] = <<a, j>>
        BY <2>1, <4>1 DEF Whole
      <4>3. t + q >= 1
        BY ONLY <3>0, <3>1
      <4> QED
        BY <3>1, <4>2, <4>3
    <3>3. q \in 1..Len(g) /\ q <= Len(g)
      BY ONLY <3>0, <1>2, <3>1, <3>2
    <3>4. g[q] = h[t + q]
      BY ONLY <1>2, <3>3
    <3>5. q <= Len(g) /\ g[q] = <<a, j>>
      BY ONLY <3>2, <3>3, <3>4
    <3> QED
      BY <3>5
  <2>7. Next1(g, s, k)
    <3> SUFFICES ASSUME b = Total(s[a])
                 PROVE  IF k < Len(g) THEN g[k + 1] = <<a + 1, 1>> ELSE a = Len(s)
      BY <2>2 DEF Next1
    <3>1. IF t + k < Len(h) THEN h[(t + k) + 1] = <<a + 1, 1>> ELSE a = Len(s)
      BY <2>1 DEF Next1
    <3>2. CASE k < Len(g)
      <4>1. k + 1 \in 1..Len(g) /\ t + (k + 1) = (t + k) + 1 /\ t + k < Len(h)
        <5>1. k \in Nat /\ t \in Nat /\ Len(g) \in Nat /\ Len(h) \in Nat
          BY <1>1, <1>2
        <5>2. k \in 1..Len(g) /\ Len(g) = Len(h) - t
          BY <1>2
        <5> QED
          BY ONLY <3>2, <5>1, <5>2
      <4> QED
        BY <1>2, <3>1, <3>2, <4>1
    <3>3. CASE ~(k < Len(g))
      BY <1>1, <1>2, <3>1, <3>3
    <3> QED
      BY <3>2, <3>3
  <2> QED
    BY <2>5, <2>6, <2>7
<1>4. h[t] = <<d + 1, t>> /\ t \in 1..Len(h)
  BY <1>1
<1>5. IF t < Len(h) THEN h[t + 1] = <<(d + 1) + 1, 1>> ELSE d + 1 = Len(s)
  <2>1. Next1(h, s, t) /\ h[t][1] = d + 1 /\ h[t][2] = t
    BY <1>4 DEF Chain
  <2> QED
    BY <2>1 DEF Next1
<1>6. IF g = << >> THEN d + 1 = Len(s) ELSE g[1] = <<(d + 1) + 1, 1>>
  <2>1. CASE g = << >>
    <3>1. Len(g) = 0
      BY <2>1
    <3> QED
      BY <1>1, <1>2, <1>5, <2>1, <3>1
  <2>2. CASE g # << >>
    <3>1. Len(g) >= 1
      BY <2>2
    <3>2. 1 \in 1..Len(g) /\ t < Len(h)
      BY <1>1, <1>2, <3>1
    <3> QED
      BY <1>2, <1>5, <2>2, <3>2
  <2> QED
    BY <2>1, <2>2
<1>7. s \in Seq(Frames) /\ d + 1 \in 0..Len(s)
  BY <1>1 DEF Chain
<1> QED
  BY <1>3, <1>6, <1>7 DEF Chain

\* A frame is sent.
LEMMA ChainSend ==
    ASSUME NEW h, NEW s, NEW d, Chain(h, s, d), NEW frame \in Frames,
           NEW g \in Seq(Byte), Len(g) = Len(h) + Total(frame),
           \A i \in 1..Len(h) : g[i] = h[i],
           \A j \in 1..Total(frame) : g[Len(h) + j] = <<Len(s) + 1, j>>
    PROVE  Chain(g, Append(s, frame), d)
<1> PICK t : t = Total(frame)
  OBVIOUS
<1> PICK s2 : s2 = Append(s, frame)
  OBVIOUS
<1>0. Len(s) \in Nat /\ Len(h) \in Nat
  <2>1. s \in Seq(Frames) /\ h \in Seq(Byte)
    BY DEF Chain
  <2> QED
    BY ONLY <2>1
<1> PICK n : n = Len(s) /\ n \in Nat
  BY ONLY <1>0
<1> PICK m : m = Len(h) /\ m \in Nat
  BY ONLY <1>0
<1>1. /\ s2 \in Seq(Frames) /\ Len(s2) = n + 1 /\ s2[n + 1] = frame
      /\ \A i \in 1..n : s2[i] = s[i]
  BY DEF Chain
<1>2. t \in Nat /\ t >= 8
  <2>1. n + 1 \in 1..Len(s2)
    BY <1>1
  <2>2. Total(s2[n + 1]) \in Nat /\ Total(s2[n + 1]) >= 8
    BY <1>1, <2>1, TotalType
  <2> QED
    BY <1>1, <2>2
<1>3. /\ Len(g) = m + t /\ \A i \in 1..m : g[i] = h[i]
      /\ \A j \in 1..t : g[m + j] = <<n + 1, j>>
  OBVIOUS
<1>4. ASSUME NEW k \in 1..m
      PROVE  Frame(g, s2, k) /\ Whole(g, s2, k) /\ Next1(g, s2, k)
  <2> PICK a, b : a = h[k][1] /\ b = h[k][2]
    OBVIOUS
  <2>1. Frame(h, s, k) /\ Whole(h, s, k) /\ Next1(h, s, k)
    BY DEF Chain
  <2>2. g[k] = h[k] /\ g[k][1] = a /\ g[k][2] = b
    BY <1>3
  <2>3. a \in 1..n /\ b \in 1..Total(s[a]) /\ h[k] = <<a, b>>
    BY <2>1 DEF Frame
  <2>4. s2[a] = s[a] /\ a \in 1..Len(s2)
    BY <1>1, <2>3
  <2>5. Frame(g, s2, k)
    BY <2>2, <2>3, <2>4 DEF Frame
  <2>6. Whole(g, s2, k)
    <3> SUFFICES ASSUME NEW j \in 1..Total(s[a]), (k - b) + j >= 1
                 PROVE  (k - b) + j <= Len(g) /\ g[(k - b) + j] = <<a, j>>
      BY <2>2, <2>4 DEF Whole
    <3>q. PICK q : q = (k - b) + j
      OBVIOUS
    <3>1. Total(s[a]) \in Nat
      BY <2>3, TotalType DEF Chain
    <3>2. q \in Int /\ q >= 1
      BY <2>3, <3>1, <3>q
    <3>3. (k - b) + j <= m /\ h[(k - b) + j] = <<a, j>>
      BY <2>1 DEF Whole
    <3>4. q <= m /\ h[q] = <<a, j>>
      BY <3>3, <3>q
    <3>5. q \in 1..m /\ q <= m + t
      BY ONLY <3>2, <3>4, <1>2, m \in Nat
    <3>6. q <= Len(g) /\ g[q] = <<a, j>>
      BY <1>3, <3>4, <3>5
    <3> QED
      BY <3>6, <3>q
  <2>7. Next1(g, s2, k)
    <3> SUFFICES ASSUME b = Total(s[a])
                 PROVE  IF k < Len(g) THEN g[k + 1] = <<a + 1, 1>> ELSE a = Len(s2)
      BY <2>2, <2>4 DEF Next1
    <3>1. IF k < m THEN h[k + 1] = <<a + 1, 1>> ELSE a = n
      BY <2>1 DEF Next1
    <3>2. k < Len(g) /\ k + 1 \in 1..(m + t)
      BY <1>2, <1>3
    <3>3. CASE k < m
      <4>1. k + 1 \in 1..m
        BY <3>3
      <4> QED
        BY <1>3, <3>1, <3>2, <3>3, <4>1
    <3>4. CASE ~(k < m)
      <4>1. k = m /\ g[m + 1] = <<n + 1, 1>>
        BY <1>2, <1>3, <3>4
      <4> QED
        BY <3>1, <3>2, <3>4, <4>1
    <3> QED
      BY <3>3, <3>4
  <2> QED
    BY <2>5, <2>6, <2>7
<1>5. ASSUME NEW l \in 1..t
      PROVE  LET k == m + l
             IN  Frame(g, s2, k) /\ Whole(g, s2, k) /\ Next1(g, s2, k)
  <2> PICK k : k = m + l
    OBVIOUS
  <2>1. g[k] = <<n + 1, l>> /\ g[k][1] = n + 1 /\ g[k][2] = l
    BY <1>3
  <2>2. n + 1 \in 1..Len(s2) /\ Total(s2[n + 1]) = t
    BY <1>1
  <2>3. Frame(g, s2, k)
    BY <2>1, <2>2 DEF Frame
  <2>4. Whole(g, s2, k)
    <3> SUFFICES ASSUME NEW j \in 1..t
                 PROVE  (k - l) + j <= Len(g) /\ g[(k - l) + j] = <<n + 1, j>>
      BY <2>1, <2>2 DEF Whole
    <3>1. (k - l) + j = m + j /\ m + j <= m + t
      BY <1>2
    <3> QED
      BY <1>3, <3>1
  <2>5. Next1(g, s2, k)
    <3> SUFFICES ASSUME l = t
                 PROVE  IF k < Len(g) THEN g[k + 1] = <<(n + 1) + 1, 1>>
                                      ELSE n + 1 = Len(s2)
      BY <2>1, <2>2 DEF Next1
    <3> QED
      BY <1>1, <1>2, <1>3
  <2> QED
    BY <2>3, <2>4, <2>5
<1>6. ASSUME NEW k \in 1..Len(g)
      PROVE  Frame(g, s2, k) /\ Whole(g, s2, k) /\ Next1(g, s2, k)
  <2>1. CASE k \in 1..m
    BY <1>4, <2>1
  <2>2. CASE k \notin 1..m
    <3>1. k - m \in 1..t /\ m + (k - m) = k
      BY <1>2, <1>3, <2>2
    <3> QED
      BY <1>5, <3>1
  <2> QED
    BY <2>1, <2>2
<1>7. d \in 0..Len(s2)
  BY <1>1 DEF Chain
<1>8. g # << >> /\ g[1] = <<d + 1, 1>>
  <2>1. Len(g) >= 1
    BY <1>2, <1>3
  <2>2. CASE h = << >>
    <3>1. m = 0 /\ d = n
      BY <2>2 DEF Chain
    <3> QED
      BY <1>2, <1>3, <2>1, <3>1
  <2>3. CASE h # << >>
    <3>1. h[1] = <<d + 1, 1>> /\ 1 \in 1..m
      BY <2>3 DEF Chain
    <3> QED
      BY <1>3, <2>1, <3>1
  <2> QED
    BY <2>2, <2>3
<1>9. Chain(g, s2, d)
  BY <1>1, <1>6, <1>7, <1>8 DEF Chain
<1> QED
  BY <1>9

-----------------------------------------------------------------------------
(* Pieces of sequences.                                                    *)

LEMMA MinTwo ==
    ASSUME NEW a \in Int, NEW b \in Int
    PROVE  Min({a, b}) \in {a, b} /\ Min({a, b}) <= a /\ Min({a, b}) <= b
<1>1. \E x \in {a, b} : \A y \in {a, b} : x =< y
  BY a <= b \/ b <= a
<1> QED
  BY <1>1 DEF Min

LEMMA Pieces ==
    ASSUME NEW S, NEW s \in Seq(S), NEW k \in 0..Len(s)
    PROVE  LET a == SubSeq(s, 1, k)
               b == SubSeq(s, k + 1, Len(s))
           IN  /\ a \in Seq(S) /\ Len(a) = k /\ \A i \in 1..k : a[i] = s[i]
               /\ b \in Seq(S) /\ Len(b) = Len(s) - k
               /\ \A i \in 1..(Len(s) - k) : b[i] = s[k + i]
               /\ a \o b = s
<1> PICK n : n = Len(s) /\ n \in Nat
  OBVIOUS
<1> DEFINE a == SubSeq(s, 1, k)
           b == SubSeq(s, k + 1, n)
<1>1. \A i \in 1..n : s[i] \in S
  OBVIOUS
<1>2. /\ a \in Seq(S) /\ Len(a) = (IF 1 <= k THEN k - 1 + 1 ELSE 0)
      /\ \A i \in 1..(k - 1 + 1) : a[i] = s[1 + i - 1]
  <2>1. 1 \in Int /\ k \in Int /\ \A i \in 1..k : s[i] \in S
    BY <1>1
  <2> QED
    BY ONLY <2>1, SubSeqProperties
<1>3. /\ b \in Seq(S) /\ Len(b) = (IF k + 1 <= n THEN n - (k + 1) + 1 ELSE 0)
      /\ \A i \in 1..(n - (k + 1) + 1) : b[i] = s[(k + 1) + i - 1]
  <2>1. k + 1 \in Int /\ n \in Int /\ \A i \in (k + 1)..n : s[i] \in S
    BY <1>1
  <2> QED
    BY ONLY <2>1, SubSeqProperties
<1> HIDE DEF a, b
<1>4. a \in Seq(S) /\ Len(a) = k /\ \A i \in 1..k : a[i] = s[i]
  BY <1>2
<1>5. /\ b \in Seq(S) /\ Len(b) = n - k
      /\ \A i \in 1..(n - k) : b[i] = s[k + i]
  BY <1>3
<1>6. a \o b = s
  <2>1. /\ a \o b \in Seq(S) /\ Len(a \o b) = Len(a) + Len(b)
        /\ \A i \in 1..(Len(a) + Len(b)) :
              (a \o b)[i] = IF i <= Len(a) THEN a[i] ELSE b[i - Len(a)]
    BY <1>4, <1>5, ConcatProperties
  <2>2. Len(a \o b) = n
    BY <1>4, <1>5, <2>1
  <2>3. ASSUME NEW i \in 1..n PROVE (a \o b)[i] = s[i]
    <3>0. (a \o b)[i] = IF i <= k THEN a[i] ELSE b[i - k]
      BY <1>4, <1>5, <2>1
    <3>1. CASE i <= k
      BY <1>4, <3>0, <3>1
    <3>2. CASE ~(i <= k)
      <4>1. PICK l : l = i - k /\ l \in 1..(n - k) /\ k + l = i
        BY <3>2
      <4>2. b[l] = s[i]
        BY <1>5, <4>1
      <4>3. (a \o b)[i] = b[l]
        BY <3>0, <3>2, <4>1
      <4> QED
        BY ONLY <4>2, <4>3
    <3> QED
      BY <3>1, <3>2
  <2> QED
    BY <2>1, <2>2, <2>3, SeqEqual
<1> QED
  BY <1>4, <1>5, <1>6 DEF a, b

LEMMA SameFront ==
    ASSUME NEW S, NEW a \in Seq(S), NEW b \in Seq(S), NEW k \in Nat,
           k <= Len(a), k <= Len(b), \A j \in 1..k : a[j] = b[j]
    PROVE  SubSeq(a, 1, k) = SubSeq(b, 1, k)
<1> PICK x, y : x = SubSeq(a, 1, k) /\ y = SubSeq(b, 1, k)
  OBVIOUS
<1>1. k \in 0..Len(a) /\ k \in 0..Len(b)
  OBVIOUS
<1>2. x \in Seq(S) /\ Len(x) = k /\ \A i \in 1..k : x[i] = a[i]
  BY <1>1, Pieces
<1>3. y \in Seq(S) /\ Len(y) = k /\ \A i \in 1..k : y[i] = b[i]
  BY <1>1, Pieces
<1>4. ASSUME NEW i \in 1..Len(x) PROVE x[i] = y[i]
  BY <1>2, <1>3
<1>5. x = y
  BY ONLY <1>2, <1>3, <1>4, SeqEqual
<1> QED
  BY <1>5

-----------------------------------------------------------------------------
(* The invariant.                                                          *)

\* What a datagram that was relayed was made from.
Relays == {[from |-> frame.body, to |-> Repack(frame.body)] :
              frame \in {f \in Frames : f.kind = "CLIENT_DATA" /\ Decodes(f)}}

\* The bytes that were taken and those to come are those of the frames that are
\* not decoded yet, until the pieces of a header came apart.  From then on the
\* first loop never has a header again.
Where ==
    /\ at \in {"header", "payload", "ended"}
    /\ at = "header" /\ split => Len(data) \in 1..(HeaderBytes - 1)
    /\ at = "header" /\ ~split =>
          data = << >> /\ Chain(stream, sent, Len(decoded))
    /\ at = "payload" =>
          /\ ~split /\ Chain(data \o stream, sent, Len(decoded))
          /\ HeaderBytes <= Len(data)
          /\ Len(data) < Total(sent[Len(decoded) + 1])

Inv ==
    /\ sent \in Seq(Frames) /\ stream \in Seq(Byte) /\ data \in Seq(Byte)
    /\ decoded \in Seq(Frames) /\ Len(decoded) <= Len(sent)
    /\ \A i \in 1..Len(decoded) : decoded[i] = sent[i]
    /\ relayed \in Seq(Relays)
    /\ split \in BOOLEAN /\ Where
    /\ EndsForAReason

LEMMA InitInv == Init => Inv
<1> SUFFICES ASSUME Init PROVE Inv
  OBVIOUS
<1>1. /\ sent = << >> /\ stream = << >> /\ data = << >> /\ decoded = << >>
      /\ relayed = << >> /\ at = "header" /\ split = FALSE
  BY DEF Init
<1>2. Chain(<< >>, << >>, 0)
  <2>1. << >> \in Seq(Byte) /\ << >> \in Seq(Frames) /\ Len(<< >>) = 0
    OBVIOUS
  <2> QED
    BY <2>1 DEF Chain
<1>3. Where
  BY <1>1, <1>2 DEF Where
<1>4. /\ << >> \in Seq(Byte) /\ << >> \in Seq(Frames) /\ Len(<< >>) = 0
      /\ << >> \in Seq(Relays)
  OBVIOUS
<1>5. EndsForAReason
  BY <1>1 DEF EndsForAReason
<1>6. Len(decoded) <= Len(sent) /\ \A i \in 1..Len(decoded) : decoded[i] = sent[i]
  BY <1>1, <1>4
<1> QED
  BY <1>1, <1>3, <1>4, <1>5, <1>6 DEF Inv

LEMMA Sizes ==
    ASSUME Inv
    PROVE  /\ Len(decoded) \in Nat /\ Len(sent) \in Nat
           /\ Len(data) \in Nat /\ Len(stream) \in Nat
           /\ decoded \in Seq(Frames) /\ sent \in Seq(Frames)
           /\ data \in Seq(Byte) /\ stream \in Seq(Byte)
           /\ relayed \in Seq(Relays)
BY DEF Inv

\* The bytes of a frame.
LEMMA BytesType ==
    ASSUME NEW i \in Nat, NEW frame \in Frames
    PROVE  /\ Bytes(i, frame) \in Seq(Byte)
           /\ Len(Bytes(i, frame)) = Total(frame)
           /\ \A j \in 1..Total(frame) : Bytes(i, frame)[j] = <<i, j>>
           /\ Total(frame) \in Nat
<1>1. Total(frame) \in Nat
  <2>1. frame.len \in 0..(2^16 - 1)
    BY WireAssumption DEF WireAssumption
  <2>2. frame.len \in Nat
    BY <2>1
  <2> QED
    BY <2>2 DEF Total, HeaderBytes
<1> PICK t : t = Total(frame)
  OBVIOUS
<1>2. Bytes(i, frame) = [j \in 1..t |-> <<i, j>>]
  BY DEF Bytes, Total
<1>3. [j \in 1..t |-> <<i, j>>] \in [1..t -> Byte]
  BY <1>1 DEF Byte
<1>4. [j \in 1..t |-> <<i, j>>] \in Seq(Byte)
  BY <1>1, <1>3
<1>5. Len([j \in 1..t |-> <<i, j>>]) = t
  BY <1>1
<1> QED
  BY <1>1, <1>2, <1>4, <1>5

LEMMA SendKeeps == ASSUME Inv, Send PROVE Inv'
<1> PICK frame \in Frames : /\ sent' = Append(sent, frame)
                            /\ stream' = stream \o Bytes(Len(sent) + 1, frame)
  BY DEF Send
<1> PICK n : n = Len(sent) /\ n \in Nat
  BY DEF Inv
<1> PICK b : b = Bytes(n + 1, frame)
  OBVIOUS
<1>1. /\ b \in Seq(Byte) /\ Len(b) = Total(frame) /\ Total(frame) \in Nat
      /\ \A j \in 1..Total(frame) : b[j] = <<n + 1, j>>
  BY BytesType
<1>2. ~closed /\ UNCHANGED <<closed, data, at, decoded, relayed, split>>
  BY DEF Send
<1>3. /\ sent' \in Seq(Frames) /\ Len(sent') = n + 1
      /\ \A i \in 1..n : sent'[i] = sent[i]
  BY DEF Inv
<1>4. stream' \in Seq(Byte) /\ stream' = stream \o b
  BY <1>1, ConcatProperties DEF Inv
<1>5. ASSUME NEW h \in Seq(Byte), Chain(h, sent, Len(decoded))
      PROVE  Chain(h \o b, sent', Len(decoded))
  <2> PICK g : g = h \o b
    OBVIOUS
  <2>1. /\ g \in Seq(Byte) /\ Len(g) = Len(h) + Len(b)
        /\ \A i \in 1..(Len(h) + Len(b)) :
              g[i] = IF i <= Len(h) THEN h[i] ELSE b[i - Len(h)]
    BY <1>1, ConcatProperties
  <2>2. Len(h) \in Nat /\ Len(g) = Len(h) + Total(frame)
    BY <1>1, <2>1
  <2>3. \A i \in 1..Len(h) : g[i] = h[i]
    BY <1>1, <2>1, <2>2
  <2>4. ASSUME NEW j \in 1..Total(frame) PROVE g[Len(h) + j] = <<Len(sent) + 1, j>>
    <3>1. /\ Len(h) + j \in 1..(Len(h) + Len(b)) /\ ~(Len(h) + j <= Len(h))
          /\ (Len(h) + j) - Len(h) = j
      BY <1>1, <2>2
    <3> QED
      BY <1>1, <2>1, <3>1
  <2>5. Chain(g, Append(sent, frame), Len(decoded))
    BY <1>5, <2>1, <2>2, <2>3, <2>4, ChainSend
  <2> QED
    BY <2>5
<1>6. Where'
  <2>1. CASE at = "header" /\ ~split
    <3>1. data = << >> /\ Chain(stream, sent, Len(decoded))
      BY <2>1 DEF Inv, Where
    <3>2. Chain(stream', sent', Len(decoded))
      BY <1>4, <1>5, <3>1 DEF Inv
    <3> QED
      BY <1>2, <2>1, <3>1, <3>2 DEF Where
  <2>2. CASE at = "payload"
    <3>1. /\ ~split /\ Chain(data \o stream, sent, Len(decoded))
          /\ HeaderBytes <= Len(data)
          /\ Len(data) < Total(sent[Len(decoded) + 1])
      BY <2>2 DEF Inv, Where
    <3>2. data \o stream \in Seq(Byte) /\ data \o (stream \o b) = (data \o stream) \o b
      <4>1. data \in Seq(Byte) /\ stream \in Seq(Byte) /\ b \in Seq(Byte)
        BY <1>1, Sizes
      <4>2. data \o stream \in Seq(Byte)
        BY <4>1, ConcatProperties
      <4>3. data \o (stream \o b) = (data \o stream) \o b
        BY ONLY <4>1, ConcatAssociative
      <4> QED
        BY <4>2, <4>3
    <3>3. Chain(data \o stream', sent', Len(decoded))
      BY <1>4, <1>5, <3>1, <3>2
    <3>4. Len(decoded) + 1 \in 1..n
      <4>1. data \o stream # << >>
        <5>1. Len(data \o stream) = Len(data) + Len(stream) /\ Len(<< >>) = 0
          BY ConcatProperties DEF Inv
        <5> QED
          BY <3>1, <5>1 DEF HeaderBytes, Inv
      <4> QED
        BY <3>1, <4>1, ChainFront
    <3> QED
      BY <1>2, <1>3, <2>2, <3>1, <3>3, <3>4 DEF Where
  <2>3. CASE at = "ended" \/ (at = "header" /\ split)
    BY <1>2, <2>3 DEF Inv, Where
  <2> QED
    BY <2>1, <2>2, <2>3 DEF Inv, Where
<1>7. EndsForAReason'
  BY <1>2 DEF Inv, EndsForAReason
<1>8. /\ Len(decoded) <= Len(sent')
      /\ \A i \in 1..Len(decoded) : decoded[i] = sent'[i]
  BY <1>3 DEF Inv
<1> QED
  BY <1>2, <1>3, <1>4, <1>6, <1>7, <1>8 DEF Inv

LEMMA CloseKeeps == ASSUME Inv, Close \/ UNCHANGED vars PROVE Inv'
<1>1. /\ UNCHANGED <<sent, stream, data, at, decoded, relayed, split>>
      /\ closed => closed'
  BY DEF Close, vars
<1>2. Where'
  BY <1>1 DEF Inv, Where
<1>3. EndsForAReason'
  BY <1>1 DEF Inv, EndsForAReason
<1> QED
  BY <1>1, <1>2, <1>3 DEF Inv

\* The bytes that are handled are the first frame that is held.
LEMMA HandleKeeps ==
    ASSUME Inv, NEW h, Chain(h, sent, Len(decoded)), h # << >>,
           NEW bytes \in Seq(Byte),
           Len(bytes) = Total(sent[Len(decoded) + 1]),
           \A j \in 1..Len(bytes) : bytes[j] = h[j],
           stream' \in Seq(Byte), Len(stream') = Len(h) - Len(bytes),
           \A i \in 1..Len(stream') : stream'[i] = h[Len(bytes) + i],
           UNCHANGED <<sent, closed>>, split' = FALSE, Handle(bytes)
    PROVE  Inv'
<1> PICK d : d = Len(decoded) /\ d \in Nat
  BY Sizes
<1> PICK frame : frame = sent[d + 1]
  OBVIOUS
<1>0. Len(bytes) = Total(frame) /\ \A j \in 1..Total(frame) : bytes[j] = h[j]
  OBVIOUS
<1>1. /\ d + 1 \in 1..Len(sent) /\ Total(frame) <= Len(h)
      /\ \A j \in 1..Total(frame) : h[j] = <<d + 1, j>>
  BY ChainFront
<1>2. frame \in Frames /\ Total(frame) \in Nat /\ Total(frame) >= 8
  BY <1>1, TotalType DEF Inv
<1>3. bytes = Bytes(d + 1, frame)
  <2>1. /\ Bytes(d + 1, frame) \in Seq(Byte)
        /\ Len(Bytes(d + 1, frame)) = Total(frame)
        /\ \A j \in 1..Total(frame) : Bytes(d + 1, frame)[j] = <<d + 1, j>>
    BY <1>2, BytesType
  <2>2. /\ Len(bytes) = Len(Bytes(d + 1, frame))
        /\ \A j \in 1..Len(bytes) : bytes[j] = Bytes(d + 1, frame)[j]
    BY <1>1, <2>1
  <2> QED
    BY <2>1, <2>2, SeqEqual
<1>4. Head(bytes)[1] = d + 1
  <2>1. 1 \in 1..Total(frame)
    BY <1>2
  <2>2. Head(bytes) = bytes[1]
    OBVIOUS
  <2>3. bytes[1] = <<d + 1, 1>>
    BY ONLY <1>0, <1>1, <2>1
  <2> QED
    BY <2>2, <2>3
<1>5. HeaderOf(bytes) = frame
  BY <1>4 DEF HeaderOf
<1>6. /\ data' = << >> /\ decoded' = Append(decoded, frame)
      /\ IF Raises(frame)
         THEN at' = "ended" /\ UNCHANGED relayed
         ELSE /\ at' = "header"
              /\ relayed' = IF frame.kind = "CLIENT_DATA"
                            THEN Append(relayed, [from |-> frame.body,
                                                  to |-> Repack(frame.body)])
                            ELSE relayed
  BY <1>3, <1>4, <1>5 DEF Handle
<1>7. /\ decoded' \in Seq(Frames) /\ Len(decoded') = d + 1
      /\ Len(decoded') <= Len(sent') /\ decoded' # << >>
      /\ \A i \in 1..Len(decoded') : decoded'[i] = sent'[i]
      /\ Last(decoded') = frame
  <2>1. /\ decoded' \in Seq(Frames) /\ Len(decoded') = d + 1
        /\ \A i \in 1..d : decoded'[i] = decoded[i]
        /\ decoded'[d + 1] = frame
    BY <1>2, <1>6 DEF Inv
  <2>2. sent' = sent /\ d + 1 <= Len(sent) /\ Len(<< >>) = 0
    BY <1>1
  <2>3. \A i \in 1..d : decoded[i] = sent[i]
    BY DEF Inv
  <2>4. ASSUME NEW i \in 1..(d + 1) PROVE decoded'[i] = sent[i]
    <3>1. i \in 1..d \/ i = d + 1
      OBVIOUS
    <3>2. frame = sent[d + 1]
      OBVIOUS
    <3> QED
      BY ONLY <2>1, <2>3, <3>1, <3>2
  <2> QED
    BY <2>1, <2>2, <2>4 DEF Last
<1>8. relayed' \in Seq(Relays)
  <2>1. CASE ~Raises(frame) /\ frame.kind = "CLIENT_DATA"
    <3>1. [from |-> frame.body, to |-> Repack(frame.body)] \in Relays
      BY <1>2, <2>1 DEF Raises, Relays
    <3>2. relayed' = Append(relayed, [from |-> frame.body, to |-> Repack(frame.body)])
      BY <1>6, <2>1
    <3>3. relayed \in Seq(Relays)
      BY Sizes
    <3> QED
      BY ONLY <3>1, <3>2, <3>3
  <2>2. CASE ~(~Raises(frame) /\ frame.kind = "CLIENT_DATA")
    BY <1>6, <2>2 DEF Inv
  <2> QED
    BY <2>1, <2>2
<1>9. Chain(stream', sent', d + 1)
  BY ChainDrop
<1>10. Where'
  <2>1. ~split' /\ (at' = "header" \/ at' = "ended")
    BY <1>6
  <2> QED
    BY <1>6, <1>7, <1>9, <2>1 DEF Where
<1>11. EndsForAReason'
  <2>1. at' = "ended" => Raises(frame)
    BY <1>6
  <2> QED
    BY <1>7, <2>1 DEF EndsForAReason
<1>12. data' \in Seq(Byte) /\ sent' \in Seq(Frames)
  BY <1>6 DEF Inv
<1> QED
  BY <1>7, <1>8, <1>10, <1>11, <1>12 DEF Inv

\* What a call of recv takes, and what it leaves.
LEMMA RecvTakes ==
    ASSUME Inv, NEW wanted \in Int, NEW piece \in Recv(wanted), Taken(piece)
    PROVE  /\ piece \in Seq(Byte) /\ stream' \in Seq(Byte)
           /\ Len(piece) \in 1..Len(stream) /\ Len(piece) <= wanted
           /\ Len(stream') = Len(stream) - Len(piece)
           /\ \A i \in 1..Len(piece) : piece[i] = stream[i]
           /\ \A i \in 1..Len(stream') : stream'[i] = stream[Len(piece) + i]
           /\ piece \o stream' = stream
<1> PICK n : n = Len(stream) /\ n \in Nat
  BY Sizes
<1>1. PICK k \in 1..Min({wanted, n}) : piece = SubSeq(stream, 1, k)
  <2>1. piece \in {SubSeq(stream, 1, k) : k \in 1..Min({wanted, n})}
    BY DEF Recv
  <2> QED
    BY ONLY <2>1
<1>2. k \in 1..n /\ k <= wanted
  <2>1. wanted \in Int /\ n \in Int /\ n \in Nat
    OBVIOUS
  <2>2. PICK x : x = Min({wanted, n})
    OBVIOUS
  <2>3. x \in {wanted, n} /\ x <= wanted /\ x <= n
    BY ONLY <2>1, <2>2, MinTwo
  <2> QED
    BY ONLY <1>1, <2>1, <2>2, <2>3
<1>3. /\ piece \in Seq(Byte) /\ Len(piece) = k
      /\ \A i \in 1..k : piece[i] = stream[i]
  <2>1. stream \in Seq(Byte) /\ k \in 0..Len(stream)
    BY <1>2, Sizes
  <2> QED
    BY ONLY <1>1, <2>1, Pieces
<1>4. /\ stream' \in Seq(Byte) /\ Len(stream') = n - k
      /\ \A i \in 1..(n - k) : stream'[i] = stream[k + i]
      /\ piece \o stream' = stream
  <2>1. stream \in Seq(Byte) /\ k \in 0..Len(stream)
    BY <1>2, Sizes
  <2>2. stream' = SubSeq(stream, k + 1, Len(stream))
    BY <1>3 DEF Taken
  <2>3. n = Len(stream)
    OBVIOUS
  <2> QED
    BY ONLY <1>1, <2>1, <2>2, <2>3, Pieces
<1> QED
  BY <1>2, <1>3, <1>4

\* The header of the first frame that is held.
LEMMA HeaderFound ==
    ASSUME Inv, NEW h, Chain(h, sent, Len(decoded)), h # << >>,
           NEW bytes \in Seq(Byte), Len(bytes) >= HeaderBytes,
           Len(bytes) <= Len(h), \A j \in 1..Len(bytes) : bytes[j] = h[j]
    PROVE  /\ HasHeader(bytes)
           /\ HeaderOf(bytes) = sent[Len(decoded) + 1]
<1> PICK d : d = Len(decoded) /\ d \in Nat
  BY Sizes
<1> PICK frame : frame = sent[d + 1]
  OBVIOUS
<1>1. /\ d + 1 \in 1..Len(sent) /\ Total(frame) <= Len(h)
      /\ \A j \in 1..Total(frame) : h[j] = <<d + 1, j>>
  BY ChainFront
<1>2. frame \in Frames /\ Total(frame) \in Nat /\ Total(frame) >= 8
  BY <1>1, TotalType, Sizes
<1>3. Len(bytes) \in Nat /\ Len(bytes) >= 8
  BY DEF HeaderBytes
<1>4. ASSUME NEW j \in 1..8 PROVE bytes[j] = <<d + 1, j>>
  <2>1. j \in 1..Len(bytes) /\ j \in 1..Total(frame)
    BY ONLY <1>2, <1>3, j \in 1..8
  <2>2. bytes[j] = h[j]
    BY <2>1
  <2>3. h[j] = <<d + 1, j>>
    BY ONLY <1>1, <2>1
  <2> QED
    BY ONLY <2>2, <2>3
<1>5. Head(bytes)[1] = d + 1
  <2>1. Head(bytes) = bytes[1]
    BY <1>3
  <2>2. bytes[1] = <<d + 1, 1>>
    BY <1>4
  <2> QED
    BY <2>1, <2>2
<1>6. SubSeq(bytes, 1, 8) = SubSeq(Bytes(d + 1, frame), 1, 8)
  <2> PICK b, i : i = d + 1 /\ b = Bytes(i, frame)
    OBVIOUS
  <2>1. i \in Nat
    OBVIOUS
  <2>2. /\ b \in Seq(Byte) /\ Len(b) = Total(frame)
        /\ \A j \in 1..Total(frame) : b[j] = <<i, j>>
    BY <1>2, <2>1, BytesType
  <2>3. 8 <= Len(b) /\ 8 <= Len(bytes)
    BY <1>2, <1>3, <2>2
  <2>4. ASSUME NEW j \in 1..8 PROVE bytes[j] = b[j]
    <3>1. j \in 1..Total(frame)
      BY <1>2
    <3>2. b[j] = <<i, j>> /\ bytes[j] = <<i, j>>
      BY <1>4, <2>2, <3>1
    <3> QED
      BY ONLY <3>2
  <2>5. SubSeq(bytes, 1, 8) = SubSeq(b, 1, 8)
    <3>1. bytes \in Seq(Byte) /\ 8 \in Nat
      OBVIOUS
    <3> QED
      BY ONLY <2>2, <2>3, <2>4, <3>1, SameFront
  <2> QED
    BY <2>5
<1>7. d + 1 \in DOMAIN sent
  BY <1>1, Sizes
<1> QED
  BY <1>5, <1>6, <1>7 DEF HasHeader, HeaderOf, HeaderBytes

\* What a call of recv made for a header took, and what became of it.
TookHeader(piece, l, m) ==
    /\ l = Len(piece) /\ m = Len(data) /\ l \in 1..(8 - m) /\ m \in 0..7
    /\ piece \in Seq(Byte) /\ stream' \in Seq(Byte)
    /\ l <= Len(stream) /\ Len(stream') = Len(stream) - l
    /\ \A i \in 1..l : piece[i] = stream[i]
    /\ \A i \in 1..Len(stream') : stream'[i] = stream[l + i]
    /\ piece \o stream' = stream

UsedHeader(piece, l) ==
    \/ /\ l # 8 /\ data' = piece /\ split' = TRUE
       /\ UNCHANGED <<at, decoded, relayed>>
    \/ /\ l = 8 /\ ~HasHeader(piece) /\ split' = split
    \/ /\ l = 8 /\ HasHeader(piece) /\ split' = split
       /\ HeaderOf(piece).len = 0 /\ Handle(piece)
    \/ /\ l = 8 /\ HasHeader(piece) /\ split' = split
       /\ HeaderOf(piece).len # 0
       /\ at' = "payload" /\ data' = piece
       /\ UNCHANGED <<decoded, relayed>>

LEMMA ReadHeaderCases ==
    ASSUME Inv, ReadHeader
    PROVE  \E piece, l, m : TookHeader(piece, l, m) /\ UsedHeader(piece, l)
<1> PICK m : m = Len(data) /\ m \in Nat
  BY Sizes
<1> PICK n : n = Len(stream) /\ n \in Nat
  BY Sizes
<1> PICK wanted : wanted = 8 - m /\ wanted \in Int
  OBVIOUS
<1>p. PICK piece \in Recv(wanted) :
      /\ Taken(piece)
      /\ split' = (split \/ Len(piece) < 8)
      /\ CASE Len(piece) < 8 ->
                data' = piece /\ UNCHANGED <<at, decoded, relayed>>
           [] Len(piece) = 8 /\ ~HasHeader(piece) ->
                at' = "ended" /\ data' = << >> /\ UNCHANGED <<decoded, relayed>>
           [] Len(piece) = 8 /\ HasHeader(piece) ->
                IF HeaderOf(piece).len = 0
                THEN Handle(piece)
                ELSE /\ at' = "payload" /\ data' = piece
                     /\ UNCHANGED <<decoded, relayed>>
  BY DEF ReadHeader, HeaderBytes
<1>1. /\ piece \in Seq(Byte) /\ stream' \in Seq(Byte)
      /\ Len(piece) \in 1..n /\ Len(piece) <= wanted
      /\ Len(stream') = n - Len(piece)
      /\ \A i \in 1..Len(piece) : piece[i] = stream[i]
      /\ \A i \in 1..Len(stream') : stream'[i] = stream[Len(piece) + i]
      /\ piece \o stream' = stream
  BY <1>p, RecvTakes
<1>2. PICK l : l = Len(piece)
  OBVIOUS
<1>3. l \in 1..n /\ l <= wanted
  BY ONLY <1>1, <1>2
<1>4. l \in 1..(8 - m) /\ m \in 0..7 /\ l \in 1..8 /\ l <= n
  <2>1. m \in Nat /\ n \in Nat /\ wanted = 8 - m
    OBVIOUS
  <2> QED
    BY ONLY <1>3, <2>1
<1>5. split \in BOOLEAN /\ split' = (split \/ l < 8)
  BY ONLY <1>2, <1>p, Inv DEF Inv
<1>6. TookHeader(piece, l, m)
  BY <1>1, <1>2, <1>4 DEF TookHeader
<1>7. CASE l < 8
  <2>1. Len(piece) < 8 /\ ~(Len(piece) = 8) /\ l # 8
    <3>1. l \in 1..8
      BY <1>4
    <3>2. ~(l = 8)
      BY ONLY <1>7, <3>1
    <3> QED
      BY ONLY <1>2, <1>7, <3>2, Zenon
  <2>2. data' = piece /\ UNCHANGED <<at, decoded, relayed>>
    BY ONLY <1>p, <2>1, Zenon
  <2>3. split' = TRUE
    BY ONLY <1>5, <1>7, Zenon
  <2> QED
    BY <1>6, <2>1, <2>2, <2>3 DEF UsedHeader
<1>8. CASE ~(l < 8)
  <2>1. l = 8 /\ Len(piece) = 8 /\ ~(Len(piece) < 8)
    BY <1>2, <1>4, <1>8
  <2>2. split' = split
    BY ONLY <1>5, <1>8, Zenon
  <2>3. CASE ~HasHeader(piece)
    BY <1>6, <2>1, <2>2, <2>3 DEF UsedHeader
  <2>4. CASE HasHeader(piece)
    <3>1. IF HeaderOf(piece).len = 0
          THEN Handle(piece)
          ELSE at' = "payload" /\ data' = piece /\ UNCHANGED <<decoded, relayed>>
      BY ONLY <2>1, <2>4, <1>p
    <3> QED
      BY <1>6, <2>1, <2>2, <2>4, <3>1 DEF UsedHeader
  <2> QED
    BY <2>3, <2>4
<1> QED
  BY <1>7, <1>8

LEMMA ReadHeaderKeeps == ASSUME Inv, ReadHeader PROVE Inv'
<1>p. PICK piece, l, m : TookHeader(piece, l, m) /\ UsedHeader(piece, l)
  BY ReadHeaderCases
<1>t. /\ l = Len(piece) /\ m = Len(data) /\ l \in 1..(8 - m) /\ m \in 0..7
      /\ piece \in Seq(Byte) /\ stream' \in Seq(Byte)
      /\ l <= Len(stream) /\ Len(stream') = Len(stream) - l
      /\ \A i \in 1..l : piece[i] = stream[i]
      /\ \A i \in 1..Len(stream') : stream'[i] = stream[l + i]
      /\ piece \o stream' = stream
  BY <1>p DEF TookHeader
<1>0. at = "header" /\ UNCHANGED <<sent, closed>>
  BY DEF ReadHeader
<1> PICK d, n : d = Len(decoded) /\ d \in Nat /\ n = Len(stream) /\ n \in Nat
  BY Sizes
<1>1. CASE l # 8
  <2>1. /\ data' = piece /\ split' = TRUE /\ Len(piece) \in 1..7
        /\ UNCHANGED <<at, decoded, relayed, sent, closed>>
    <3>0. l # 8 /\ l \in 1..(8 - m) /\ m \in 0..7
      BY ONLY <1>1, <1>t
    <3>1. l \in 1..7
      BY ONLY <3>0
    <3> QED
      BY ONLY <1>0, <1>1, <1>p, <1>t, <3>1 DEF UsedHeader
  <2>2. Where'
    <3>1. Len(data') \in 1..(HeaderBytes - 1)
      BY ONLY <2>1 DEF HeaderBytes
    <3> QED
      BY ONLY <1>0, <2>1, <3>1 DEF Where
  <2>3. EndsForAReason'
    BY <2>1 DEF EndsForAReason
  <2> QED
    BY <1>t, <2>1, <2>2, <2>3 DEF Inv
<1>2. CASE l = 8
  <2>1. /\ Len(piece) = 8 /\ Len(data) = 0 /\ split' = split
        /\ 8 <= n /\ Len(stream') = n - 8
    <3>1. split' = split
      BY ONLY <1>2, <1>p DEF UsedHeader
    <3>2. l = 8 /\ Len(piece) = 8 /\ m = 0
      BY ONLY <1>2, <1>t
    <3> QED
      BY <1>t, <3>1, <3>2
  <2>2. ~split /\ split = FALSE
    <3>1. split => Len(data) \in 1..(HeaderBytes - 1)
      BY <1>0 DEF Inv, Where
    <3>2. ~(0 \in 1..(HeaderBytes - 1))
      BY DEF HeaderBytes
    <3> QED
      BY <2>1, <3>1, <3>2 DEF Inv
  <2>3. Chain(stream, sent, d) /\ stream # << >>
    <3>1. Len(<< >>) = 0
      OBVIOUS
    <3> QED
      BY <1>0, <2>1, <2>2, <3>1 DEF Inv, Where
  <2>4. HasHeader(piece) /\ HeaderOf(piece) = sent[d + 1]
    <3>1. Len(piece) >= HeaderBytes /\ Len(piece) <= Len(stream)
      BY <2>1 DEF HeaderBytes
    <3>2. piece \in Seq(Byte) /\ \A j \in 1..Len(piece) : piece[j] = stream[j]
      BY <1>t
    <3> QED
      BY <2>3, <3>1, <3>2, HeaderFound
  <2>5. /\ d + 1 \in 1..Len(sent) /\ Total(sent[d + 1]) = 8 + sent[d + 1].len
        /\ sent[d + 1].len \in Nat
    <3>1. d + 1 \in 1..Len(sent)
      BY <2>3, ChainFront
    <3>2. sent[d + 1].len \in Nat
      BY <3>1, Sizes, TotalType
    <3> QED
      BY <3>1, <3>2 DEF Total, HeaderBytes
  <2>6. CASE sent[d + 1].len = 0
    <3>1. Handle(piece)
      BY <1>2, <1>p, <2>4, <2>6 DEF UsedHeader
    <3>2. Len(piece) = Total(sent[d + 1]) /\ Len(stream') = Len(stream) - Len(piece)
      BY <2>1, <2>5, <2>6
    <3>3. /\ piece \in Seq(Byte) /\ stream' \in Seq(Byte)
          /\ \A j \in 1..Len(piece) : piece[j] = stream[j]
          /\ \A i \in 1..Len(stream') : stream'[i] = stream[Len(piece) + i]
      BY <1>t
    <3> QED
      BY <1>0, <2>1, <2>2, <2>3, <3>1, <3>2, <3>3, HandleKeeps
  <2>7. CASE sent[d + 1].len # 0
    <3>1. /\ at' = "payload" /\ data' = piece
          /\ UNCHANGED <<decoded, relayed, sent, closed>>
      BY <1>0, <1>2, <1>p, <2>4, <2>7 DEF UsedHeader
    <3>2. HeaderBytes <= Len(piece) /\ Len(piece) < Total(sent[d + 1])
      BY <2>1, <2>5, <2>7 DEF HeaderBytes
    <3>3. Chain(data' \o stream', sent', Len(decoded'))
      BY <1>t, <2>3, <3>1
    <3>4. Where'
      <4>1. /\ ~split' /\ HeaderBytes <= Len(data')
            /\ Len(data') < Total(sent'[Len(decoded') + 1])
        BY <2>1, <2>2, <3>1, <3>2
      <4> QED
        BY ONLY <3>1, <3>3, <4>1 DEF Where
    <3>5. EndsForAReason'
      BY <3>1 DEF EndsForAReason
    <3> QED
      BY <1>t, <2>1, <2>2, <3>1, <3>4, <3>5 DEF Inv
  <2> QED
    BY <2>6, <2>7
<1> QED
  BY <1>1, <1>2

LEMMA ReadPayloadKeeps == ASSUME Inv, ReadPayload PROVE Inv'
<1>0. at = "payload" /\ UNCHANGED <<sent, closed, split>>
  BY DEF ReadPayload
<1>p. PICK piece \in Recv(PacketBytes - Len(data)) :
      /\ Taken(piece) /\ at = "payload"
      /\ IF Len(data \o piece) < PacketBytes
         THEN data' = data \o piece /\ UNCHANGED <<at, decoded, relayed>>
         ELSE Handle(data \o piece)
      /\ UNCHANGED <<sent, closed, split>>
  BY DEF ReadPayload
<1> PICK h : h = data \o stream
  OBVIOUS
<1> PICK t : t = Total(sent[Len(decoded) + 1])
  OBVIOUS
<1> PICK m : m = Len(data) /\ m \in Nat
  BY Sizes
<1>1. /\ ~split /\ split = FALSE /\ Chain(h, sent, Len(decoded))
      /\ 8 <= m /\ m < t
  BY <1>p DEF Inv, Where, HeaderBytes
<1>2. /\ h \in Seq(Byte) /\ Len(h) = m + Len(stream)
      /\ \A i \in 1..(m + Len(stream)) :
            h[i] = IF i <= m THEN data[i] ELSE stream[i - m]
  BY Sizes, ConcatProperties
<1>3. h # << >>
  <2>1. Len(h) >= 8
    BY <1>1, <1>2, Sizes
  <2> QED
    BY <2>1
<1>4. /\ Len(decoded) + 1 \in 1..Len(sent) /\ t <= Len(h)
      /\ t \in Nat /\ t = 8 + sent[Len(decoded) + 1].len
  <2>1. Len(decoded) + 1 \in 1..Len(sent) /\ t <= Len(h)
    BY <1>1, <1>3, ChainFront
  <2> QED
    BY <2>1, Sizes, TotalType DEF Total, HeaderBytes
<1>5. PacketBytes = t
  <2>1. Len(data) >= HeaderBytes /\ Len(data) <= Len(h)
    BY <1>1, <1>2, Sizes DEF HeaderBytes
  <2>2. \A j \in 1..Len(data) : data[j] = h[j]
    BY <1>2, Sizes
  <2>3. HeaderOf(data) = sent[Len(decoded) + 1]
    BY <1>1, <1>3, <2>1, <2>2, Sizes, HeaderFound
  <2> QED
    BY <1>4, <2>3 DEF PacketBytes, HeaderBytes
<1>6. /\ piece \in Seq(Byte) /\ stream' \in Seq(Byte)
      /\ Len(piece) \in 1..Len(stream) /\ Len(piece) <= t - m
      /\ Len(stream') = Len(stream) - Len(piece)
      /\ \A i \in 1..Len(piece) : piece[i] = stream[i]
      /\ \A i \in 1..Len(stream') : stream'[i] = stream[Len(piece) + i]
      /\ piece \o stream' = stream
  <2>1. PacketBytes - Len(data) = t - m /\ t - m \in Int
    BY <1>4, <1>5
  <2> QED
    BY <1>p, <2>1, RecvTakes
<1> PICK bytes : bytes = data \o piece
  OBVIOUS
<1>b. Len(piece) \in Nat
  BY <1>6
<1> PICK l : l = Len(piece) /\ l \in Nat
  BY ONLY <1>b
<1>7. /\ bytes \in Seq(Byte) /\ Len(bytes) = m + l
      /\ \A i \in 1..(m + l) : bytes[i] = IF i <= m THEN data[i] ELSE piece[i - m]
  BY <1>6, Sizes, ConcatProperties
<1>a. /\ m \in Nat /\ l \in Nat /\ t \in Nat /\ Len(stream) \in Nat
      /\ l <= t - m /\ l >= 1 /\ l <= Len(stream)
  BY <1>4, <1>6, Sizes
<1>8. CASE m + l < t
  <2>1. /\ data' = bytes
        /\ UNCHANGED <<at, decoded, relayed, sent, closed, split>>
    BY <1>p, <1>5, <1>7, <1>8
  <2>2. bytes \o stream' = h
    <3>0. data \in Seq(Byte) /\ piece \in Seq(Byte) /\ stream' \in Seq(Byte)
      BY <1>6, Sizes
    <3>1. bytes \o stream' = data \o (piece \o stream')
      BY ONLY <3>0, bytes = data \o piece, ConcatAssociative
    <3> QED
      BY <1>6, <3>1
  <2>3. Chain(data' \o stream', sent', Len(decoded'))
    BY <1>1, <2>1, <2>2
  <2>4. Where'
    <3>1. HeaderBytes <= Len(data') /\ Len(data') < Total(sent'[Len(decoded') + 1])
      BY <1>1, <1>7, <1>8, <2>1 DEF HeaderBytes
    <3> QED
      BY <1>1, <1>p, <2>1, <2>3, <3>1 DEF Where
  <2>5. EndsForAReason'
    BY <1>0, <2>1 DEF EndsForAReason
  <2> QED
    BY <1>6, <1>7, <2>1, <2>4, <2>5 DEF Inv
<1>9. CASE ~(m + l < t)
  <2>1. m + l = t /\ Len(bytes) = t
    BY ONLY <1>a, <1>7, <1>9
  <2>2. Handle(bytes)
    BY <1>p, <1>5, <1>7, <1>9
  <2>3. ASSUME NEW j \in 1..Len(bytes) PROVE bytes[j] = h[j]
    <3>0. /\ j \in 1..(m + l) /\ j \in 1..(m + Len(stream))
          /\ l \in 1..Len(stream)
      BY <1>6, <1>7, Sizes
    <3>1. CASE j <= m
      BY <1>2, <1>7, <3>0, <3>1
    <3>2. CASE ~(j <= m)
      <4>1. PICK i : i = j - m /\ i \in 1..l
        BY <3>0, <3>2
      <4>2. piece[i] = stream[i]
        BY <1>6, <4>1
      <4>3. bytes[j] = piece[i] /\ h[j] = stream[i]
        BY <1>2, <1>7, <3>0, <3>2, <4>1
      <4> QED
        BY ONLY <4>2, <4>3
    <3> QED
      BY <3>1, <3>2
  <2>4. Len(stream') = Len(h) - Len(bytes)
    BY <1>2, <1>6, <1>7, Sizes
  <2>5. ASSUME NEW i \in 1..Len(stream') PROVE stream'[i] = h[Len(bytes) + i]
    <3>0. Len(stream) \in Nat /\ Len(stream') = Len(stream) - l /\ i \in Nat /\ i >= 1
      BY <1>6, Sizes
    <3>1. stream'[i] = stream[l + i]
      BY <1>6
    <3>2. PICK j, n : j = (m + l) + i /\ n = Len(stream)
      OBVIOUS
    <3>3. n \in Nat /\ Len(stream') = n - l /\ m \in Nat /\ l \in Nat /\ i \in Nat
          /\ i >= 1 /\ i \in 1..(n - l)
      BY ONLY <1>a, <3>0, <3>2, i \in 1..Len(stream')
    <3>4. j \in 1..(m + n) /\ ~(j <= m) /\ j - m = l + i
      BY ONLY <3>2, <3>3
    <3>5. h[j] = stream[l + i]
      BY ONLY <1>2, <3>2, <3>4
    <3>6. h[(m + l) + i] = stream[l + i] /\ Len(bytes) = m + l
      BY ONLY <1>7, <3>2, <3>5
    <3> QED
      BY ONLY <3>1, <3>6
  <2>6. /\ bytes \in Seq(Byte) /\ stream' \in Seq(Byte)
        /\ Chain(h, sent, Len(decoded)) /\ h # << >>
        /\ Len(bytes) = Total(sent[Len(decoded) + 1])
        /\ split' = FALSE
    BY <1>0, <1>1, <1>3, <1>6, <1>7, <2>1
  <2> QED
    BY ONLY Inv, <1>0, <2>2, <2>3, <2>4, <2>5, <2>6, HandleKeeps
<1> QED
  BY <1>8, <1>9

LEMMA ReadEndKeeps == ASSUME Inv, ReadEnd PROVE Inv'
<1>1. /\ at \in {"header", "payload"} /\ stream = << >> /\ closed
      /\ at' = "ended" /\ data' = << >>
      /\ UNCHANGED <<sent, stream, closed, decoded, relayed, split>>
  BY DEF ReadEnd
<1>2. at = "header" /\ ~split => decoded = sent
  <2> SUFFICES ASSUME at = "header", ~split PROVE decoded = sent
    OBVIOUS
  <2>1. Chain(stream, sent, Len(decoded))
    BY DEF Inv, Where
  <2>2. Len(decoded) = Len(sent)
    BY <1>1, <2>1 DEF Chain
  <2>3. \A i \in 1..Len(decoded) : decoded[i] = sent[i]
    BY DEF Inv
  <2> QED
    BY <2>2, <2>3, Sizes, SeqEqual
<1>3. at # "payload"
  <2> SUFFICES ASSUME at = "payload" PROVE FALSE
    OBVIOUS
  <2>1. /\ Chain(data \o stream, sent, Len(decoded))
        /\ 8 <= Len(data) /\ Len(data) < Total(sent[Len(decoded) + 1])
    BY DEF Inv, Where, HeaderBytes
  <2>2. data \o stream = data
    BY <1>1, Sizes, ConcatEmptySeq
  <2>3. data # << >>
    <3>1. Len(<< >>) = 0
      OBVIOUS
    <3> QED
      BY <2>1, <3>1
  <2>4. /\ Len(decoded) + 1 \in 1..Len(sent)
        /\ Total(sent[Len(decoded) + 1]) <= Len(data)
    BY <2>1, <2>2, <2>3, ChainFront
  <2>5. Total(sent[Len(decoded) + 1]) \in Nat
    BY <2>4, Sizes, TotalType
  <2> QED
    BY <2>1, <2>4, <2>5, Sizes
<1>4. EndsForAReason'
  BY <1>1, <1>2, <1>3 DEF EndsForAReason
<1>5. Where'
  BY <1>1 DEF Where
<1>6. << >> \in Seq(Byte)
  OBVIOUS
<1> QED
  BY <1>1, <1>4, <1>5, <1>6 DEF Inv

-----------------------------------------------------------------------------
(* What is relayed.                                                        *)

\* The offset of a fragment is kept: it is put back at the bits it was read
\* from, below the flags; without flags the whole word is kept.
LEMMA FragKept ==
    ASSUME NEW n \in Nat
    PROVE  /\ (Extract(n, 14, 3) * 2^13 + Extract(n, 0, 13)) % 2^13 = n % 2^13
           /\ n < 2^13 => Extract(n, 14, 3) * 2^13 + Extract(n, 0, 13) = n
<1>1. 2^13 = 8192 /\ 2^14 = 16384 /\ 2^3 = 8 /\ 2^0 = 1
  OBVIOUS
<1> PICK x, y : x = (n \div 16384) % 8 /\ y = n % 8192
  OBVIOUS
<1>2. x \in Nat /\ y \in 0..8191
  OBVIOUS
<1>3. (x * 8192 + y) % 8192 = y
  BY ONLY <1>2
<1>4. n \div 1 = n
  OBVIOUS
<1>5. Extract(n, 14, 3) = x /\ Extract(n, 0, 13) = y
  BY <1>1, <1>4 DEF Extract
<1>6. n < 8192 => x * 8192 + y = n
  OBVIOUS
<1> QED
  BY <1>1, <1>3, <1>5, <1>6

RelayKept(r) ==
    /\ r.to.src = r.from.src /\ r.to.dst = r.from.dst
    /\ r.to.ttl = r.from.ttl /\ r.to.protocol = r.from.protocol
    /\ r.to.id = r.from.id /\ r.to.frag % 2^13 = r.from.frag % 2^13
    /\ r.from.frag < 2^13 => r.to.frag = r.from.frag
    /\ r.to.rest = SubSeq(r.from.rest, 1, r.from.len - IpHeaderBytes)
    /\ r.to.len = IpHeaderBytes + Len(r.to.rest) /\ r.to.ihl = r.from.ihl

\* A datagram without options.
LEMMA RepackKeeps ==
    ASSUME NEW frame \in Frames, frame.kind = "CLIENT_DATA", Decodes(frame),
           frame.body.ihl = 5
    PROVE  RelayKept([from |-> frame.body, to |-> Repack(frame.body)])
<1> PICK b, p : b = frame.body /\ p = PayloadLen(b)
  OBVIOUS
<1>1. DOMAIN b = DatagramFields /\ b.frag \in Nat
  <2>1. /\ DOMAIN frame.body = DatagramFields
        /\ frame.body.frag \in 0..(2^16 - 1)
    BY WireAssumption DEF WireAssumption
  <2>2. frame.body.frag \in Nat
    BY <2>1
  <2> QED
    BY <2>1, <2>2
<1>2. p \in Nat /\ p = b.len - IpHeaderBytes
  <2>1. frame.len \in 0..(2^16 - 1)
    BY WireAssumption DEF WireAssumption
  <2>2. DecodesDatagram(frame)
    BY DEF Decodes
  <2>3. p \in 0..(frame.len - IpHeaderBytes)
    BY <2>2 DEF DecodesDatagram
  <2>4. p = b.len - 4 * 5
    BY DEF PayloadLen
  <2> QED
    BY <2>1, <2>3, <2>4 DEF IpHeaderBytes
<1> PICK to, rest : to = Repack(b) /\ rest = SubSeq(b.rest, 1, p)
  OBVIOUS
<1>3. /\ to.src = b.src /\ to.dst = b.dst /\ to.ttl = b.ttl
      /\ to.protocol = b.protocol /\ to.id = b.id /\ to.ihl = b.ihl
      /\ to.frag = FragOf(b) /\ to.len = IpHeaderBytes + p /\ to.rest = rest
  BY <1>1 DEF Repack, DatagramFields
<1>4. /\ to.frag % 2^13 = b.frag % 2^13
      /\ b.frag < 2^13 => to.frag = b.frag
  BY <1>1, <1>3, FragKept DEF FragOf
<1>5. Len(rest) = p
  <2> PICK E : E = {b.rest[i] : i \in 1..p}
    OBVIOUS
  <2>1. 1 \in Int /\ p \in Int /\ \A i \in 1..p : b.rest[i] \in E
    BY <1>2
  <2>2. Len(SubSeq(b.rest, 1, p)) = IF 1 <= p THEN p - 1 + 1 ELSE 0
    BY ONLY <2>1, SubSeqProperties
  <2> QED
    BY <1>2, <2>2
<1>6. RelayKept([from |-> b, to |-> to])
  BY <1>2, <1>3, <1>4, <1>5 DEF RelayKept
<1> QED
  BY <1>6

LEMMA RelaysKeep ==
    ASSUME NEW r \in Relays, r.from.ihl = 5
    PROVE  RelayKept(r)
<1> PICK frame \in Frames : /\ frame.kind = "CLIENT_DATA" /\ Decodes(frame)
                            /\ r = [from |-> frame.body, to |-> Repack(frame.body)]
  BY DEF Relays
<1>1. frame.body.ihl = 5
  OBVIOUS
<1> QED
  BY <1>1, RepackKeeps

-----------------------------------------------------------------------------
(* The theorems.                                                           *)

LEMMA Invariant == Spec => []Inv
<1>1. Init => Inv
  BY InitInv
<1>2. Inv /\ [Next]_vars => Inv'
  BY SendKeeps, CloseKeeps, ReadHeaderKeeps, ReadPayloadKeeps, ReadEndKeeps
     DEF Next, Receive
<1> QED
  BY <1>1, <1>2, PTL DEF Spec

\* What the server decodes (recievePacket) is what the client sent, whole, in
\* order and each frame once, however recv cuts the stream.
THEOREM FramesAreWhole == Spec => []DecodedIsSent
<1>1. Inv => DecodedIsSent
  <2> SUFFICES ASSUME Inv PROVE DecodedIsSent
    OBVIOUS
  <2> PICK n : n = Len(decoded) /\ n \in Nat
    BY Sizes
  <2>1. /\ decoded \in Seq(Frames) /\ sent \in Seq(Frames) /\ n <= Len(sent)
        /\ \A i \in 1..n : decoded[i] = sent[i]
    BY DEF Inv
  <2>2. Len(decoded) <= Len(sent)
    BY <2>1
  <2>3. SubSeq(decoded, 1, n) = SubSeq(sent, 1, n)
    <3>1. n \in Nat /\ n <= Len(decoded)
      OBVIOUS
    <3> QED
      BY ONLY <2>1, <3>1, SameFront
  <2>4. SubSeq(decoded, 1, n) = decoded
    <3>1. n \in 0..Len(decoded)
      OBVIOUS
    <3> PICK x : x = SubSeq(decoded, 1, n)
      OBVIOUS
    <3>2. /\ x \in Seq(Frames) /\ Len(x) = n
          /\ \A i \in 1..n : x[i] = decoded[i]
      BY ONLY <2>1, <3>1, x = SubSeq(decoded, 1, n), Pieces
    <3>3. Len(x) = Len(decoded) /\ \A i \in 1..Len(x) : x[i] = decoded[i]
      BY <3>2
    <3>4. x = decoded
      BY ONLY <2>1, <3>2, <3>3, SeqEqual
    <3> QED
      BY <3>4
  <2> QED
    BY <2>2, <2>3, <2>4 DEF DecodedIsSent, IsPrefix
<1> QED
  BY <1>1, Invariant, PTL

\* Decoding a datagram and encoding it again (IPv4Datagram.unpack and pack) leaves
\* where it comes from and goes to, its fragment offset and all of its payload,
\* and the flags where none is set.
THEOREM RelayIsFaithful == Spec => []RelayKeepsDelivery
<1>1. Inv => RelayKeepsDelivery
  <2> SUFFICES ASSUME Inv, NEW i \in DOMAIN relayed, relayed[i].from.ihl = 5
               PROVE  RelayKept(relayed[i])
    BY DEF RelayKeepsDelivery, RelayKept
  <2>1. relayed[i] \in Relays
    BY Sizes
  <2> QED
    BY <2>1, RelaysKeep
<1> QED
  BY <1>1, Invariant, PTL

\* As long as the headers come whole, the thread (Node.run) ends with its client,
\* all that was sent decoded, or on a frame whose decoding or handler raises.
THEOREM NothingEndsItEarly == Spec => []EndsForAReason
<1>1. Inv => EndsForAReason
  BY DEF Inv
<1> QED
  BY <1>1, Invariant, PTL

=============================================================================
