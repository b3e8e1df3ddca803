---------------------------- MODULE Tunnel_proofs ----------------------------
(***************************************************************************)
(* Proofs about Tunnel, for any number of streams and of chunks, any       *)
(* capacity of the wire and any width of a byte.                           *)
(***************************************************************************)
EXTENDS Tunnel, SequenceTheorems, TLAPS

-----------------------------------------------------------------------------
(* Stream ids.  What encodeStreamID writes, decodeStreamID reads.          *)

(* Division is what leaves a remainder smaller than the divisor.           *)
LEMMA DivUnique ==
    ASSUME NEW n \in Nat, NEW d \in Nat, d > 0, NEW q \in Nat, NEW r \in Nat,
           n = d * q + r, r < d
    PROVE  n \div d = q /\ n % d = r
  <1>1. n \div d \in Int /\ n \div d >= 0
    OBVIOUS
  <1>2. d * (n \div d) <= n
    OBVIOUS
  <1>3. n < d * (n \div d) + d
    OBVIOUS
  <1>4. PICK x \in Nat : x = n \div d
    BY <1>1
  <1>5. d * x \in Nat /\ d * q \in Nat
    OBVIOUS
  <1>6. ASSUME x > q PROVE FALSE
    <2>1. PICK z \in Nat : x = q + 1 + z
      <3>1. x - q - 1 \in Nat /\ x = q + 1 + (x - q - 1)
        BY <1>6
      <3> QED
        BY <3>1
    <2>2. d * x = d * q + d + d * z /\ d * z \in Nat
      BY <2>1
    <2> QED
      BY <1>2, <1>4, <1>5, <2>2
  <1>7. ASSUME x < q PROVE FALSE
    <2>1. PICK z \in Nat : q = x + 1 + z
      <3>1. q - x - 1 \in Nat /\ q = x + 1 + (q - x - 1)
        BY <1>7
      <3> QED
        BY <3>1
    <2>2. d * q = d * x + d + d * z /\ d * z \in Nat
      BY <2>1
    <2> QED
      BY <1>3, <1>4, <1>5, <2>2
  <1>8. n \div d = q
    BY <1>4, <1>6, <1>7
  <1>9. n = d * (n \div d) + (n % d)
    OBVIOUS
  <1>10. n % d \in 0 .. d - 1
    OBVIOUS
  <1> QED
    BY <1>5, <1>8, <1>9, <1>10

(* Dividing by a byte, and again.                                          *)
LEMMA DivDiv ==
    ASSUME NEW n \in Nat, NEW a \in Nat, a > 0, NEW b \in Nat, b > 0
    PROVE  n \div (a * b) = (n \div a) \div b
  <1>1. PICK q \in Nat, r \in Nat : n = a * q + r /\ r < a /\ q = n \div a
    <2>1. n \div a \in Nat
      OBVIOUS
    <2>2. n = a * (n \div a) + (n % a)
      OBVIOUS
    <2>3. n % a \in 0 .. a - 1
      OBVIOUS
    <2> QED
      BY <2>1, <2>2, <2>3
  <1>2. PICK s \in Nat, t \in Nat : q = b * s + t /\ t < b /\ s = q \div b
    <2>1. q \div b \in Nat
      OBVIOUS
    <2>2. q = b * (q \div b) + (q % b)
      OBVIOUS
    <2>3. q % b \in 0 .. b - 1
      OBVIOUS
    <2> QED
      BY <2>1, <2>2, <2>3
  <1>3. n = (a * b) * s + (a * t + r)
    <2>1. a * q = a * (b * s) + a * t
      BY <1>2
    <2>2. a * (b * s) = (a * b) * s
      BY <1>2
    <2>3. a * (b * s) \in Nat /\ a * t \in Nat
      BY <1>2
    <2> QED
      BY <1>1, <2>1, <2>2, <2>3
  <1>4. a * b \in Nat /\ a * b > 0 /\ a * t + r \in Nat /\ a * t + r < a * b
    <2>1. PICK u \in Nat : b = t + 1 + u
      <3>1. b - t - 1 \in Nat /\ b = t + 1 + (b - t - 1)
        BY <1>2
      <3> QED
        BY <3>1
    <2>2. a * b = a * t + a + a * u
      BY <2>1
    <2>3. a * t \in Nat /\ a * u \in Nat /\ a * b \in Nat
      BY <2>1
    <2> QED
      BY <1>1, <2>2, <2>3
  <1>5. n \div (a * b) = s
    <2> PICK d \in Nat, r2 \in Nat : d = a * b /\ r2 = a * t + r
      BY <1>4
    <2> QED
      BY <1>3, <1>4, DivUnique
  <1> QED
    BY <1>1, <1>2, <1>5

(* The four bytes of an id give the id back.                               *)
LEMMA StreamIDRoundTrip ==
    ASSUME NEW id \in Nat, id < ByteSpan * ByteSpan * ByteSpan * ByteSpan
    PROVE  decodeStreamID(encodeStreamID(id)) = id
  <1> PICK B \in Nat : B = ByteSpan /\ B > 0
    BY TunnelAssumption
  <1>1. B * B \in Nat /\ B * B > 0 /\ B * B * B \in Nat
    OBVIOUS
  <1>2. ASSUME NEW n \in Nat
        PROVE  n \div B \in Nat /\ n % B \in Nat /\ (n \div B) * B + (n % B) = n
    <2>1. n \div B \in Int /\ n \div B >= 0
      OBVIOUS
    <2>2. n % B \in 0 .. B - 1
      OBVIOUS
    <2>3. n = B * (n \div B) + (n % B)
      OBVIOUS
    <2>4. PICK q \in Nat, r \in Nat : q = n \div B /\ r = n % B
      BY <2>1, <2>2
    <2>5. B * q + r = q * B + r
      OBVIOUS
    <2> QED
      BY <2>3, <2>4, <2>5
  <1>3. PICK q1 \in Nat, q2 \in Nat, q3 \in Nat :
           q1 = id \div B /\ q2 = q1 \div B /\ q3 = q2 \div B
    BY <1>2
  <1>4. id \div (B * B) = q2
    BY <1>3, DivDiv
  <1>5. id \div (B * B * B) = q3
    <2>1. id \div ((B * B) * B) = (id \div (B * B)) \div B
      BY <1>1, DivDiv
    <2> QED
      BY <1>3, <1>4, <2>1
  <1>6. q3 < B
    <2> SUFFICES ASSUME q3 >= B PROVE FALSE
      OBVIOUS
    <2>1. PICK c \in Nat : c = B * B * B
      BY <1>1
    <2>2. c > 0
      BY <2>1
    <2>3. c * q3 <= id
      <3>1. c * (id \div c) <= id
        BY <2>2
      <3> QED
        BY <1>5, <2>1, <3>1
    <2>4. c * q3 >= c * B
      <3>1. PICK z \in Nat : q3 = B + z
        <4>1. q3 - B \in Nat /\ q3 = B + (q3 - B)
          OBVIOUS
        <4> QED
          BY <4>1
      <3>2. c * q3 = c * B + c * z /\ c * z \in Nat /\ c * B \in Nat
        BY <3>1
      <3> QED
        BY <3>2
    <2>5. c * B \in Nat /\ id < c * B
      BY <2>1
    <2> QED
      BY <2>3, <2>4, <2>5
  <1>7. q3 % B = q3
    <2>1. q3 = B * 0 + q3
      OBVIOUS
    <2> QED
      BY <1>6, <2>1, DivUnique
  <1>8. /\ q3 * B + (q2 % B) = q2
        /\ q2 * B + (q1 % B) = q1
        /\ q1 * B + (id % B) = id
    BY <1>2, <1>3
  <1>9. encodeStreamID(id) = <<q3, q2 % B, q1 % B, id % B>>
    BY <1>3, <1>4, <1>5, <1>7 DEF encodeStreamID
  <1> PICK b : b = encodeStreamID(id)
    OBVIOUS
  <1>10. b[1] = q3 /\ b[2] = q2 % B /\ b[3] = q1 % B /\ b[4] = id % B
    BY <1>9
  <1>11. decodeStreamID(b) = ((q3 * B + (q2 % B)) * B + (q1 % B)) * B + (id % B)
    BY <1>10 DEF decodeStreamID
  <1> QED
    BY <1>8, <1>11

LEMMA Ids4Bytes ==
    /\ \A i \in Ids : i \in Nat /\ decodeStreamID(encodeStreamID(i)) = i
    /\ \A i, j \in Ids : encodeStreamID(i) = encodeStreamID(j) => i = j
  <1>1. ASSUME NEW i \in Ids PROVE i \in Nat /\ decodeStreamID(encodeStreamID(i)) = i
    <2>1. i \in Nat /\ i < MaxStreams
      BY TunnelAssumption DEF Ids
    <2> PICK c : c = ByteSpan * ByteSpan * ByteSpan * ByteSpan
      OBVIOUS
    <2>2. c \in Nat
      <3>1. ByteSpan \in Nat
        BY TunnelAssumption
      <3>2. ByteSpan * ByteSpan \in Nat
        BY <3>1
      <3>3. ByteSpan * ByteSpan * ByteSpan \in Nat
        BY <3>1, <3>2
      <3> QED
        BY <3>1, <3>3
    <2>3. i < c
      BY <2>1, <2>2, TunnelAssumption
    <2> QED
      BY <2>1, <2>3, StreamIDRoundTrip
  <1> QED
    BY <1>1

-----------------------------------------------------------------------------
(* Wires.                                                                  *)

IsData(f, i) == f.type = "data" /\ f.head = encodeStreamID(i)
IsControl(f, i) == f.type = "control" /\ f.head = encodeStreamID(i)
DataFrame(i, n) == StreamFrame("data", i, [of |-> i, n |-> n])

(* The chunks of stream i on the wire q follow on the first p of them, in  *)
(* order and without a gap, and go no further than u.                      *)
InOrder(q, i, p, u) ==
    /\ \A j \in DOMAIN q : IsData(q[j], i) =>
          /\ q[j].data.of = i /\ q[j].data.n \in p + 1 .. u
          /\ \A n \in p + 1 .. q[j].data.n :
                \E k \in DOMAIN q : IsData(q[k], i) /\ q[k].data.n = n
    /\ \A j, k \in DOMAIN q :
          j < k /\ IsData(q[j], i) /\ IsData(q[k], i) => q[j].data.n < q[k].data.n

(* All of them up to u are there.                                          *)
AllThere(q, i, p, u) ==
    \A n \in p + 1 .. u : \E k \in DOMAIN q : IsData(q[k], i) /\ q[k].data.n = n

LEMMA OnAppend ==
    ASSUME NEW S, NEW q \in Seq(S), NEW f \in S
    PROVE  LET r == Append(q, f)
           IN  /\ r \in Seq(S) /\ Len(r) = Len(q) + 1 /\ Len(q) \in Nat
               /\ DOMAIN r = DOMAIN q \cup {Len(q) + 1}
               /\ r[Len(q) + 1] = f
               /\ \A j \in DOMAIN q : r[j] = q[j] /\ j \in Nat /\ j < Len(q) + 1
  OBVIOUS

LEMMA OnTail ==
    ASSUME NEW S, NEW q \in Seq(S), q # << >>
    PROVE  LET r == Tail(q)
           IN  /\ r \in Seq(S) /\ Len(r) = Len(q) - 1 /\ Len(q) \in Nat
               /\ 1 \in DOMAIN q /\ Head(q) = q[1] /\ Head(q) \in S
               /\ \A j \in DOMAIN r : j \in Nat /\ j + 1 \in DOMAIN q /\ r[j] = q[j + 1]
               /\ \A j \in DOMAIN q : j \in Nat /\ (j # 1 => j > 1 /\ j - 1 \in DOMAIN r /\ r[j - 1] = q[j])
  <1>1. /\ Tail(q) \in Seq(S) /\ Len(Tail(q)) = Len(q) - 1 /\ Len(q) \in Nat /\ Len(q) > 0
    BY HeadTailProperties, EmptySeq, LenProperties
  <1>2. \A j \in 1 .. Len(Tail(q)) : Tail(q)[j] = q[j + 1]
    BY HeadTailProperties
  <1>3. DOMAIN q = 1 .. Len(q) /\ DOMAIN Tail(q) = 1 .. Len(Tail(q))
    BY <1>1, LenProperties
  <1>4. Head(q) = q[1] /\ Head(q) \in S
    BY <1>1
  <1> QED
    BY <1>1, <1>2, <1>3, <1>4

(* The next chunk of the stream goes onto the wire.                        *)
LEMMA AppendData ==
    ASSUME NEW S, NEW q \in Seq(S), NEW i, NEW p \in Nat, NEW u \in Nat, p <= u,
           DataFrame(i, u + 1) \in S,
           InOrder(q, i, p, u), AllThere(q, i, p, u)
    PROVE  LET r == Append(q, DataFrame(i, u + 1))
           IN  InOrder(r, i, p, u + 1) /\ AllThere(r, i, p, u + 1)
  <1> PICK f : f = DataFrame(i, u + 1)
    OBVIOUS
  <1> PICK r : r = Append(q, f)
    OBVIOUS
  <1>1. IsData(f, i) /\ f.data.of = i /\ f.data.n = u + 1
    BY DEF DataFrame, StreamFrame, IsData
  <1>2. /\ Len(q) \in Nat /\ DOMAIN r = DOMAIN q \cup {Len(q) + 1} /\ r[Len(q) + 1] = f
        /\ \A j \in DOMAIN q : r[j] = q[j] /\ j \in Nat /\ j < Len(q) + 1
    BY OnAppend
  <1>3. ASSUME NEW n \in p + 1 .. u + 1
        PROVE  \E k \in DOMAIN r : IsData(r[k], i) /\ r[k].data.n = n
    <2>1. CASE n = u + 1
      BY <1>1, <1>2, <2>1
    <2>2. CASE n # u + 1
      <3>1. n \in p + 1 .. u
        BY <2>2
      <3> QED
        BY <1>2, <3>1 DEF AllThere
    <2> QED
      BY <2>1, <2>2
  <1>4. AllThere(r, i, p, u + 1)
    BY <1>3 DEF AllThere
  <1>5. ASSUME NEW j \in DOMAIN r, IsData(r[j], i)
        PROVE  /\ r[j].data.of = i /\ r[j].data.n \in p + 1 .. u + 1
               /\ \A n \in p + 1 .. r[j].data.n :
                     \E k \in DOMAIN r : IsData(r[k], i) /\ r[k].data.n = n
    <2>1. r[j].data.of = i /\ r[j].data.n \in p + 1 .. u + 1
      <3>1. CASE j \in DOMAIN q
        <4>1. q[j].data.of = i /\ q[j].data.n \in p + 1 .. u
          BY <1>2, <1>5, <3>1 DEF InOrder
        <4> QED
          BY <1>2, <3>1, <4>1
      <3>2. CASE j = Len(q) + 1
        BY <1>1, <1>2, <3>2
      <3> QED
        BY <1>2, <3>1, <3>2
    <2>2. \A n \in p + 1 .. r[j].data.n : n \in p + 1 .. u + 1
      BY <2>1
    <2> QED
      BY <1>3, <2>1, <2>2
  <1>6. ASSUME NEW j \in DOMAIN r, NEW k \in DOMAIN r, j < k, IsData(r[j], i), IsData(r[k], i)
        PROVE  r[j].data.n < r[k].data.n
    <2>1. j \in DOMAIN q
      BY <1>2, <1>6
    <2>2. q[j].data.n \in p + 1 .. u
      BY <1>2, <1>6, <2>1 DEF InOrder
    <2>3. CASE k \in DOMAIN q
      BY <1>2, <1>6, <2>1, <2>3 DEF InOrder
    <2>4. CASE k = Len(q) + 1
      BY <1>1, <1>2, <2>1, <2>2, <2>4
    <2> QED
      BY <1>2, <2>3, <2>4
  <1> QED
    BY <1>4, <1>5, <1>6 DEF InOrder

(* Other frames change nothing for a stream.                               *)
LEMMA AppendOther ==
    ASSUME NEW S, NEW q \in Seq(S), NEW f \in S, NEW i, NEW p \in Nat, NEW u \in Nat,
           ~IsData(f, i)
    PROVE  LET r == Append(q, f)
           IN  /\ InOrder(q, i, p, u) => InOrder(r, i, p, u)
               /\ AllThere(q, i, p, u) => AllThere(r, i, p, u)
  <1> PICK r : r = Append(q, f)
    OBVIOUS
  <1>1. /\ Len(q) \in Nat /\ DOMAIN r = DOMAIN q \cup {Len(q) + 1} /\ r[Len(q) + 1] = f
        /\ \A j \in DOMAIN q : r[j] = q[j] /\ j \in Nat /\ j < Len(q) + 1
    BY OnAppend
  <1>2. \A j \in DOMAIN r : IsData(r[j], i) => j \in DOMAIN q /\ r[j] = q[j]
    BY <1>1
  <1>3. ASSUME AllThere(q, i, p, u) PROVE AllThere(r, i, p, u)
    BY <1>1, <1>3 DEF AllThere
  <1>4. ASSUME InOrder(q, i, p, u) PROVE InOrder(r, i, p, u)
    <2>1. ASSUME NEW j \in DOMAIN r, IsData(r[j], i)
          PROVE  /\ r[j].data.of = i /\ r[j].data.n \in p + 1 .. u
                 /\ \A n \in p + 1 .. r[j].data.n :
                       \E k \in DOMAIN r : IsData(r[k], i) /\ r[k].data.n = n
      <3>1. j \in DOMAIN q /\ r[j] = q[j]
        BY <1>2, <2>1
      <3>2. /\ q[j].data.of = i /\ q[j].data.n \in p + 1 .. u
            /\ \A n \in p + 1 .. q[j].data.n :
                  \E k \in DOMAIN q : IsData(q[k], i) /\ q[k].data.n = n
        BY <1>4, <2>1, <3>1 DEF InOrder
      <3> QED
        BY <1>1, <3>1, <3>2
    <2>2. \A j, k \in DOMAIN r :
             j < k /\ IsData(r[j], i) /\ IsData(r[k], i) => r[j].data.n < r[k].data.n
      BY <1>2, <1>4 DEF InOrder
    <2> QED
      BY <2>1, <2>2 DEF InOrder
  <1> QED
    BY <1>3, <1>4

(* The first chunk of the stream on the wire is the one that is due.       *)
LEMMA TailData ==
    ASSUME NEW S, NEW q \in Seq(S), q # << >>, NEW i, NEW p \in Nat, NEW u \in Nat,
           IsData(Head(q), i), InOrder(q, i, p, u)
    PROVE  /\ Head(q).data.of = i /\ Head(q).data.n = p + 1 /\ p + 1 <= u
           /\ InOrder(Tail(q), i, p + 1, u)
           /\ AllThere(q, i, p, u) => AllThere(Tail(q), i, p + 1, u)
  <1> PICK r : r = Tail(q)
    OBVIOUS
  <1>1. /\ 1 \in DOMAIN q /\ Head(q) = q[1]
        /\ \A j \in DOMAIN r : j \in Nat /\ j + 1 \in DOMAIN q /\ r[j] = q[j + 1]
        /\ \A j \in DOMAIN q : j \in Nat /\ (j # 1 => j > 1 /\ j - 1 \in DOMAIN r /\ r[j - 1] = q[j])
    BY OnTail
  <1>2. /\ q[1].data.of = i /\ q[1].data.n \in p + 1 .. u
        /\ \A n \in p + 1 .. q[1].data.n :
              \E k \in DOMAIN q : IsData(q[k], i) /\ q[k].data.n = n
    BY <1>1 DEF InOrder
  <1>3. \A k \in DOMAIN q : IsData(q[k], i) /\ k # 1 => q[k].data.n > q[1].data.n
    <2> SUFFICES ASSUME NEW k \in DOMAIN q, IsData(q[k], i), k # 1
                 PROVE  q[k].data.n > q[1].data.n
      OBVIOUS
    <2>1. q[1].data.n < q[k].data.n
      BY <1>1 DEF InOrder
    <2>2. q[k].data.n \in p + 1 .. u
      BY DEF InOrder
    <2> QED
      BY <1>2, <2>1, <2>2
  <1>4. q[1].data.n = p + 1
    <2>1. PICK k \in DOMAIN q : IsData(q[k], i) /\ q[k].data.n = p + 1
      BY <1>2
    <2> QED
      BY <1>2, <1>3, <2>1
  <1>5. ASSUME NEW n \in p + 2 .. u, NEW k \in DOMAIN q, IsData(q[k], i), q[k].data.n = n
        PROVE  \E m \in DOMAIN r : IsData(r[m], i) /\ r[m].data.n = n
    <2>1. k # 1
      BY <1>4, <1>5
    <2> QED
      BY <1>1, <1>5, <2>1
  <1>6. ASSUME AllThere(q, i, p, u) PROVE AllThere(r, i, p + 1, u)
    <2> SUFFICES ASSUME NEW n \in (p + 1) + 1 .. u
                 PROVE  \E m \in DOMAIN r : IsData(r[m], i) /\ r[m].data.n = n
      BY DEF AllThere
    <2>1. n \in p + 1 .. u /\ n \in p + 2 .. u
      OBVIOUS
    <2> QED
      BY <1>5, <1>6, <2>1 DEF AllThere
  <1>7. ASSUME NEW j \in DOMAIN r, IsData(r[j], i)
        PROVE  /\ r[j].data.of = i /\ r[j].data.n \in (p + 1) + 1 .. u
               /\ \A n \in (p + 1) + 1 .. r[j].data.n :
                     \E k \in DOMAIN r : IsData(r[k], i) /\ r[k].data.n = n
    <2>1. j + 1 \in DOMAIN q /\ r[j] = q[j + 1] /\ j + 1 # 1
      BY <1>1
    <2>2. /\ q[j + 1].data.of = i /\ q[j + 1].data.n \in p + 1 .. u
          /\ \A n \in p + 1 .. q[j + 1].data.n :
                \E k \in DOMAIN q : IsData(q[k], i) /\ q[k].data.n = n
      BY <1>7, <2>1 DEF InOrder
    <2>3. q[j + 1].data.n > p + 1
      BY <1>3, <1>4, <1>7, <2>1
    <2>4. ASSUME NEW n \in (p + 1) + 1 .. r[j].data.n
          PROVE  \E k \in DOMAIN r : IsData(r[k], i) /\ r[k].data.n = n
      <3>1. n \in p + 1 .. q[j + 1].data.n /\ n \in p + 2 .. u
        BY <2>1, <2>2
      <3> QED
        BY <1>5, <2>2, <3>1
    <2> QED
      BY <2>1, <2>2, <2>3, <2>4
  <1>8. \A j, k \in DOMAIN r :
           j < k /\ IsData(r[j], i) /\ IsData(r[k], i) => r[j].data.n < r[k].data.n
    <2> SUFFICES ASSUME NEW j \in DOMAIN r, NEW k \in DOMAIN r,
                        j < k, IsData(r[j], i), IsData(r[k], i)
                 PROVE  r[j].data.n < r[k].data.n
      OBVIOUS
    <2>1. j + 1 \in DOMAIN q /\ k + 1 \in DOMAIN q /\ j + 1 < k + 1
          /\ r[j] = q[j + 1] /\ r[k] = q[k + 1]
      BY <1>1
    <2> QED
      BY <2>1 DEF InOrder
  <1> QED
    BY <1>1, <1>2, <1>4, <1>6, <1>7, <1>8 DEF InOrder

LEMMA TailOther ==
    ASSUME NEW S, NEW q \in Seq(S), q # << >>, NEW i, NEW p \in Nat, NEW u \in Nat,
           ~IsData(Head(q), i)
    PROVE  /\ InOrder(q, i, p, u) => InOrder(Tail(q), i, p, u)
           /\ AllThere(q, i, p, u) => AllThere(Tail(q), i, p, u)
  <1> PICK r : r = Tail(q)
    OBVIOUS
  <1>1. /\ 1 \in DOMAIN q /\ Head(q) = q[1]
        /\ \A j \in DOMAIN r : j \in Nat /\ j + 1 \in DOMAIN q /\ r[j] = q[j + 1]
        /\ \A j \in DOMAIN q : j \in Nat /\ (j # 1 => j > 1 /\ j - 1 \in DOMAIN r /\ r[j - 1] = q[j])
    BY OnTail
  <1>2. ASSUME NEW n, \E k \in DOMAIN q : IsData(q[k], i) /\ q[k].data.n = n
        PROVE  \E m \in DOMAIN r : IsData(r[m], i) /\ r[m].data.n = n
    <2>1. PICK k \in DOMAIN q : IsData(q[k], i) /\ q[k].data.n = n
      BY <1>2
    <2>2. k # 1
      BY <1>1, <2>1
    <2> QED
      BY <1>1, <2>1, <2>2
  <1>3. ASSUME AllThere(q, i, p, u) PROVE AllThere(r, i, p, u)
    BY <1>2, <1>3 DEF AllThere
  <1>4. ASSUME InOrder(q, i, p, u) PROVE InOrder(r, i, p, u)
    <2>1. ASSUME NEW j \in DOMAIN r, IsData(r[j], i)
          PROVE  /\ r[j].data.of = i /\ r[j].data.n \in p + 1 .. u
                 /\ \A n \in p + 1 .. r[j].data.n :
                       \E k \in DOMAIN r : IsData(r[k], i) /\ r[k].data.n = n
      <3>1. j + 1 \in DOMAIN q /\ r[j] = q[j + 1]
        BY <1>1
      <3>2. /\ q[j + 1].data.of = i /\ q[j + 1].data.n \in p + 1 .. u
            /\ \A n \in p + 1 .. q[j + 1].data.n :
                  \E k \in DOMAIN q : IsData(q[k], i) /\ q[k].data.n = n
        BY <1>4, <2>1, <3>1 DEF InOrder
      <3> QED
        BY <1>2, <3>1, <3>2
    <2>2. \A j, k \in DOMAIN r :
             j < k /\ IsData(r[j], i) /\ IsData(r[k], i) => r[j].data.n < r[k].data.n
      <3> SUFFICES ASSUME NEW j \in DOMAIN r, NEW k \in DOMAIN r,
                          j < k, IsData(r[j], i), IsData(r[k], i)
                   PROVE  r[j].data.n < r[k].data.n
        OBVIOUS
      <3>1. j + 1 \in DOMAIN q /\ k + 1 \in DOMAIN q /\ j + 1 < k + 1
            /\ r[j] = q[j + 1] /\ r[k] = q[k + 1]
        BY <1>1
      <3> QED
        BY <1>4, <3>1 DEF InOrder
    <2> QED
      BY <2>1, <2>2 DEF InOrder
  <1> QED
    BY <1>3, <1>4

(* A chunk that will never go onto the wire only widens the bound.         *)
LEMMA OrderWidens ==
    ASSUME NEW q, NEW i, NEW p \in Nat, NEW u \in Nat, NEW v \in Nat, u <= v,
           InOrder(q, i, p, u)
    PROVE  InOrder(q, i, p, v)
  <1>1. p + 1 .. u \subseteq p + 1 .. v
    OBVIOUS
  <1> QED
    BY <1>1 DEF InOrder

(* A wire without chunks of a stream that has sent none.                   *)
LEMMA NothingThere ==
    ASSUME NEW q, NEW i, \A j \in DOMAIN q : ~IsData(q[j], i)
    PROVE  InOrder(q, i, 0, 0) /\ AllThere(q, i, 0, 0)
  BY DEF InOrder, AllThere

-----------------------------------------------------------------------------
(* Types.  Behind TypeOK: a data frame carries a chunk, the server sends   *)
(* nothing but data frames, a loop that works on a stream knows which, and *)
(* no stream has sent more chunks than there were.                         *)

UpFrame == {f \in Frame : f.type = "data" => f.data \in Chunk}
DownFrame == {f \in Frame : f.type = "data" /\ f.data \in Chunk}

Carried == c2s \in Seq(UpFrame) /\ s2c \in Seq(DownFrame)

AtStreams ==
    /\ relay.pc \in {"dial", "write"} => relay.id \in Ids
    /\ relay.pc = "write" => relay.data \in Chunk
    /\ read.pc = "push" => read.id \in Ids /\ read.data \in Chunk

Counted == \A i \in Ids : sentUp[i] <= chunks /\ sentDown[i] <= chunks

Hold == \A i \in Ids : pump[i] = "hold" => sentDown[i] > 0

TypeInv == TypeOK /\ Carried /\ AtStreams /\ Counted /\ Hold

LEMMA NoneIsNoChunk == None \notin Chunk
  BY DEF None, Chunk

(* What is sent on a wire may travel on it.                                *)
LEMMA FramesTravel ==
    ASSUME NEW i \in Ids
    PROVE  /\ StreamFrame("control", i, None) \in UpFrame
           /\ StreamFrame("close", i, None) \in UpFrame
           /\ CloseFrame \in UpFrame
           /\ \A c \in Chunk : StreamFrame("data", i, c) \in UpFrame \cap DownFrame
  <1>1. encodeStreamID(i) \in {encodeStreamID(j) : j \in Ids}
    OBVIOUS
  <1>2. ASSUME NEW t \in {"control", "data", "close"}, NEW c \in Chunk \cup {None}
        PROVE  StreamFrame(t, i, c) \in Frame /\ StreamFrame(t, i, c).type = t
               /\ StreamFrame(t, i, c).data = c
    BY <1>1 DEF StreamFrame, Frame
  <1>3. CloseFrame \in Frame /\ CloseFrame.type = "bye"
    BY DEF Frame, CloseFrame
  <1> QED
    BY <1>2, <1>3 DEF UpFrame, DownFrame

LEMMA CloseTravels == CloseFrame \in UpFrame
  <1>1. CloseFrame \in Frame /\ CloseFrame.type = "bye"
    BY DEF Frame, CloseFrame
  <1> QED
    BY <1>1 DEF UpFrame

(* What comes off it.                                                      *)
LEMMA FrameParts ==
    ASSUME NEW f \in Frame
    PROVE  /\ f.type \in {"control", "data", "close", "bye"}
           /\ f.data \in Chunk \cup {None}
           /\ f.type # "bye" =>
                \E i \in Ids : f.head = encodeStreamID(i) /\ decodeStreamID(f.head) = i
  <1>1. CASE f = CloseFrame
    BY <1>1 DEF CloseFrame
  <1>2. CASE f \in [type : {"control", "data", "close"}, head : {encodeStreamID(i) : i \in Ids},
                    data : Chunk \cup {None}]
    <2>1. PICK i \in Ids : f.head = encodeStreamID(i)
      BY <1>2
    <2> QED
      BY <1>2, <2>1, Ids4Bytes
  <1> QED
    BY <1>1, <1>2 DEF Frame

(* A wire of some frames is a wire of frames.                              *)
LEMMA WiresOfFrames ==
    ASSUME NEW q
    PROVE  /\ q \in Seq(UpFrame) => q \in Seq(Frame)
           /\ q \in Seq(DownFrame) => q \in Seq(Frame)
  BY DEF UpFrame, DownFrame

LEMMA WireSent ==
    ASSUME TypeInv, NEW f \in UpFrame, ToServer(f)
    PROVE  c2s' \in Seq(UpFrame) /\ c2s' \in Seq(Frame) /\ Len(c2s') <= WireCap
  <1>1. CASE ~broken /\ Len(c2s) < WireCap /\ c2s' = Append(c2s, f)
    <2>1. c2s' \in Seq(UpFrame) /\ Len(c2s') = Len(c2s) + 1 /\ Len(c2s) \in Nat
      BY <1>1, OnAppend DEF TypeInv, Carried
    <2>2. Len(c2s') <= WireCap
      BY <1>1, <2>1, TunnelAssumption
    <2>3. c2s' \in Seq(Frame)
      BY <2>1, WiresOfFrames
    <2> QED
      BY <2>1, <2>2, <2>3
  <1>2. CASE UNCHANGED c2s
    BY <1>2 DEF TypeInv, Carried, TypeOK
  <1> QED
    BY <1>1, <1>2 DEF ToServer

LEMMA WireTaken ==
    ASSUME NEW S, NEW q \in Seq(S), q # << >>, Len(q) <= WireCap
    PROVE  Tail(q) \in Seq(S) /\ Len(Tail(q)) <= WireCap /\ Head(q) \in S
  BY OnTail, TunnelAssumption

(* Loops are idle or work on a stream.                                     *)
LEMMA Loops ==
    /\ None \in Chunk \cup {None} /\ -1 \in Ids \cup {-1}
    /\ IdleLoop \in Loop /\ IdleLoop.pc = "read"
    /\ \A c \in {"read", "push", "dial", "write", "cleanup", "ended"} :
         [IdleLoop EXCEPT !.pc = c] \in Loop /\ [IdleLoop EXCEPT !.pc = c].pc = c
    /\ \A c \in {"push", "dial", "write"}, i \in Ids, d \in Chunk \cup {None} :
         [pc |-> c, id |-> i, data |-> d] \in Loop
  BY DEF Loop, IdleLoop

LEMMA InitType == Init => TypeInv
  <1> SUFFICES ASSUME Init PROVE TypeInv
    OBVIOUS
  <1>1. c2s = << >> /\ s2c = << >> /\ << >> \in Seq(Frame)
        /\ << >> \in Seq(UpFrame) /\ << >> \in Seq(DownFrame) /\ Len(<< >>) <= WireCap
    BY TunnelAssumption DEF Init
  <1>2. << >> \in Seq(Chunk)
    OBVIOUS
  <1>3. read \in Loop /\ relay \in Loop /\ read.pc = "read" /\ relay.pc = "read"
    BY Loops DEF Init
  <1>4. /\ conn \in [Ids -> {"none", "dial", "open", "close", "closed", "failed"}]
        /\ upstream \in [Ids -> {"none", "open", "gone", "closed"}]
        /\ pump \in [Ids -> {"none", "read", "hold", "done"}]
    BY DEF Init
  <1>5. /\ holdUp \in [Ids -> Chunk \cup {None}]
        /\ sentUp \in [Ids -> 0 .. MaxChunks] /\ sentDown \in [Ids -> 0 .. MaxChunks]
        /\ gotUp \in [Ids -> Seq(Chunk)] /\ gotDown \in [Ids -> Seq(Chunk)]
        /\ nextID \in 0 .. MaxStreams /\ chunks \in 0 .. MaxChunks
    BY <1>2, TunnelAssumption DEF Init
  <1>6. sessions \subseteq Ids /\ streams \subseteq Ids /\ broken \in BOOLEAN
    BY DEF Init
  <1>7. TypeOK
    BY <1>1, <1>3, <1>4, <1>5, <1>6 DEF TypeOK
  <1> QED
    BY <1>1, <1>3, <1>7 DEF Init, TypeInv, Carried, AtStreams, Counted, Hold

LEMMA SessionType ==
    ASSUME TypeInv, Register \/ ClientClose \/ Break
    PROVE  TypeInv'
  <1> USE DEF clientVars, relayVars, history
  <1>1. CASE Register
    <2>1. nextID \in Ids
      BY <1>1, TunnelAssumption DEF Register, TypeInv, TypeOK, Ids
    <2>2. nextID' \in 0 .. MaxStreams
      BY <1>1, TunnelAssumption DEF Register, TypeInv, TypeOK
    <2>3. sessions' \subseteq Ids /\ conn' \in [Ids -> {"none", "dial", "open", "close", "closed", "failed"}]
      BY <1>1, <2>1 DEF Register, TypeInv, TypeOK
    <2>4. TypeOK'
      BY <1>1, <2>2, <2>3 DEF Register, TypeInv, TypeOK
    <2> QED
      BY <1>1, <2>4 DEF Register, TypeInv, Carried, AtStreams, Counted, Hold
  <1>2. CASE ClientClose
    <2>1. c2s' \in Seq(UpFrame) /\ c2s' \in Seq(Frame) /\ Len(c2s') <= WireCap
      BY <1>2, CloseTravels, WireSent DEF ClientClose
    <2>2. TypeOK'
      BY <1>2, <2>1 DEF ClientClose, TypeInv, TypeOK
    <2> QED
      BY <1>2, <2>1, <2>2 DEF ClientClose, TypeInv, Carried, AtStreams, Counted, Hold
  <1>3. CASE Break
    <2>1. TypeOK'
      BY <1>3 DEF Break, TypeInv, TypeOK
    <2> QED
      BY <1>3, <2>1 DEF Break, TypeInv, Carried, AtStreams, Counted, Hold
  <1> QED
    BY <1>1, <1>2, <1>3

LEMMA ClientType ==
    ASSUME TypeInv, NEW i \in Ids,
           Dial(i) \/ ReadLocal(i) \/ WriteUp(i) \/ Forget(i) \/ HangUp(i)
    PROVE  TypeInv'
  <1> USE DEF clientVars, relayVars, history
  <1>1. CASE Dial(i)
    <2>1. c2s' \in Seq(UpFrame) /\ c2s' \in Seq(Frame) /\ Len(c2s') <= WireCap
      BY <1>1, FramesTravel, WireSent DEF Dial
    <2>2. TypeOK'
      BY <1>1, <2>1 DEF Dial, TypeInv, TypeOK
    <2> QED
      BY <1>1, <2>1, <2>2 DEF Dial, TypeInv, Carried, AtStreams, Counted, Hold
  <1>2. CASE ReadLocal(i)
    <2> PICK n : n = sentUp[i] + 1
      OBVIOUS
    <2>1. /\ n \in 1 .. MaxChunks /\ n <= chunks + 1
          /\ sentUp' = [sentUp EXCEPT ![i] = n]
          /\ holdUp' = [holdUp EXCEPT ![i] = [of |-> i, n |-> n]]
          /\ chunks' = chunks + 1 /\ chunks' \in 0 .. MaxChunks
      BY <1>2, TunnelAssumption DEF ReadLocal, CountChunk, TypeInv, TypeOK, Counted
    <2>2. [of |-> i, n |-> n] \in Chunk
      BY <2>1 DEF Chunk
    <2>3. holdUp' \in [Ids -> Chunk \cup {None}]
      BY <2>1, <2>2 DEF TypeInv, TypeOK
    <2>4. sentUp' \in [Ids -> 0 .. MaxChunks]
      BY <2>1 DEF TypeInv, TypeOK
    <2>5. TypeOK'
      BY <1>2, <2>1, <2>3, <2>4 DEF ReadLocal, TypeInv, TypeOK
    <2>6. Counted'
      BY <1>2, <2>1 DEF ReadLocal, TypeInv, TypeOK, Counted
    <2> QED
      BY <1>2, <2>5, <2>6 DEF ReadLocal, TypeInv, Carried, AtStreams, Hold
  <1>3. CASE WriteUp(i)
    <2>1. holdUp[i] \in Chunk
      BY <1>3 DEF WriteUp, TypeInv, TypeOK
    <2>2. c2s' \in Seq(UpFrame) /\ c2s' \in Seq(Frame) /\ Len(c2s') <= WireCap
      BY <1>3, <2>1, FramesTravel, WireSent DEF WriteUp
    <2>3. TypeOK'
      BY <1>3, <2>2 DEF WriteUp, TypeInv, TypeOK
    <2> QED
      BY <1>3, <2>2, <2>3 DEF WriteUp, TypeInv, Carried, AtStreams, Counted, Hold
  <1>4. CASE Forget(i)
    <2>1. TypeOK'
      BY <1>4 DEF Forget, TypeInv, TypeOK
    <2> QED
      BY <1>4, <2>1 DEF Forget, TypeInv, Carried, AtStreams, Counted, Hold
  <1>5. CASE HangUp(i)
    <2>1. c2s' \in Seq(UpFrame) /\ c2s' \in Seq(Frame) /\ Len(c2s') <= WireCap
      BY <1>5, FramesTravel, WireSent DEF HangUp
    <2>2. TypeOK'
      BY <1>5, <2>1 DEF HangUp, TypeInv, TypeOK
    <2> QED
      BY <1>5, <2>1, <2>2 DEF HangUp, TypeInv, Carried, AtStreams, Counted, Hold
  <1> QED
    BY <1>1, <1>2, <1>3, <1>4, <1>5

LEMMA ReadLoopType ==
    ASSUME TypeInv, Receive \/ ReceiveError \/ PushFails \/ \E i \in Ids : Consume(i)
    PROVE  TypeInv'
  <1> USE DEF clientVars, relayVars, history
  <1>1. CASE Receive
    <2> PICK f, q, i : f = Head(s2c) /\ q = Tail(s2c) /\ i = decodeStreamID(f.head)
      OBVIOUS
    <2>1. /\ s2c' = q
          /\ read' = IF i \in sessions THEN [pc |-> "push", id |-> i, data |-> f.data] ELSE read
          /\ UNCHANGED <<nextID, sessions, conn, holdUp, c2s, broken, relay, streams, upstream, pump,
                         sentUp, gotUp, sentDown, gotDown, chunks>>
      BY <1>1 DEF Receive
    <2>2. q \in Seq(DownFrame) /\ q \in Seq(Frame) /\ Len(q) <= WireCap /\ f \in DownFrame
      BY <1>1, WireTaken, WiresOfFrames DEF Receive, TypeInv, TypeOK, Carried
    <2>3. f.data \in Chunk
      BY <2>2 DEF DownFrame
    <2>4. read' = read \/ (i \in Ids /\ read' = [pc |-> "push", id |-> i, data |-> f.data])
      BY <2>1 DEF TypeInv, TypeOK
    <2>5. read' \in Loop /\ read'.pc \in {"read", "push", "ended"}
      BY <2>3, <2>4, Loops DEF TypeInv, TypeOK
    <2>6. read'.pc = "push" => read'.id \in Ids /\ read'.data \in Chunk
      BY <2>3, <2>4 DEF TypeInv, AtStreams
    <2>7. TypeOK'
      BY <2>1, <2>2, <2>5 DEF TypeInv, TypeOK
    <2> QED
      BY <2>1, <2>2, <2>6, <2>7 DEF TypeInv, Carried, AtStreams, Counted, Hold
  <1>2. CASE ReceiveError \/ PushFails
    <2>1. /\ read' = IdleLoop \/ read' = [IdleLoop EXCEPT !.pc = "ended"]
          /\ UNCHANGED <<nextID, sessions, conn, holdUp, c2s, s2c, broken, relay, streams, upstream,
                         pump, sentUp, gotUp, sentDown, gotDown, chunks>>
      BY <1>2 DEF ReceiveError, PushFails
    <2>2. read' \in Loop /\ read'.pc \in {"read", "ended"}
      BY <2>1, Loops
    <2>3. TypeOK'
      BY <2>1, <2>2 DEF TypeInv, TypeOK
    <2> QED
      BY <2>1, <2>2, <2>3 DEF TypeInv, Carried, AtStreams, Counted, Hold
  <1>3. CASE \E i \in Ids : Consume(i)
    <2>1. PICK i \in Ids : Consume(i)
      BY <1>3
    <2>2. read.data \in Chunk
      BY <2>1 DEF Consume, TypeInv, AtStreams
    <2>3. read' \in Loop /\ read'.pc = "read"
      BY <2>1, Loops DEF Consume
    <2> PICK q : q = Append(gotDown[i], read.data)
      OBVIOUS
    <2>4. q \in Seq(Chunk)
      BY <2>2 DEF TypeInv, TypeOK
    <2>5. gotDown' = [gotDown EXCEPT ![i] = q]
      BY <2>1 DEF Consume
    <2>6. gotDown' \in [Ids -> Seq(Chunk)]
      BY <2>4, <2>5 DEF TypeInv, TypeOK
    <2>7. TypeOK'
      BY <2>1, <2>3, <2>6 DEF Consume, TypeInv, TypeOK
    <2> QED
      BY <2>1, <2>3, <2>7 DEF Consume, TypeInv, Carried, AtStreams, Counted, Hold
  <1> QED
    BY <1>1, <1>2, <1>3

(* What RelayRead does with the next frame of the wire.                    *)
Takes == 
    /\ relay.pc = "read" /\ c2s # << >> /\ c2s' = Tail(c2s)
    /\ UNCHANGED <<nextID, sessions, conn, holdUp, read, s2c, broken,
                   sentUp, gotUp, sentDown, gotDown, chunks>>
TakesControl(f, k) ==
    /\ IsControl(f, k) /\ relay' = [pc |-> "dial", id |-> k, data |-> None]
    /\ UNCHANGED <<streams, upstream, pump>>
TakesData(f, k) ==
    /\ IsData(f, k) /\ f.data \in Chunk /\ k \in streams
    /\ relay' = [pc |-> "write", id |-> k, data |-> f.data]
    /\ UNCHANGED <<streams, upstream, pump>>
DropsData(f, k) ==
    /\ IsData(f, k) /\ k \notin streams
    /\ UNCHANGED <<relay, streams, upstream, pump>>
TakesClose(f, k) ==
    /\ f.type = "close" /\ CloseAll({k})
    /\ UNCHANGED <<relay, pump>>
TakesBye(f) ==
    /\ f.type = "bye" /\ relay' = [IdleLoop EXCEPT !.pc = "cleanup"]
    /\ UNCHANGED <<streams, upstream, pump>>

LEMMA RelayReads ==
    ASSUME TypeInv, RelayRead
    PROVE  /\ Takes
           /\ Head(c2s) \in UpFrame
           /\ \/ \E k \in Ids : \/ TakesControl(Head(c2s), k) \/ TakesData(Head(c2s), k)
                                \/ DropsData(Head(c2s), k) \/ TakesClose(Head(c2s), k)
              \/ TakesBye(Head(c2s))
  <1> PICK f : f = Head(c2s)
    OBVIOUS
  <1>1. Takes
    BY DEF RelayRead, Takes, clientVars, history
  <1>2. f \in UpFrame /\ f \in Frame
    BY <1>1, WireTaken DEF Takes, TypeInv, TypeOK, Carried, UpFrame
  <1>3. Dispatch(f, IF f.type = "bye" THEN -1 ELSE decodeStreamID(f.head))
    BY DEF RelayRead
  <1> SUFFICES \/ \E k \in Ids : \/ TakesControl(f, k) \/ TakesData(f, k)
                                  \/ DropsData(f, k) \/ TakesClose(f, k)
               \/ TakesBye(f)
    BY <1>1, <1>2
  <1>4. CASE f.type = "bye"
    BY <1>3, <1>4 DEF Dispatch, TakesBye
  <1>5. CASE f.type # "bye"
    <2>1. PICK k \in Ids : f.head = encodeStreamID(k) /\ decodeStreamID(f.head) = k
      BY <1>2, <1>5, FrameParts
    <2>2. Dispatch(f, k)
      BY <1>3, <1>5, <2>1
    <2>3. CASE f.type = "control"
      BY <2>1, <2>2, <2>3 DEF Dispatch, TakesControl, IsControl
    <2>4. CASE f.type = "data" /\ k \in streams
      <3>1. f.data \in Chunk
        BY <1>2, <2>4 DEF UpFrame
      <3> QED
        BY <2>1, <2>2, <2>4, <3>1 DEF Dispatch, TakesData, IsData
    <2>5. CASE f.type = "data" /\ k \notin streams
      BY <2>1, <2>2, <2>5 DEF Dispatch, DropsData, IsData
    <2>6. CASE f.type = "close"
      BY <2>2, <2>6 DEF Dispatch, TakesClose
    <2> QED
      BY <1>2, <1>5, <2>3, <2>4, <2>5, <2>6, FrameParts
  <1> QED
    BY <1>1, <1>2, <1>4, <1>5

LEMMA CloseType ==
    ASSUME TypeOK, NEW S, CloseAll(S)
    PROVE  streams' \subseteq Ids /\ upstream' \in [Ids -> {"none", "open", "gone", "closed"}]
  BY DEF TypeOK, CloseAll

LEMMA RelayReadType ==
    ASSUME TypeInv, RelayRead
    PROVE  TypeInv'
  <1> PICK f : f = Head(c2s)
    OBVIOUS
  <1>1. Takes /\ f \in UpFrame
    BY RelayReads
  <1>2. c2s' \in Seq(UpFrame) /\ Len(c2s') <= WireCap
    BY <1>1, WireTaken DEF Takes, TypeInv, TypeOK, Carried
  <1>3. c2s' \in Seq(Frame)
    BY <1>2, WiresOfFrames
  <1>4. streams' \subseteq Ids /\ upstream' \in [Ids -> {"none", "open", "gone", "closed"}]
        /\ UNCHANGED pump
    BY RelayReads, CloseType DEF TypeInv, TypeOK, TakesControl, TakesData, DropsData, TakesClose,
                                 TakesBye
  <1> DEFINE Good ==
               /\ relay' \in Loop /\ relay'.pc # "push"
               /\ relay'.pc \in {"dial", "write"} => relay'.id \in Ids
               /\ relay'.pc = "write" => relay'.data \in Chunk
  <1>5. Good
    <2>1. ASSUME NEW k \in Ids, TakesControl(f, k) PROVE Good
      BY <2>1, Loops DEF TakesControl
    <2>2. ASSUME NEW k \in Ids, TakesData(f, k) PROVE Good
      BY <2>2, Loops DEF TakesData
    <2>3. ASSUME UNCHANGED relay PROVE Good
      BY <2>3 DEF TypeInv, TypeOK, AtStreams
    <2>4. CASE TakesBye(f)
      BY <2>4, Loops DEF TakesBye
    <2> QED
      BY <2>1, <2>2, <2>3, <2>4, RelayReads DEF DropsData, TakesClose
  <1>6. TypeOK'
    BY <1>1, <1>2, <1>3, <1>4, <1>5 DEF Takes, TypeInv, TypeOK
  <1> QED
    BY <1>1, <1>2, <1>4, <1>5, <1>6 DEF Takes, TypeInv, Carried, AtStreams, Counted, Hold

LEMMA RelayType ==
    ASSUME TypeInv, RelayError \/ Dialled \/ WriteUpstream \/ Cleanup
    PROVE  TypeInv'
  <1> USE DEF clientVars, relayVars, history
  <1>1. CASE RelayError
    <2>1. relay' \in Loop /\ relay'.pc = "cleanup"
      BY <1>1, Loops DEF RelayError
    <2>2. TypeOK'
      BY <1>1, <2>1 DEF RelayError, TypeInv, TypeOK
    <2> QED
      BY <1>1, <2>1, <2>2 DEF RelayError, TypeInv, Carried, AtStreams, Counted, Hold
  <1>2. CASE Dialled
    <2>1. relay.id \in Ids /\ relay' \in Loop /\ relay'.pc = "read"
      BY <1>2, Loops DEF Dialled, TypeInv, AtStreams
    <2>2. /\ streams' \subseteq Ids /\ upstream' \in [Ids -> {"none", "open", "gone", "closed"}]
          /\ pump' \in [Ids -> {"none", "read", "hold", "done"}]
          /\ \A i \in Ids : pump'[i] = "hold" => pump[i] = "hold"
      BY <1>2, <2>1 DEF Dialled, TypeInv, TypeOK
    <2>3. TypeOK'
      BY <1>2, <2>1, <2>2 DEF Dialled, TypeInv, TypeOK
    <2> QED
      BY <1>2, <2>1, <2>2, <2>3 DEF Dialled, TypeInv, Carried, AtStreams, Counted, Hold
  <1>3. CASE WriteUpstream
    <2>1. relay.id \in Ids /\ relay.data \in Chunk /\ relay' \in Loop /\ relay'.pc = "read"
      BY <1>3, Loops DEF WriteUpstream, TypeInv, AtStreams
    <2> PICK q : q = Append(gotUp[relay.id], relay.data)
      OBVIOUS
    <2>2. q \in Seq(Chunk)
      BY <2>1 DEF TypeInv, TypeOK
    <2>3. gotUp' = [gotUp EXCEPT ![relay.id] = q] \/ UNCHANGED gotUp
      BY <1>3 DEF WriteUpstream
    <2>4. gotUp' \in [Ids -> Seq(Chunk)]
      BY <2>2, <2>3 DEF TypeInv, TypeOK
    <2>5. TypeOK'
      BY <1>3, <2>1, <2>4 DEF WriteUpstream, TypeInv, TypeOK
    <2> QED
      BY <1>3, <2>1, <2>5 DEF WriteUpstream, TypeInv, Carried, AtStreams, Counted, Hold
  <1>4. CASE Cleanup
    <2>1. relay' \in Loop /\ relay'.pc = "ended"
      BY <1>4, Loops DEF Cleanup
    <2>2. streams' \subseteq Ids /\ upstream' \in [Ids -> {"none", "open", "gone", "closed"}]
      BY <1>4, CloseType DEF Cleanup, TypeInv
    <2>3. TypeOK'
      BY <1>4, <2>1, <2>2 DEF Cleanup, TypeInv, TypeOK
    <2> QED
      BY <1>4, <2>1, <2>3 DEF Cleanup, TypeInv, Carried, AtStreams, Counted, Hold
  <1> QED
    BY <1>1, <1>2, <1>3, <1>4

LEMMA PumpType ==
    ASSUME TypeInv, NEW i \in Ids, RemoteGone(i) \/ PumpRead(i) \/ PumpWrite(i) \/ PumpClose(i)
    PROVE  TypeInv'
  <1> USE DEF clientVars, relayVars, history
  <1>1. CASE RemoteGone(i)
    <2>1. TypeOK'
      BY <1>1 DEF RemoteGone, TypeInv, TypeOK
    <2> QED
      BY <1>1, <2>1 DEF RemoteGone, TypeInv, Carried, AtStreams, Counted, Hold
  <1>2. CASE PumpRead(i)
    <2> PICK n : n = sentDown[i] + 1
      OBVIOUS
    <2>1. /\ n \in 1 .. MaxChunks /\ n <= chunks + 1
          /\ sentDown' = [sentDown EXCEPT ![i] = n]
          /\ pump' = [pump EXCEPT ![i] = "hold"]
          /\ chunks' = chunks + 1 /\ chunks' \in 0 .. MaxChunks
      BY <1>2, TunnelAssumption DEF PumpRead, CountChunk, TypeInv, TypeOK, Counted
    <2>2. sentDown' \in [Ids -> 0 .. MaxChunks]
      BY <2>1 DEF TypeInv, TypeOK
    <2>3. TypeOK'
      BY <1>2, <2>1, <2>2 DEF PumpRead, TypeInv, TypeOK
    <2>4. Counted'
      BY <1>2, <2>1 DEF PumpRead, TypeInv, TypeOK, Counted
    <2>5. Hold'
      BY <2>1 DEF TypeInv, TypeOK, Hold
    <2> QED
      BY <1>2, <2>3, <2>4, <2>5 DEF PumpRead, TypeInv, Carried, AtStreams
  <1>3. CASE PumpWrite(i)
    <2> PICK f : f = StreamFrame("data", i, [of |-> i, n |-> sentDown[i]])
      OBVIOUS
    <2>1. sentDown[i] \in 1 .. MaxChunks
      BY <1>3 DEF PumpWrite, TypeInv, TypeOK, Hold
    <2>2. f \in DownFrame
      <3>1. [of |-> i, n |-> sentDown[i]] \in Chunk
        BY <2>1 DEF Chunk
      <3> QED
        BY <3>1, FramesTravel
    <2>3. s2c' = Append(s2c, f) /\ Len(s2c) < WireCap
      BY <1>3 DEF PumpWrite
    <2>4. s2c' \in Seq(DownFrame) /\ Len(s2c') = Len(s2c) + 1 /\ Len(s2c) \in Nat
      BY <2>2, <2>3, OnAppend DEF TypeInv, Carried
    <2>5. Len(s2c') <= WireCap
      BY <2>3, <2>4, TunnelAssumption
    <2>6. s2c' \in Seq(Frame)
      BY <2>4, WiresOfFrames
    <2>7. TypeOK'
      BY <1>3, <2>5, <2>6 DEF PumpWrite, TypeInv, TypeOK
    <2>8. Hold'
      BY <1>3 DEF PumpWrite, TypeInv, TypeOK, Hold
    <2> QED
      BY <1>3, <2>4, <2>7, <2>8 DEF PumpWrite, TypeInv, Carried, AtStreams, Counted
  <1>4. CASE PumpClose(i)
    <2>1. streams' \subseteq Ids /\ upstream' \in [Ids -> {"none", "open", "gone", "closed"}]
      BY <1>4, CloseType DEF PumpClose, TypeInv
    <2>2. TypeOK'
      BY <1>4, <2>1 DEF PumpClose, TypeInv, TypeOK
    <2>3. Hold'
      BY <1>4 DEF PumpClose, TypeInv, TypeOK, Hold
    <2> QED
      BY <1>4, <2>2, <2>3 DEF PumpClose, TypeInv, Carried, AtStreams, Counted
  <1> QED
    BY <1>1, <1>2, <1>3, <1>4

LEMMA IdleType ==
    ASSUME TypeInv, UNCHANGED vars
    PROVE  TypeInv'
  <1> USE DEF vars, clientVars, relayVars, history
  <1>1. TypeOK'
    BY DEF TypeInv, TypeOK
  <1> QED
    BY <1>1 DEF TypeInv, Carried, AtStreams, Counted, Hold

LEMMA NextType == TypeInv /\ [Next]_vars => TypeInv'
  <1> SUFFICES ASSUME TypeInv, [Next]_vars PROVE TypeInv'
    OBVIOUS
  <1>1. CASE Register \/ ClientClose \/ Break
    BY <1>1, SessionType
  <1>2. CASE ReadLoop \/ \E i \in Ids : Consume(i)
    BY <1>2, ReadLoopType DEF ReadLoop
  <1>3. CASE RelayLoop
    BY <1>3, RelayReadType, RelayType DEF RelayLoop
  <1>4. CASE \E i \in Ids : Client(i) \/ ReadLocal(i) \/ Forget(i)
    BY <1>4, ClientType DEF Client
  <1>5. CASE \E i \in Ids : Pump(i) \/ RemoteGone(i)
    BY <1>5, PumpType DEF Pump
  <1>6. CASE UNCHANGED vars
    BY <1>6, IdleType
  <1> QED
    BY <1>1, <1>2, <1>3, <1>4, <1>5, <1>6 DEF Next

(* Every variable keeps its type, whatever the goroutines, the network and *)
(* the destinations do.                                                    *)
THEOREM TunnelTypeCorrect == Spec => []TypeInv
  BY InitType, NextType, PTL DEF Spec

-----------------------------------------------------------------------------
(* Streams.  A stream is dialled once, before any of its chunks, and what  *)
(* belongs to a stream that has not been dialled is still as it was.       *)

Clean(q, i) == \A j \in DOMAIN q : ~IsData(q[j], i) /\ ~IsControl(q[j], i)
NoControl(q, i) == \A j \in DOMAIN q : ~IsControl(q[j], i)
ControlFirst(q, i) ==
    \A j \in DOMAIN q : IsControl(q[j], i) =>
        \A k \in DOMAIN q : k # j /\ (IsData(q[k], i) \/ IsControl(q[k], i)) =>
            j < k /\ IsData(q[k], i)

LEMMA ControlAppend ==
    ASSUME NEW S, NEW q \in Seq(S), NEW f \in S, NEW i
    PROVE  LET r == Append(q, f)
           IN  /\ Clean(q, i) => ControlFirst(r, i)
               /\ ~IsControl(f, i) =>
                    /\ NoControl(q, i) => NoControl(r, i)
                    /\ ControlFirst(q, i) => ControlFirst(r, i)
                    /\ ~IsData(f, i) /\ Clean(q, i) => Clean(r, i)
  <1> PICK r : r = Append(q, f)
    OBVIOUS
  <1>1. /\ Len(q) \in Nat /\ DOMAIN r = DOMAIN q \cup {Len(q) + 1} /\ r[Len(q) + 1] = f
        /\ \A j \in DOMAIN q : r[j] = q[j] /\ j \in Nat /\ j < Len(q) + 1
    BY OnAppend
  <1>2. Clean(q, i) => ControlFirst(r, i)
    BY <1>1 DEF Clean, ControlFirst
  <1>3. ~IsControl(f, i) /\ NoControl(q, i) => NoControl(r, i)
    BY <1>1 DEF NoControl
  <1>4. ASSUME ~IsControl(f, i), ControlFirst(q, i) PROVE ControlFirst(r, i)
    <2> SUFFICES ASSUME NEW j \in DOMAIN r, IsControl(r[j], i),
                        NEW k \in DOMAIN r, k # j, IsData(r[k], i) \/ IsControl(r[k], i)
                 PROVE  j < k /\ IsData(r[k], i)
      BY DEF ControlFirst
    <2>1. j \in DOMAIN q /\ r[j] = q[j]
      BY <1>1, <1>4
    <2>2. CASE k \in DOMAIN q
      <3>1. r[k] = q[k]
        BY <1>1, <2>2
      <3> QED
        BY <1>4, <2>1, <2>2, <3>1 DEF ControlFirst
    <2>3. CASE k = Len(q) + 1
      BY <1>1, <1>4, <2>1, <2>3
    <2> QED
      BY <1>1, <2>2, <2>3
  <1>5. ~IsControl(f, i) /\ ~IsData(f, i) /\ Clean(q, i) => Clean(r, i)
    BY <1>1 DEF Clean
  <1> QED
    BY <1>2, <1>3, <1>4, <1>5

LEMMA ControlTail ==
    ASSUME NEW S, NEW q \in Seq(S), q # << >>, NEW i
    PROVE  LET r == Tail(q)
           IN  /\ Clean(q, i) => ~IsData(Head(q), i) /\ ~IsControl(Head(q), i) /\ Clean(r, i)
               /\ NoControl(q, i) => ~IsControl(Head(q), i) /\ NoControl(r, i)
               /\ ~NoControl(q, i) /\ ~IsControl(Head(q), i) => ~NoControl(r, i)
               /\ ControlFirst(q, i) =>
                    /\ ControlFirst(r, i)
                    /\ IsControl(Head(q), i) => NoControl(r, i)
                    /\ IsData(Head(q), i) => NoControl(q, i)
  <1> PICK r : r = Tail(q)
    OBVIOUS
  <1>1. /\ 1 \in DOMAIN q /\ Head(q) = q[1]
        /\ \A j \in DOMAIN r : j \in Nat /\ j + 1 \in DOMAIN q /\ r[j] = q[j + 1]
        /\ \A j \in DOMAIN q : j \in Nat /\ (j # 1 => j > 1 /\ j - 1 \in DOMAIN r /\ r[j - 1] = q[j])
    BY OnTail
  <1>2. Clean(q, i) => ~IsData(Head(q), i) /\ ~IsControl(Head(q), i) /\ Clean(r, i)
    BY <1>1 DEF Clean
  <1>3. NoControl(q, i) => ~IsControl(Head(q), i) /\ NoControl(r, i)
    BY <1>1 DEF NoControl
  <1>4. ~NoControl(q, i) /\ ~IsControl(Head(q), i) => ~NoControl(r, i)
    BY <1>1 DEF NoControl
  <1>5. ASSUME ControlFirst(q, i) PROVE ControlFirst(r, i)
    <2> SUFFICES ASSUME NEW j \in DOMAIN r, IsControl(r[j], i),
                        NEW k \in DOMAIN r, k # j, IsData(r[k], i) \/ IsControl(r[k], i)
                 PROVE  j < k /\ IsData(r[k], i)
      BY DEF ControlFirst
    <2>1. /\ j \in Nat /\ k \in Nat /\ j + 1 \in DOMAIN q /\ k + 1 \in DOMAIN q
          /\ r[j] = q[j + 1] /\ r[k] = q[k + 1] /\ j + 1 # k + 1
      BY <1>1
    <2>2. j + 1 < k + 1 /\ IsData(q[k + 1], i)
      BY <1>5, <2>1 DEF ControlFirst
    <2> QED
      BY <2>1, <2>2
  <1>6. ASSUME ControlFirst(q, i), IsControl(Head(q), i) PROVE NoControl(r, i)
    <2> SUFFICES ASSUME NEW j \in DOMAIN r, IsControl(r[j], i) PROVE FALSE
      BY DEF NoControl
    <2>1. j + 1 \in DOMAIN q /\ r[j] = q[j + 1] /\ j + 1 # 1
      BY <1>1
    <2>2. IsData(q[j + 1], i)
      BY <1>1, <1>6, <2>1 DEF ControlFirst
    <2> QED
      BY <2>1, <2>2 DEF IsData, IsControl
  <1>7. ASSUME ControlFirst(q, i), IsData(Head(q), i) PROVE NoControl(q, i)
    <2> SUFFICES ASSUME NEW j \in DOMAIN q, IsControl(q[j], i) PROVE FALSE
      BY DEF NoControl
    <2>1. j # 1
      BY <1>1, <1>7 DEF IsData, IsControl
    <2>2. j < 1 /\ j > 1
      BY <1>1, <1>7, <2>1 DEF ControlFirst
    <2> QED
      BY <1>1, <2>2
  <1> QED
    BY <1>2, <1>3, <1>4, <1>5, <1>6, <1>7

(* Which stream a frame belongs to.                                        *)
LEMMA FramesOf ==
    ASSUME NEW i \in Ids, NEW k \in Ids, NEW d
    PROVE  /\ ~IsData(StreamFrame("control", k, d), i)
           /\ IsControl(StreamFrame("control", k, d), i) => i = k
           /\ ~IsControl(StreamFrame("data", k, d), i)
           /\ IsData(StreamFrame("data", k, d), i) => i = k
           /\ ~IsData(StreamFrame("close", k, d), i) /\ ~IsControl(StreamFrame("close", k, d), i)
           /\ ~IsData(CloseFrame, i) /\ ~IsControl(CloseFrame, i)
  BY Ids4Bytes DEF IsData, IsControl, StreamFrame, CloseFrame

LEMMA OneStream ==
    ASSUME NEW i \in Ids, NEW k \in Ids, NEW f, IsData(f, k) \/ IsControl(f, k)
    PROVE  /\ IsData(f, i) \/ IsControl(f, i) => i = k
           /\ ~(IsData(f, i) /\ IsControl(f, i))
  BY Ids4Bytes DEF IsData, IsControl

Dialling(i) == relay.pc = "dial" /\ relay.id = i
Writing(i) == relay.pc = "write" /\ relay.id = i
Pushing(i) == read.pc = "push" /\ read.id = i

(* The client hands out the ids in order.                                  *)
Numbered == \A i \in Ids : conn[i] = "none" <=> i >= nextID

(* A stream is in the map of the client only while its pipe is open.       *)
Registered == \A i \in sessions : conn[i] \in {"dial", "open", "failed"}

Undialled(i) ==
    /\ upstream[i] = "none" /\ pump[i] = "none" /\ i \notin streams
    /\ sentDown[i] = 0 /\ gotUp[i] = << >> /\ ~Writing(i)

Unsent(i) == conn[i] \in {"none", "dial", "failed"} =>
    /\ Undialled(i) /\ ~Dialling(i)
    /\ sentUp[i] = 0 /\ holdUp[i] = None
    /\ Clean(c2s, i)

DialledOnce(i) ==
    /\ ControlFirst(c2s, i)
    /\ upstream[i] # "none" => NoControl(c2s, i)
    /\ Dialling(i) => upstream[i] = "none" /\ NoControl(c2s, i)

KnownUpstream(i) ==
    /\ upstream[i] = "none" => Undialled(i)
    /\ upstream[i] \in {"open", "gone"} <=> i \in streams

OnlyDialled == \A j \in DOMAIN s2c : \E i \in Ids : IsData(s2c[j], i) /\ upstream[i] # "none"

Ended == relay.pc = "ended" => streams = {}

StreamOK(i) == Unsent(i) /\ DialledOnce(i) /\ KnownUpstream(i)
StreamInv == Numbered /\ Registered /\ (\A i \in Ids : StreamOK(i)) /\ OnlyDialled /\ Ended

LEMMA InitStream == Init => StreamInv
  <1> SUFFICES ASSUME Init PROVE StreamInv
    OBVIOUS
  <1>1. ASSUME NEW i \in Ids PROVE StreamOK(i)
    BY DEF Init, StreamOK, Unsent, Undialled, DialledOnce, KnownUpstream, Clean, NoControl,
           ControlFirst, Dialling, Writing, IdleLoop
  <1>2. \A i \in Ids : i >= 0
    BY TunnelAssumption DEF Ids
  <1> QED
    BY <1>1, <1>2 DEF Init, StreamInv, Numbered, Registered, OnlyDialled, Ended, IdleLoop

LEMMA RegisterStream ==
    ASSUME TypeInv, StreamInv, Register
    PROVE  StreamInv'
  <1> USE DEF relayVars, history
  <1>1. nextID \in Ids /\ conn[nextID] = "none" /\ conn'[nextID] = "dial"
        /\ \A i \in Ids : i # nextID => conn'[i] = conn[i]
    BY TunnelAssumption DEF Register, TypeInv, TypeOK, Ids, StreamInv, Numbered
  <1>2. Numbered'
    <2> SUFFICES ASSUME NEW i \in Ids PROVE conn'[i] = "none" <=> i >= nextID + 1
      BY DEF Numbered, Register
    <2>1. i \in Int /\ nextID \in Int
      BY <1>1, TunnelAssumption DEF Ids
    <2> QED
      BY <1>1, <2>1 DEF StreamInv, Numbered
  <1>3. Registered'
    BY <1>1 DEF Register, StreamInv, Registered, TypeInv, TypeOK
  <1>4. ASSUME NEW i \in Ids PROVE StreamOK(i)'
    <2>1. conn'[i] \in {"none", "dial", "failed"} => conn[i] \in {"none", "dial", "failed"}
      BY <1>1
    <2> QED
      BY <2>1 DEF Register, StreamInv, StreamOK, Unsent, Undialled, DialledOnce, KnownUpstream,
                  Dialling, Writing
  <1>5. OnlyDialled' /\ Ended'
    BY DEF Register, StreamInv, OnlyDialled, Ended
  <1> QED
    BY <1>2, <1>3, <1>4, <1>5 DEF StreamInv

LEMMA ControlSent ==
    ASSUME TypeInv, NEW f \in UpFrame, ToServer(f), NEW i
    PROVE  /\ Clean(c2s, i) => ControlFirst(c2s', i)
           /\ ~IsControl(f, i) =>
                /\ NoControl(c2s, i) => NoControl(c2s', i)
                /\ ControlFirst(c2s, i) => ControlFirst(c2s', i)
                /\ ~IsData(f, i) /\ Clean(c2s, i) => Clean(c2s', i)
  <1>1. CASE UNCHANGED c2s
    <2>1. Clean(c2s, i) => ControlFirst(c2s, i)
      BY DEF Clean, ControlFirst
    <2> QED
      BY <1>1, <2>1
  <1>2. CASE c2s' = Append(c2s, f)
    BY <1>2, ControlAppend DEF TypeInv, Carried
  <1> QED
    BY <1>1, <1>2 DEF ToServer

LEMMA DialStream ==
    ASSUME TypeInv, StreamInv, NEW k \in Ids, Dial(k)
    PROVE  StreamInv'
  <1> USE DEF relayVars, history
  <1> PICK f : f = StreamFrame("control", k, None)
    OBVIOUS
  <1>1. f \in UpFrame /\ ToServer(f)
    BY FramesTravel DEF Dial
  <1>2. /\ conn[k] = "dial" /\ conn'[k] \in {"failed", "open"}
        /\ broken => UNCHANGED c2s
        /\ ~broken => conn'[k] = "open"
        /\ \A i \in Ids : i # k => conn'[i] = conn[i]
        /\ UNCHANGED <<nextID, sessions, holdUp, read, s2c, broken, relay, streams, upstream, pump,
                       sentUp, gotUp, sentDown, gotDown, chunks>>
    BY DEF Dial, ToServer, TypeInv, TypeOK
  <1>3. ASSUME NEW i \in Ids PROVE StreamOK(i)'
    <2>1. CASE i = k
      <3>1. Undialled(k) /\ ~Dialling(k) /\ sentUp[k] = 0 /\ holdUp[k] = None /\ Clean(c2s, k)
        BY <1>2 DEF StreamInv, StreamOK, Unsent
      <3>2. ControlFirst(c2s', k)
        BY <1>1, <3>1, ControlSent
      <3>3. upstream[k] = "none"
        BY <3>1 DEF Undialled
      <3>4. DialledOnce(k)'
        BY <1>2, <3>1, <3>2, <3>3 DEF DialledOnce, Dialling
      <3>5. Unsent(k)'
        BY <1>2, <3>1 DEF Unsent, Undialled, Dialling, Writing
      <3>6. KnownUpstream(k)'
        BY <1>2 DEF StreamInv, StreamOK, KnownUpstream, Undialled, Writing
      <3> QED
        BY <2>1, <3>4, <3>5, <3>6 DEF StreamOK
    <2>2. CASE i # k
      <3>1. ~IsData(f, i) /\ ~IsControl(f, i)
        BY <2>2, FramesOf
      <3>2. /\ NoControl(c2s, i) => NoControl(c2s', i)
            /\ ControlFirst(c2s, i) => ControlFirst(c2s', i)
            /\ Clean(c2s, i) => Clean(c2s', i)
        BY <1>1, <3>1, ControlSent
      <3> QED
        BY <1>2, <2>2, <3>2 DEF StreamInv, StreamOK, Unsent, Undialled, DialledOnce, KnownUpstream,
                                Dialling, Writing
    <2> QED
      BY <2>1, <2>2
  <1>4. Numbered' /\ Registered'
    BY <1>2 DEF StreamInv, Numbered, Registered, TypeInv, TypeOK
  <1>5. OnlyDialled' /\ Ended'
    BY <1>2 DEF StreamInv, OnlyDialled, Ended
  <1> QED
    BY <1>3, <1>4, <1>5 DEF StreamInv

(* A stream that is open was dialled, and stays so on the client.          *)
LEMMA ClientStream ==
    ASSUME TypeInv, StreamInv, NEW k \in Ids,
           ReadLocal(k) \/ WriteUp(k) \/ Forget(k) \/ HangUp(k)
    PROVE  StreamInv'
  <1> USE DEF relayVars, history
  <1>1. /\ conn[k] \notin {"none", "dial", "failed"}
        /\ conn'[k] \notin {"none", "dial", "failed"}
        /\ \A i \in Ids : i # k => /\ conn'[i] = conn[i] /\ sentUp'[i] = sentUp[i]
                                   /\ holdUp'[i] = holdUp[i]
        /\ UNCHANGED <<nextID, read, s2c, broken, relay, streams, upstream, pump,
                       gotUp, sentDown, gotDown>>
    <2>1. CASE ReadLocal(k)
      BY <2>1 DEF ReadLocal, TypeInv, TypeOK
    <2>2. CASE WriteUp(k)
      <3>1. conn[k] \notin {"none", "dial", "failed"}
        BY <2>2 DEF WriteUp, StreamInv, StreamOK, Unsent
      <3> QED
        BY <2>2, <3>1 DEF WriteUp, TypeInv, TypeOK
    <2>3. CASE Forget(k)
      BY <2>3 DEF Forget, TypeInv, TypeOK
    <2>4. CASE HangUp(k)
      BY <2>4 DEF HangUp, TypeInv, TypeOK
    <2> QED
      BY <2>1, <2>2, <2>3, <2>4
  <1>2. ASSUME NEW i \in Ids
        PROVE  /\ NoControl(c2s, i) => NoControl(c2s', i)
               /\ ControlFirst(c2s, i) => ControlFirst(c2s', i)
               /\ i # k /\ Clean(c2s, i) => Clean(c2s', i)
    <2>1. CASE UNCHANGED c2s
      BY <2>1
    <2>2. CASE WriteUp(k)
      <3> PICK f : f = StreamFrame("data", k, holdUp[k])
        OBVIOUS
      <3>1. holdUp[k] \in Chunk
        BY <2>2 DEF WriteUp, TypeInv, TypeOK
      <3>2. f \in UpFrame /\ ToServer(f)
        BY <2>2, <3>1, FramesTravel DEF WriteUp
      <3>3. ~IsControl(f, i) /\ (i # k => ~IsData(f, i))
        BY FramesOf
      <3> QED
        BY <3>2, <3>3, ControlSent
    <2>3. CASE HangUp(k)
      <3> PICK f : f = StreamFrame("close", k, None)
        OBVIOUS
      <3>1. f \in UpFrame /\ ToServer(f)
        BY <2>3, FramesTravel DEF HangUp
      <3>2. ~IsControl(f, i) /\ ~IsData(f, i)
        BY FramesOf
      <3> QED
        BY <3>1, <3>2, ControlSent
    <2> QED
      BY <2>1, <2>2, <2>3 DEF ReadLocal, Forget
  <1>3. ASSUME NEW i \in Ids PROVE StreamOK(i)'
    <2>1. Unsent(i)'
      BY <1>1, <1>2 DEF StreamInv, StreamOK, Unsent, Undialled, Dialling, Writing
    <2>2. DialledOnce(i)' /\ KnownUpstream(i)'
      BY <1>1, <1>2 DEF StreamInv, StreamOK, Undialled, DialledOnce, KnownUpstream, Dialling, Writing
    <2> QED
      BY <2>1, <2>2 DEF StreamOK
  <1>4. Numbered'
    BY <1>1 DEF StreamInv, Numbered, TypeInv, TypeOK
  <1>5. Registered'
    <2>1. CASE Forget(k)
      BY <2>1 DEF Forget, StreamInv, Registered, TypeInv, TypeOK
    <2>2. CASE HangUp(k)
      BY <2>2 DEF HangUp, StreamInv, Registered, TypeInv, TypeOK
    <2> QED
      BY <2>1, <2>2 DEF ReadLocal, WriteUp, StreamInv, Registered
  <1>6. OnlyDialled' /\ Ended'
    BY <1>1 DEF StreamInv, OnlyDialled, Ended
  <1> QED
    BY <1>3, <1>4, <1>5, <1>6 DEF StreamInv

LEMMA ClientCloseStream ==
    ASSUME TypeInv, StreamInv, ClientClose
    PROVE  StreamInv'
  <1> USE DEF clientVars, relayVars, history
  <1>1. CloseFrame \in UpFrame /\ ToServer(CloseFrame)
    BY CloseTravels DEF ClientClose
  <1>2. ASSUME NEW i \in Ids PROVE StreamOK(i)'
    <2>1. ~IsData(CloseFrame, i) /\ ~IsControl(CloseFrame, i)
      BY FramesOf
    <2>2. /\ NoControl(c2s, i) => NoControl(c2s', i)
          /\ ControlFirst(c2s, i) => ControlFirst(c2s', i)
          /\ Clean(c2s, i) => Clean(c2s', i)
      BY <1>1, <2>1, ControlSent
    <2> QED
      BY <2>2 DEF ClientClose, StreamInv, StreamOK, Unsent, Undialled, DialledOnce, KnownUpstream,
                  Dialling, Writing
  <1> QED
    BY <1>2 DEF ClientClose, StreamInv, Numbered, Registered, OnlyDialled, Ended

(* Steps that leave the streams and the way to the server alone.           *)
LEMMA ElsewhereStream ==
    ASSUME StreamInv,
           UNCHANGED <<nextID, sessions, conn, holdUp, c2s, s2c, relay, streams, upstream, pump,
                       sentUp, gotUp, sentDown>>
    PROVE  StreamInv'
  BY DEF StreamInv, Numbered, Registered, StreamOK, Unsent, Undialled, DialledOnce, KnownUpstream,
         OnlyDialled, Ended, Dialling, Writing

LEMMA ReceiveStream ==
    ASSUME TypeInv, StreamInv, Receive
    PROVE  StreamInv'
  <1> USE DEF relayVars, history
  <1>1. s2c # << >> /\ s2c' = Tail(s2c)
        /\ UNCHANGED <<nextID, sessions, conn, holdUp, c2s, relay, streams, upstream, pump,
                       sentUp, gotUp, sentDown>>
    BY DEF Receive
  <1>2. \A j \in DOMAIN s2c' : j + 1 \in DOMAIN s2c /\ s2c'[j] = s2c[j + 1]
    BY <1>1, OnTail DEF TypeInv, Carried
  <1>3. OnlyDialled'
    BY <1>1, <1>2 DEF StreamInv, OnlyDialled
  <1> QED
    BY <1>1, <1>3 DEF StreamInv, Numbered, Registered, StreamOK, Unsent, Undialled, DialledOnce,
                      KnownUpstream, Ended, Dialling, Writing

LEMMA ClosesStreams ==
    ASSUME TypeInv, StreamInv, NEW S, CloseAll(S)
    PROVE  /\ streams' \subseteq streams
           /\ \A i \in Ids : /\ upstream'[i] = "none" <=> upstream[i] = "none"
                             /\ upstream'[i] \in {"open", "gone"} <=> i \in streams'
                             /\ upstream'[i] = "open" => upstream[i] = "open"
  BY DEF CloseAll, StreamInv, StreamOK, KnownUpstream, TypeInv, TypeOK

LEMMA RelayReadStream ==
    ASSUME TypeInv, StreamInv, RelayRead
    PROVE  StreamInv'
  <1> PICK f : f = Head(c2s)
    OBVIOUS
  <1>1. /\ relay.pc = "read" /\ c2s # << >> /\ c2s' = Tail(c2s)
        /\ UNCHANGED <<nextID, sessions, conn, holdUp, read, s2c, broken,
                       sentUp, gotUp, sentDown, gotDown, chunks>>
    BY RelayReads DEF Takes
  <1>2. ASSUME NEW i \in Ids
        PROVE  /\ Clean(c2s, i) => ~IsData(f, i) /\ ~IsControl(f, i) /\ Clean(c2s', i)
               /\ NoControl(c2s, i) => ~IsControl(f, i) /\ NoControl(c2s', i)
               /\ ControlFirst(c2s', i)
               /\ IsControl(f, i) => NoControl(c2s', i) /\ ~NoControl(c2s, i)
    <2>1. ControlFirst(c2s, i)
      BY DEF StreamInv, StreamOK, DialledOnce
    <2>2. c2s \in Seq(UpFrame)
      BY DEF TypeInv, Carried
    <2> QED
      BY <1>1, <2>1, <2>2, ControlTail
  <1>3. CASE \E k \in Ids : TakesControl(f, k)
    <2> PICK k \in Ids : TakesControl(f, k)
      BY <1>3
    <2>1. /\ IsControl(f, k) /\ relay'.pc = "dial" /\ relay'.id = k
          /\ UNCHANGED <<streams, upstream, pump>>
      BY DEF TakesControl
    <2>2. upstream[k] = "none" /\ NoControl(c2s', k)
      BY <1>2, <2>1 DEF StreamInv, StreamOK, DialledOnce
    <2>3. ASSUME NEW i \in Ids PROVE StreamOK(i)'
      <3>1. DialledOnce(i)'
        BY <1>1, <1>2, <2>1, <2>2 DEF StreamInv, StreamOK, DialledOnce, Dialling
      <3>2. Unsent(i)'
        BY <1>1, <1>2, <2>1 DEF StreamInv, StreamOK, Unsent, Undialled, Dialling, Writing
      <3>3. KnownUpstream(i)'
        BY <1>1, <2>1 DEF StreamInv, StreamOK, KnownUpstream, Undialled, Writing
      <3> QED
        BY <3>1, <3>2, <3>3 DEF StreamOK
    <2> QED
      BY <1>1, <2>1, <2>3 DEF StreamInv, Numbered, Registered, OnlyDialled, Ended
  <1>4. CASE \E k \in Ids : TakesData(f, k)
    <2> PICK k \in Ids : TakesData(f, k)
      BY <1>4
    <2>1. /\ IsData(f, k) /\ relay'.pc = "write" /\ relay'.id = k /\ k \in streams
          /\ UNCHANGED <<streams, upstream, pump>>
      BY DEF TakesData
    <2>2. ASSUME NEW i \in Ids PROVE StreamOK(i)'
      <3>1. DialledOnce(i)'
        BY <1>1, <1>2, <2>1 DEF StreamInv, StreamOK, DialledOnce, Dialling
      <3>2. Unsent(i)'
        BY <1>1, <1>2, <2>1 DEF StreamInv, StreamOK, Unsent, Undialled, Dialling, Writing
      <3>3. KnownUpstream(i)'
        BY <1>1, <2>1 DEF StreamInv, StreamOK, KnownUpstream, Undialled, Writing
      <3> QED
        BY <3>1, <3>2, <3>3 DEF StreamOK
    <2> QED
      BY <1>1, <2>1, <2>2 DEF StreamInv, Numbered, Registered, OnlyDialled, Ended
  <1>5. CASE \E k \in Ids : DropsData(f, k)
    <2>1. UNCHANGED <<relay, streams, upstream, pump>>
      BY <1>5 DEF DropsData
    <2>2. ASSUME NEW i \in Ids PROVE StreamOK(i)'
      BY <1>1, <1>2, <2>1 DEF StreamInv, StreamOK, Unsent, Undialled, DialledOnce, KnownUpstream,
                              Dialling, Writing
    <2> QED
      BY <1>1, <2>1, <2>2 DEF StreamInv, Numbered, Registered, OnlyDialled, Ended
  <1>6. CASE \E k \in Ids : TakesClose(f, k)
    <2>1. UNCHANGED <<relay, pump>>
      BY <1>6 DEF TakesClose
    <2>2. /\ streams' \subseteq streams
          /\ \A i \in Ids : /\ upstream'[i] = "none" <=> upstream[i] = "none"
                            /\ upstream'[i] \in {"open", "gone"} <=> i \in streams'
      BY <1>6, ClosesStreams DEF TakesClose
    <2>3. ASSUME NEW i \in Ids PROVE StreamOK(i)'
      BY <1>1, <1>2, <2>1, <2>2 DEF StreamInv, StreamOK, Unsent, Undialled, DialledOnce,
                                    KnownUpstream, Dialling, Writing
    <2> QED
      BY <1>1, <2>1, <2>2, <2>3 DEF StreamInv, Numbered, Registered, OnlyDialled, Ended
  <1>7. CASE TakesBye(f)
    <2>1. relay'.pc = "cleanup" /\ UNCHANGED <<streams, upstream, pump>>
      BY <1>7, Loops DEF TakesBye
    <2>2. ASSUME NEW i \in Ids PROVE StreamOK(i)'
      BY <1>1, <1>2, <2>1 DEF StreamInv, StreamOK, Unsent, Undialled, DialledOnce, KnownUpstream,
                              Dialling, Writing
    <2> QED
      BY <1>1, <2>1, <2>2 DEF StreamInv, Numbered, Registered, OnlyDialled, Ended
  <1> QED
    BY <1>3, <1>4, <1>5, <1>6, <1>7, RelayReads

LEMMA RelayStream ==
    ASSUME TypeInv, StreamInv, RelayError \/ Dialled \/ WriteUpstream \/ Cleanup
    PROVE  StreamInv'
  <1> USE DEF clientVars, relayVars, history
  <1>1. CASE RelayError
    <2>1. relay'.pc = "cleanup" /\ UNCHANGED <<nextID, sessions, conn, holdUp, c2s, s2c, streams,
             upstream, pump, sentUp, gotUp, sentDown>>
      BY <1>1, Loops DEF RelayError
    <2> QED
      BY <2>1 DEF StreamInv, Numbered, Registered, StreamOK, Unsent, Undialled, DialledOnce,
                  KnownUpstream, OnlyDialled, Ended, Dialling, Writing
  <1>2. CASE Dialled
    <2> PICK k \in Ids : k = relay.id /\ Dialling(k)
      BY <1>2 DEF Dialled, TypeInv, AtStreams, Dialling
    <2>1. relay'.pc = "read" /\ UNCHANGED <<nextID, sessions, conn, holdUp, c2s, s2c,
             sentUp, gotUp, sentDown>>
      BY <1>2, Loops DEF Dialled
    <2>2. /\ \A i \in Ids : i # k => /\ upstream'[i] = upstream[i] /\ pump'[i] = pump[i]
                                     /\ (i \in streams' <=> i \in streams)
          /\ \/ UNCHANGED <<streams, upstream, pump>>
             \/ upstream'[k] = "open" /\ k \in streams'
      BY <1>2 DEF Dialled, TypeInv, TypeOK
    <2>3. upstream[k] = "none" /\ NoControl(c2s, k) /\ conn[k] \notin {"none", "dial", "failed"}
      BY DEF StreamInv, StreamOK, DialledOnce, Unsent
    <2>4. ASSUME NEW i \in Ids PROVE StreamOK(i)'
      <3>1. CASE i = k
        <4>1. DialledOnce(k)' /\ Unsent(k)'
          BY <2>1, <2>3 DEF StreamInv, StreamOK, DialledOnce, Unsent, Dialling
        <4>2. KnownUpstream(k)'
          <5>1. CASE UNCHANGED <<streams, upstream, pump>>
            BY <2>1, <5>1 DEF StreamInv, StreamOK, KnownUpstream, Undialled, Writing
          <5>2. CASE upstream'[k] = "open" /\ k \in streams'
            BY <5>2 DEF KnownUpstream
          <5> QED
            BY <2>2, <5>1, <5>2
        <4> QED
          BY <3>1, <4>1, <4>2 DEF StreamOK
      <3>2. CASE i # k
        BY <2>1, <2>2, <3>2 DEF StreamInv, StreamOK, Unsent, Undialled, DialledOnce, KnownUpstream,
                                Dialling, Writing
      <3> QED
        BY <3>1, <3>2
    <2>5. OnlyDialled'
      BY <2>1, <2>2 DEF StreamInv, OnlyDialled
    <2> QED
      BY <2>1, <2>4, <2>5 DEF StreamInv, Numbered, Registered, Ended
  <1>3. CASE WriteUpstream
    <2>1. relay.pc = "write" /\ relay'.pc = "read"
          /\ UNCHANGED <<nextID, sessions, conn, holdUp, c2s, s2c, streams, upstream, pump,
                         sentUp, sentDown>>
      BY <1>3, Loops DEF WriteUpstream
    <2>2. \A i \in Ids : upstream[i] = "none" => gotUp'[i] = gotUp[i]
      BY <1>3 DEF WriteUpstream, TypeInv, TypeOK
    <2>3. ASSUME NEW i \in Ids PROVE StreamOK(i)'
      BY <2>1, <2>2 DEF StreamInv, StreamOK, Unsent, Undialled, DialledOnce, KnownUpstream,
                        Dialling, Writing
    <2> QED
      BY <2>1, <2>3 DEF StreamInv, Numbered, Registered, OnlyDialled, Ended
  <1>4. CASE Cleanup
    <2>1. relay'.pc = "ended" /\ UNCHANGED <<nextID, sessions, conn, holdUp, c2s, s2c, pump,
             sentUp, gotUp, sentDown>>
      BY <1>4, Loops DEF Cleanup
    <2>2. /\ streams' \subseteq streams
          /\ \A i \in Ids : /\ upstream'[i] = "none" <=> upstream[i] = "none"
                            /\ upstream'[i] \in {"open", "gone"} <=> i \in streams'
      BY <1>4, ClosesStreams DEF Cleanup
    <2>3. streams' = {}
      BY <1>4 DEF Cleanup, CloseAll
    <2>4. ASSUME NEW i \in Ids PROVE StreamOK(i)'
      BY <2>1, <2>2 DEF StreamInv, StreamOK, Unsent, Undialled, DialledOnce, KnownUpstream,
                        Dialling, Writing
    <2> QED
      BY <2>1, <2>2, <2>3, <2>4 DEF StreamInv, Numbered, Registered, OnlyDialled, Ended
  <1> QED
    BY <1>1, <1>2, <1>3, <1>4

LEMMA PumpStream ==
    ASSUME TypeInv, StreamInv, NEW k \in Ids,
           RemoteGone(k) \/ PumpRead(k) \/ PumpWrite(k) \/ PumpClose(k)
    PROVE  StreamInv'
  <1> USE DEF clientVars, relayVars, history
  <1>1. upstream[k] # "none"
    BY DEF RemoteGone, PumpRead, PumpWrite, PumpClose, StreamInv, StreamOK, KnownUpstream, Undialled
  <1>2. /\ UNCHANGED <<nextID, sessions, conn, holdUp, c2s, relay, sentUp, gotUp>>
        /\ streams' \subseteq streams
        /\ \A i \in Ids : /\ upstream'[i] = "none" <=> upstream[i] = "none"
                          /\ upstream'[i] \in {"open", "gone"} <=> i \in streams'
                          /\ i # k => pump'[i] = pump[i] /\ sentDown'[i] = sentDown[i]
    <2>1. CASE RemoteGone(k)
      BY <2>1 DEF RemoteGone, TypeInv, TypeOK, StreamInv, StreamOK, KnownUpstream
    <2>2. CASE PumpRead(k)
      BY <2>2 DEF PumpRead, TypeInv, TypeOK, StreamInv, StreamOK, KnownUpstream
    <2>3. CASE PumpWrite(k)
      BY <2>3 DEF PumpWrite, TypeInv, TypeOK, StreamInv, StreamOK, KnownUpstream
    <2>4. CASE PumpClose(k)
      BY <2>4, ClosesStreams DEF PumpClose, TypeInv, TypeOK
    <2> QED
      BY <2>1, <2>2, <2>3, <2>4
  <1>3. ASSUME NEW i \in Ids PROVE StreamOK(i)'
    <2>1. Undialled(i) => Undialled(i)'
      BY <1>2, <1>1 DEF Undialled, Writing
    <2> QED
      BY <1>2, <2>1 DEF StreamInv, StreamOK, Unsent, DialledOnce, KnownUpstream, Dialling
  <1>4. OnlyDialled'
    <2>1. CASE UNCHANGED s2c
      BY <1>2, <2>1 DEF StreamInv, OnlyDialled
    <2>2. CASE PumpWrite(k)
      <3> PICK f : f = StreamFrame("data", k, [of |-> k, n |-> sentDown[k]])
        OBVIOUS
      <3>1. s2c' = Append(s2c, f)
        BY <2>2 DEF PumpWrite
      <3>2. IsData(f, k)
        BY DEF IsData, StreamFrame
      <3>3. \A j \in DOMAIN s2c' : (j \in DOMAIN s2c /\ s2c'[j] = s2c[j]) \/ s2c'[j] = f
        BY <3>1 DEF TypeInv, TypeOK
      <3> QED
        BY <1>2, <1>1, <3>2, <3>3 DEF StreamInv, OnlyDialled
    <2> QED
      BY <2>1, <2>2 DEF RemoteGone, PumpRead, PumpClose
  <1> QED
    BY <1>2, <1>3, <1>4 DEF StreamInv, Numbered, Registered, Ended

LEMMA NextStream == TypeInv /\ StreamInv /\ [Next]_vars => StreamInv'
  <1> SUFFICES ASSUME TypeInv, StreamInv, [Next]_vars PROVE StreamInv'
    OBVIOUS
  <1>1. CASE Register
    BY <1>1, RegisterStream
  <1>2. CASE ReceiveError \/ PushFails \/ Break \/ (\E i \in Ids : Consume(i)) \/ UNCHANGED vars
    <2>1. UNCHANGED <<nextID, sessions, conn, holdUp, c2s, s2c, relay, streams, upstream, pump,
                      sentUp, gotUp, sentDown>>
      BY <1>2 DEF ReceiveError, PushFails, Break, Consume, vars, clientVars, relayVars, history
    <2> QED
      BY <2>1, ElsewhereStream
  <1>3. CASE Receive
    BY <1>3, ReceiveStream
  <1>4. CASE ClientClose
    BY <1>4, ClientCloseStream
  <1>5. CASE RelayLoop
    BY <1>5, RelayReadStream, RelayStream DEF RelayLoop
  <1>6. CASE \E i \in Ids : Client(i) \/ ReadLocal(i) \/ Forget(i)
    BY <1>6, DialStream, ClientStream DEF Client
  <1>7. CASE \E i \in Ids : Pump(i) \/ RemoteGone(i)
    BY <1>7, PumpStream DEF Pump
  <1> QED
    BY <1>1, <1>2, <1>3, <1>4, <1>5, <1>6, <1>7 DEF Next, ReadLoop

(* A stream is dialled at most once and before its first chunk, and what   *)
(* the relay knows of it agrees with the connection it holds.              *)
THEOREM StreamInvariant == Spec => [](TypeInv /\ StreamInv)
  <1>1. Init => TypeInv /\ StreamInv
    BY InitType, InitStream
  <1>2. TypeInv /\ StreamInv /\ [Next]_vars => (TypeInv /\ StreamInv)'
    BY NextType, NextStream
  <1> QED
    BY <1>1, <1>2, PTL DEF Spec

(* The relay holds no connection that its map does not know, and none once *)
(* the session has been cleaned up.                                        *)
THEOREM NoUpstreamLeaks == Spec => []NoUpstreamLeak
  <1>1. StreamInv => NoUpstreamLeak
    BY DEF StreamInv, StreamOK, KnownUpstream, Ended, NoUpstreamLeak
  <1> QED
    BY <1>1, StreamInvariant, PTL

-----------------------------------------------------------------------------
(* The way up.  While a stream flows, the chunks that its destination has  *)
(* not got yet are on the wire, in order and without a gap: a stream that  *)
(* has stopped to flow never flows again, and after the failure of the     *)
(* WebSocket nothing goes onto the wire.                                   *)

(* What has arrived on stream i are its first chunks.                      *)
Arrived(got, count, i) ==
    /\ Len(got[i]) <= count[i]
    /\ \A k \in DOMAIN got[i] : got[i][k] = [of |-> i, n |-> k]

Held(i) == holdUp[i] # None => holdUp[i] = [of |-> i, n |-> sentUp[i]] /\ sentUp[i] > 0

UpTo(i) == IF holdUp[i] = None THEN sentUp[i] ELSE sentUp[i] - 1
UpPassed(i) == IF Writing(i) THEN Len(gotUp[i]) + 1 ELSE Len(gotUp[i])

Flowing(i) ==
    \/ upstream[i] = "open"
    \/ conn[i] \in {"none", "dial"} \/ Dialling(i) \/ ~NoControl(c2s, i)

UpWrite(i) == Writing(i) /\ upstream[i] = "open" =>
    relay.data = [of |-> i, n |-> Len(gotUp[i]) + 1]

UpWire(i) == Flowing(i) =>
    /\ UpPassed(i) <= UpTo(i)
    /\ InOrder(c2s, i, UpPassed(i), UpTo(i))
    /\ broken \/ AllThere(c2s, i, UpPassed(i), UpTo(i))

UpOK(i) == Held(i) /\ Arrived(gotUp, sentUp, i) /\ UpWrite(i) /\ UpWire(i)
UpInv == \A i \in Ids : UpOK(i)

LEMMA UpCounts ==
    ASSUME TypeInv, NEW i \in Ids, Held(i)
    PROVE  UpTo(i) \in Nat /\ UpPassed(i) \in Nat /\ Len(gotUp[i]) \in Nat /\ sentUp[i] \in Nat
           /\ UpTo(i) <= sentUp[i]
  <1>1. sentUp[i] \in Nat /\ Len(gotUp[i]) \in Nat
    BY DEF TypeInv, TypeOK
  <1> QED
    BY <1>1 DEF Held, UpTo, UpPassed

LEMMA InitUp == Init => UpInv
  <1> SUFFICES ASSUME Init, NEW i \in Ids PROVE UpOK(i)
    BY DEF UpInv
  <1>1. /\ holdUp[i] = None /\ sentUp[i] = 0 /\ gotUp[i] = << >> /\ c2s = << >> /\ ~Writing(i)
        /\ Len(gotUp[i]) = 0 /\ DOMAIN gotUp[i] = {} /\ DOMAIN c2s = {}
    BY DEF Init, Writing, IdleLoop
  <1>2. UpTo(i) = 0 /\ UpPassed(i) = 0
    BY <1>1 DEF UpTo, UpPassed
  <1>3. InOrder(c2s, i, 0, 0) /\ AllThere(c2s, i, 0, 0)
    BY <1>1, NothingThere
  <1> QED
    BY <1>1, <1>2, <1>3 DEF UpOK, Held, Arrived, UpWrite, UpWire

(* A step that puts no chunk of the stream onto the wire, takes none off   *)
(* and delivers none.                                                      *)
UpSame(i) ==
    /\ holdUp'[i] = holdUp[i] /\ sentUp'[i] = sentUp[i] /\ gotUp'[i] = gotUp[i]
    /\ UNCHANGED relay \/ (~Writing(i) /\ ~Writing(i)')
    /\ broken => broken'
    /\ upstream'[i] = "open" => upstream[i] = "open" \/ ~Writing(i)
    /\ Flowing(i)' => Flowing(i)

UpWireSame(i) ==
    \/ UNCHANGED c2s
    \/ \E f \in UpFrame : c2s' = Append(c2s, f) /\ ~IsData(f, i)
    \/ c2s # << >> /\ c2s' = Tail(c2s) /\ ~IsData(Head(c2s), i)

LEMMA UpQuiet ==
    ASSUME TypeInv, NEW i \in Ids, UpOK(i), UpSame(i), UpWireSame(i)
    PROVE  UpOK(i)'
  <1>1. UpTo(i) \in Nat /\ UpPassed(i) \in Nat
    BY UpCounts DEF UpOK
  <1>2. Held(i)' /\ Arrived(gotUp, sentUp, i)'
    BY DEF UpOK, UpSame, Held, Arrived
  <1>3. UpTo(i)' = UpTo(i)
    BY DEF UpSame, UpTo
  <1>4. UpPassed(i)' = UpPassed(i)
    BY DEF UpSame, UpPassed, Writing
  <1>5. UpWrite(i)'
    BY DEF UpOK, UpSame, UpWrite, Writing
  <1>6. /\ InOrder(c2s, i, UpPassed(i), UpTo(i)) => InOrder(c2s', i, UpPassed(i), UpTo(i))
        /\ AllThere(c2s, i, UpPassed(i), UpTo(i)) => AllThere(c2s', i, UpPassed(i), UpTo(i))
    <2> PICK p \in Nat, u \in Nat : p = UpPassed(i) /\ u = UpTo(i)
      BY <1>1
    <2>1. c2s \in Seq(UpFrame)
      BY DEF TypeInv, Carried
    <2> SUFFICES /\ InOrder(c2s, i, p, u) => InOrder(c2s', i, p, u)
                 /\ AllThere(c2s, i, p, u) => AllThere(c2s', i, p, u)
      OBVIOUS
    <2>2. CASE UNCHANGED c2s
      BY <2>2
    <2>3. ASSUME NEW f \in UpFrame, c2s' = Append(c2s, f), ~IsData(f, i)
          PROVE  /\ InOrder(c2s, i, p, u) => InOrder(c2s', i, p, u)
                 /\ AllThere(c2s, i, p, u) => AllThere(c2s', i, p, u)
      BY <2>1, <2>3, AppendOther
    <2>4. CASE c2s # << >> /\ c2s' = Tail(c2s) /\ ~IsData(Head(c2s), i)
      BY <2>1, <2>4, TailOther
    <2> QED
      BY <2>2, <2>3, <2>4 DEF UpWireSame
  <1>7. UpWire(i)'
    BY <1>3, <1>4, <1>6 DEF UpOK, UpSame, UpWire
  <1> QED
    BY <1>2, <1>5, <1>7 DEF UpOK

(* The client's steps.                                                     *)
LEMMA RegisterUp ==
    ASSUME TypeInv, StreamInv, UpInv, Register, NEW i \in Ids
    PROVE  UpOK(i)'
  <1> USE DEF relayVars, history
  <1>1. nextID \in Ids /\ conn[nextID] = "none"
        /\ \A j \in Ids : j # nextID => conn'[j] = conn[j]
    BY TunnelAssumption DEF Register, TypeInv, TypeOK, Ids, StreamInv, Numbered
  <1>2. UpSame(i)
    BY <1>1 DEF Register, UpSame, Flowing, Dialling, Writing
  <1> QED
    BY <1>2, UpQuiet DEF Register, UpInv, UpWireSame

LEMMA SendOtherUp ==
    ASSUME TypeInv, NEW f \in UpFrame, ToServer(f), NEW i \in Ids, ~IsData(f, i)
    PROVE  UpWireSame(i) /\ (~IsControl(f, i) => (NoControl(c2s, i) => NoControl(c2s', i)))
  BY ControlSent DEF ToServer, UpWireSame

LEMMA ClientUp ==
    ASSUME TypeInv, StreamInv, UpInv, NEW k \in Ids, NEW i \in Ids,
           Dial(k) \/ Forget(k) \/ HangUp(k) \/ (i # k /\ (ReadLocal(k) \/ WriteUp(k)))
    PROVE  UpOK(i)'
  <1> USE DEF relayVars, history
  <1>1. UpWireSame(i) /\ (Flowing(i)' => Flowing(i))
    <2>1. CASE Dial(k)
      <3> PICK f : f = StreamFrame("control", k, None)
        OBVIOUS
      <3>1. f \in UpFrame /\ ToServer(f) /\ ~IsData(f, i) /\ (IsControl(f, i) => i = k)
        BY <2>1, FramesTravel, FramesOf DEF Dial
      <3>2. UpWireSame(i) /\ (~IsControl(f, i) => (NoControl(c2s, i) => NoControl(c2s', i)))
        BY <3>1, SendOtherUp
      <3>3. conn[k] = "dial" /\ (i # k => conn'[i] = conn[i]) /\ UNCHANGED <<relay, upstream>>
        BY <2>1 DEF Dial, TypeInv, TypeOK
      <3> QED
        BY <3>1, <3>2, <3>3 DEF Flowing, Dialling
    <2>2. CASE HangUp(k)
      <3> PICK f : f = StreamFrame("close", k, None)
        OBVIOUS
      <3>1. f \in UpFrame /\ ToServer(f) /\ ~IsData(f, i) /\ ~IsControl(f, i)
        BY <2>2, FramesTravel, FramesOf DEF HangUp
      <3>2. UpWireSame(i) /\ (NoControl(c2s, i) => NoControl(c2s', i))
        BY <3>1, SendOtherUp
      <3>3. conn'[i] \in {"none", "dial"} => conn[i] \in {"none", "dial"}
        BY <2>2 DEF HangUp, TypeInv, TypeOK
      <3> QED
        BY <2>2, <3>2, <3>3 DEF HangUp, Flowing, Dialling
    <2>3. CASE WriteUp(k) /\ i # k
      <3> PICK f : f = StreamFrame("data", k, holdUp[k])
        OBVIOUS
      <3>1. holdUp[k] \in Chunk
        BY <2>3 DEF WriteUp, TypeInv, TypeOK
      <3>2. f \in UpFrame /\ ToServer(f) /\ ~IsData(f, i) /\ ~IsControl(f, i)
        BY <2>3, <3>1, FramesTravel, FramesOf DEF WriteUp
      <3>3. UpWireSame(i) /\ (NoControl(c2s, i) => NoControl(c2s', i))
        BY <3>2, SendOtherUp
      <3> QED
        BY <2>3, <3>3 DEF WriteUp, Flowing, Dialling
    <2>4. CASE Forget(k)
      <3>1. conn'[i] \in {"none", "dial"} => conn[i] \in {"none", "dial"}
        BY <2>4 DEF Forget, TypeInv, TypeOK
      <3> QED
        BY <2>4, <3>1 DEF Forget, UpWireSame, Flowing, Dialling
    <2>5. CASE ReadLocal(k)
      BY <2>5 DEF ReadLocal, UpWireSame, Flowing, Dialling
    <2> QED
      BY <2>1, <2>2, <2>3, <2>4, <2>5
  <1>2. /\ holdUp'[i] = holdUp[i] /\ sentUp'[i] = sentUp[i]
        /\ UNCHANGED <<relay, broken, upstream, gotUp>>
    <2>1. CASE Dial(k) \/ HangUp(k) \/ Forget(k)
      BY <2>1 DEF Dial, HangUp, Forget
    <2>2. CASE ReadLocal(k) /\ i # k
      BY <2>2 DEF ReadLocal, TypeInv, TypeOK
    <2>3. CASE WriteUp(k) /\ i # k
      BY <2>3 DEF WriteUp, TypeInv, TypeOK
    <2> QED
      BY <2>1, <2>2, <2>3
  <1>3. UpSame(i)
    BY <1>1, <1>2 DEF UpSame
  <1> QED
    BY <1>1, <1>3, UpQuiet DEF UpInv

LEMMA ReadLocalUp ==
    ASSUME TypeInv, StreamInv, UpInv, NEW i \in Ids, ReadLocal(i)
    PROVE  UpOK(i)'
  <1> USE DEF relayVars, history
  <1>1. UpOK(i) /\ holdUp[i] = None /\ sentUp[i] \in Nat
    BY DEF UpInv, ReadLocal, TypeInv, TypeOK
  <1>2. /\ sentUp'[i] = sentUp[i] + 1 /\ holdUp'[i] = [of |-> i, n |-> sentUp'[i]]
        /\ UNCHANGED <<conn, c2s, broken, relay, upstream, gotUp>>
    BY DEF ReadLocal, TypeInv, TypeOK
  <1>3. sentUp'[i] > 0 /\ holdUp'[i] # None
    <2>1. holdUp'[i].of = i
      BY <1>2
    <2>2. i # -1
      BY Ids4Bytes
    <2>3. holdUp'[i] # None
      BY <2>1, <2>2 DEF None
    <2> QED
      BY <1>1, <1>2, <2>3
  <1>4. UpTo(i)' = UpTo(i)
    BY <1>1, <1>2, <1>3 DEF UpTo
  <1>5. UpPassed(i)' = UpPassed(i)
    BY <1>2 DEF UpPassed, Writing
  <1>6. UpWire(i)' /\ UpWrite(i)'
    BY <1>1, <1>2, <1>4, <1>5 DEF UpOK, UpWire, UpWrite, Flowing, Dialling, Writing
  <1>7. Held(i)'
    BY <1>2, <1>3 DEF Held
  <1>8. Arrived(gotUp, sentUp, i)'
    <2>1. Len(gotUp[i]) \in Nat
      BY DEF TypeInv, TypeOK
    <2> QED
      BY <1>1, <1>2, <2>1 DEF UpOK, Arrived
  <1> QED
    BY <1>6, <1>7, <1>8 DEF UpOK

LEMMA WriteUpUp ==
    ASSUME TypeInv, StreamInv, UpInv, NEW i \in Ids, WriteUp(i)
    PROVE  UpOK(i)'
  <1> USE DEF relayVars, history
  <1>1. UpOK(i) /\ holdUp[i] # None /\ holdUp[i] = [of |-> i, n |-> sentUp[i]] /\ sentUp[i] > 0
        /\ holdUp[i] \in Chunk
    BY DEF UpInv, UpOK, Held, WriteUp, TypeInv, TypeOK
  <1> PICK p \in Nat, u \in Nat : p = UpPassed(i) /\ u = UpTo(i)
    BY <1>1, UpCounts DEF UpOK
  <1>2. u + 1 = sentUp[i]
    <2>1. sentUp[i] \in Nat
      BY DEF TypeInv, TypeOK
    <2> QED
      BY <1>1, <2>1 DEF UpTo
  <1> PICK f : f = DataFrame(i, u + 1)
    OBVIOUS
  <1>3. f = StreamFrame("data", i, holdUp[i])
    BY <1>1, <1>2 DEF DataFrame
  <1>4. f \in UpFrame /\ ToServer(f) /\ ~IsControl(f, i)
    BY <1>1, <1>3, FramesTravel, FramesOf DEF WriteUp
  <1>5. /\ holdUp'[i] = None
        /\ UNCHANGED <<conn, broken, relay, upstream, sentUp, gotUp>>
    BY DEF WriteUp, TypeInv, TypeOK
  <1>6. UpTo(i)' = u + 1 /\ UpPassed(i)' = p
    BY <1>2, <1>5 DEF UpTo, UpPassed, Writing
  <1>7. NoControl(c2s, i) => NoControl(c2s', i)
    BY <1>4, ControlSent
  <1>8. Flowing(i)' => Flowing(i)
    BY <1>5, <1>7 DEF Flowing, Dialling
  <1>9. ASSUME Flowing(i)
        PROVE  /\ p <= u + 1 /\ InOrder(c2s', i, p, u + 1)
               /\ broken \/ AllThere(c2s', i, p, u + 1)
    <2>1. p <= u /\ InOrder(c2s, i, p, u) /\ (broken \/ AllThere(c2s, i, p, u))
      BY <1>1, <1>9 DEF UpOK, UpWire
    <2>2. CASE broken
      <3>1. InOrder(c2s, i, p, u + 1)
        BY <2>1, OrderWidens
      <3> QED
        BY <2>1, <2>2, <3>1, <1>4 DEF ToServer
    <2>3. CASE ~broken
      <3>1. c2s' = Append(c2s, f) /\ c2s \in Seq(UpFrame) /\ AllThere(c2s, i, p, u)
        BY <1>4, <2>1, <2>3 DEF ToServer, TypeInv, Carried
      <3>2. InOrder(c2s', i, p, u + 1) /\ AllThere(c2s', i, p, u + 1)
        BY <1>4, <2>1, <3>1, AppendData
      <3> QED
        BY <2>1, <3>2
    <2> QED
      BY <2>2, <2>3
  <1>10. UpWire(i)'
    BY <1>5, <1>6, <1>8, <1>9 DEF UpWire
  <1>11. Held(i)' /\ Arrived(gotUp, sentUp, i)' /\ UpWrite(i)'
    BY <1>1, <1>5 DEF UpOK, Held, Arrived, UpWrite, Writing
  <1> QED
    BY <1>10, <1>11 DEF UpOK

LEMMA CloseUp ==
    ASSUME TypeInv, StreamInv, UpInv, ClientClose, NEW i \in Ids
    PROVE  UpOK(i)'
  <1> USE DEF clientVars, relayVars, history
  <1>1. CloseFrame \in UpFrame /\ ToServer(CloseFrame) /\ ~IsData(CloseFrame, i)
        /\ ~IsControl(CloseFrame, i)
    BY CloseTravels, FramesOf DEF ClientClose
  <1>2. UpWireSame(i) /\ (NoControl(c2s, i) => NoControl(c2s', i))
    BY <1>1, SendOtherUp
  <1>3. UpSame(i)
    BY <1>2 DEF ClientClose, UpSame, Flowing, Dialling
  <1> QED
    BY <1>2, <1>3, UpQuiet DEF UpInv

(* Steps that leave the way up alone, but for a connection that closes.    *)
LEMMA ElsewhereUp ==
    ASSUME TypeInv, UpInv, NEW i \in Ids,
           UNCHANGED <<conn, holdUp, c2s, sentUp, gotUp>>, broken => broken',
           UNCHANGED relay \/ (~Writing(i) /\ ~Writing(i)'),
           Dialling(i)' => Dialling(i),
           upstream'[i] = "open" => upstream[i] = "open" \/ (Dialling(i) /\ ~Writing(i))
    PROVE  UpOK(i)'
  <1>1. UpSame(i)
    BY DEF UpSame, Flowing
  <1> QED
    BY <1>1, UpQuiet DEF UpInv, UpWireSame

LEMMA RelayReadUp ==
    ASSUME TypeInv, StreamInv, UpInv, RelayRead, NEW i \in Ids
    PROVE  UpOK(i)'
  <1> PICK f : f = Head(c2s)
    OBVIOUS
  <1>1. /\ relay.pc = "read" /\ c2s # << >> /\ c2s' = Tail(c2s) /\ c2s \in Seq(UpFrame)
        /\ UNCHANGED <<nextID, sessions, conn, holdUp, read, s2c, broken,
                       sentUp, gotUp, sentDown, gotDown, chunks>>
    BY RelayReads DEF Takes, TypeInv, Carried
  <1>2. /\ NoControl(c2s, i) => NoControl(c2s', i)
        /\ IsControl(f, i) => ~NoControl(c2s, i)
        /\ IsData(f, i) => NoControl(c2s, i) /\ ~Clean(c2s, i)
    BY <1>1, ControlTail DEF StreamInv, StreamOK, DialledOnce
  <1>3. ~Writing(i) /\ ~Dialling(i)
    BY <1>1 DEF Writing, Dialling
  <1>4. ASSUME ~IsData(f, i) PROVE UpOK(i)'
    <2>1. UpWireSame(i)
      BY <1>1, <1>4 DEF UpWireSame
    <2>2. /\ ~Writing(i)'
          /\ Dialling(i)' => IsControl(f, i)
          /\ upstream'[i] = "open" => upstream[i] = "open"
      <3>1. CASE \E k \in Ids : TakesControl(f, k)
        <4> PICK k \in Ids : TakesControl(f, k)
          BY <3>1
        <4> QED
          BY DEF TakesControl, Writing, Dialling
      <3>2. CASE \E k \in Ids : TakesData(f, k)
        <4> PICK k \in Ids : TakesData(f, k)
          BY <3>2
        <4> QED
          BY <1>4 DEF TakesData, Writing, Dialling
      <3>3. CASE \E k \in Ids : DropsData(f, k)
        BY <1>1, <3>3 DEF DropsData, Writing, Dialling
      <3>4. CASE \E k \in Ids : TakesClose(f, k)
        <4>1. upstream'[i] = "open" => upstream[i] = "open"
          BY <3>4, ClosesStreams DEF TakesClose
        <4> QED
          BY <1>1, <3>4, <4>1 DEF TakesClose, Writing, Dialling
      <3>5. CASE TakesBye(f)
        BY <3>5, Loops DEF TakesBye, Writing, Dialling
      <3> QED
        BY <3>1, <3>2, <3>3, <3>4, <3>5, RelayReads
    <2>3. UpSame(i)
      BY <1>1, <1>2, <1>3, <2>2 DEF UpSame, Flowing
    <2> QED
      BY <2>1, <2>3, UpQuiet DEF UpInv
  <1>5. ASSUME IsData(f, i) PROVE UpOK(i)'
    <2> PICK p \in Nat, u \in Nat : p = UpPassed(i) /\ u = UpTo(i) /\ u <= sentUp[i]
      BY UpCounts DEF UpInv, UpOK
    <2>1. p = Len(gotUp[i]) /\ UpTo(i)' = u
      BY <1>1, <1>3 DEF UpPassed, UpTo
    <2>2. \/ TakesData(f, i)
          \/ DropsData(f, i)
      <3>1. f.type = "data"
        BY <1>5 DEF IsData
      <3>2. \E k \in Ids : TakesData(f, k) \/ DropsData(f, k)
        BY <3>1, RelayReads DEF TakesControl, TakesClose, TakesBye, IsControl
      <3>3. PICK k \in Ids : TakesData(f, k) \/ DropsData(f, k)
        BY <3>2
      <3>4. k = i
        BY <1>5, <3>3, OneStream DEF TakesData, DropsData
      <3> QED
        BY <3>3, <3>4
    <2>3. UNCHANGED upstream /\ ~Dialling(i)'
      BY <1>1, <2>2 DEF TakesData, DropsData, Dialling
    <2>4. Flowing(i)' => Flowing(i) /\ upstream[i] = "open"
      <3>1. conn[i] \notin {"none", "dial"}
        BY <1>2, <1>5 DEF StreamInv, StreamOK, Unsent
      <3> QED
        BY <1>1, <1>2, <1>5, <2>3, <3>1 DEF Flowing
    <2>5. UpOK(i)
      BY DEF UpInv
    <2>6. Held(i)' /\ Arrived(gotUp, sentUp, i)'
      BY <1>1, <2>5 DEF UpOK, Held, Arrived
    <2>7. CASE TakesData(f, i)
      <3>1. Writing(i)' /\ relay'.data = f.data /\ f.data \in Chunk
        BY <2>7 DEF TakesData, Writing
      <3>2. UpPassed(i)' = p + 1
        BY <1>1, <2>1, <3>1 DEF UpPassed
      <3>3. ASSUME Flowing(i)
            PROVE  /\ f.data.of = i /\ f.data.n = p + 1 /\ p + 1 <= u
                   /\ InOrder(c2s', i, p + 1, u)
                   /\ broken \/ AllThere(c2s', i, p + 1, u)
        <4>1. InOrder(c2s, i, p, u) /\ (broken \/ AllThere(c2s, i, p, u))
          BY <2>5, <3>3 DEF UpOK, UpWire
        <4> QED
          BY <1>1, <1>5, <4>1, TailData
      <3>4. UpWire(i)'
        BY <1>1, <2>1, <2>4, <3>2, <3>3 DEF UpWire
      <3>5. UpWrite(i)'
        <4> SUFFICES ASSUME upstream'[i] = "open"
                     PROVE  relay'.data = [of |-> i, n |-> Len(gotUp'[i]) + 1]
          BY DEF UpWrite
        <4>1. Flowing(i)
          BY <2>3 DEF Flowing
        <4>2. f.data.of = i /\ f.data.n = Len(gotUp[i]) + 1
          BY <2>1, <3>3, <4>1
        <4>3. f.data = [of |-> i, n |-> Len(gotUp[i]) + 1]
          BY <3>1, <4>2 DEF Chunk
        <4> QED
          BY <1>1, <3>1, <4>3
      <3> QED
        BY <2>6, <3>4, <3>5 DEF UpOK
    <2>8. CASE DropsData(f, i)
      <3>1. upstream[i] # "open"
        BY <2>8 DEF DropsData, StreamInv, StreamOK, KnownUpstream
      <3>2. UpWire(i)'
        BY <2>4, <3>1 DEF UpWire
      <3>3. UpWrite(i)'
        BY <2>3, <3>1 DEF UpWrite
      <3> QED
        BY <2>6, <3>2, <3>3 DEF UpOK
    <2> QED
      BY <2>2, <2>7, <2>8
  <1> QED
    BY <1>4, <1>5

(* What is written to a destination is its next chunk.                     *)
LEMMA UpDue ==
    ASSUME TypeInv, UpInv, NEW i \in Ids, Writing(i), upstream[i] = "open"
    PROVE  relay.data = [of |-> i, n |-> Len(gotUp[i]) + 1] /\ Len(gotUp[i]) < sentUp[i]
  <1>1. UpOK(i) /\ Flowing(i)
    BY DEF UpInv, Flowing
  <1>2. /\ UpPassed(i) = Len(gotUp[i]) + 1 /\ UpPassed(i) <= UpTo(i)
        /\ relay.data = [of |-> i, n |-> Len(gotUp[i]) + 1]
    BY <1>1 DEF UpOK, UpWire, UpWrite, UpPassed
  <1>3. /\ UpTo(i) \in Nat /\ UpTo(i) <= sentUp[i] /\ sentUp[i] \in Nat
        /\ Len(gotUp[i]) \in Nat
    BY <1>1, UpCounts DEF UpOK
  <1> QED
    BY <1>2, <1>3

LEMMA WriteUpstreamUp ==
    ASSUME TypeInv, StreamInv, UpInv, WriteUpstream, NEW i \in Ids
    PROVE  UpOK(i)'
  <1> USE DEF clientVars, relayVars, history
  <1>1. relay.pc = "write" /\ relay'.pc = "read"
        /\ UNCHANGED <<conn, holdUp, c2s, broken, upstream, sentUp>>
    BY Loops DEF WriteUpstream
  <1>2. ~Writing(i)' /\ ~Dialling(i)' /\ ~Dialling(i)
    BY <1>1 DEF Writing, Dialling
  <1>3. UpOK(i)
    BY DEF UpInv
  <1>4. CASE ~Writing(i)
    <2>1. gotUp'[i] = gotUp[i]
      BY <1>1, <1>4 DEF WriteUpstream, Writing, TypeInv, TypeOK
    <2>2. UpSame(i)
      BY <1>1, <1>2, <1>4, <2>1 DEF UpSame, Flowing
    <2> QED
      BY <1>1, <1>3, <2>2, UpQuiet DEF UpWireSame
  <1>5. CASE Writing(i) /\ upstream[i] = "open"
    <2> PICK n \in Nat : n = Len(gotUp[i])
      BY DEF TypeInv, TypeOK
    <2>1. gotUp'[i] = Append(gotUp[i], relay.data) /\ relay.data = [of |-> i, n |-> n + 1]
          /\ gotUp[i] \in Seq(Chunk)
      BY <1>3, <1>5 DEF WriteUpstream, Writing, UpOK, UpWrite, TypeInv, TypeOK
    <2>2. Len(gotUp'[i]) = n + 1 /\ DOMAIN gotUp'[i] = DOMAIN gotUp[i] \cup {n + 1}
          /\ gotUp'[i][n + 1] = [of |-> i, n |-> n + 1]
          /\ \A k \in DOMAIN gotUp[i] : gotUp'[i][k] = gotUp[i][k]
      BY <2>1
    <2>3. UpPassed(i) = n + 1 /\ UpPassed(i)' = n + 1 /\ UpTo(i)' = UpTo(i)
      BY <1>1, <1>2, <1>5, <2>2 DEF UpPassed, UpTo
    <2>4. Flowing(i)
      BY <1>5 DEF Flowing
    <2>5. n + 1 <= sentUp[i]
      <3>1. Len(gotUp[i]) < sentUp[i]
        BY <1>5, UpDue
      <3>2. sentUp[i] \in Nat
        BY DEF TypeInv, TypeOK
      <3> QED
        BY <3>1, <3>2
    <2>6. Arrived(gotUp, sentUp, i)'
      <3>1. \A k \in DOMAIN gotUp[i] : gotUp[i][k] = [of |-> i, n |-> k]
        BY <1>3 DEF UpOK, Arrived
      <3> QED
        BY <1>1, <2>2, <2>5, <3>1 DEF Arrived
    <2>7. UpWire(i)' /\ Held(i)' /\ UpWrite(i)'
      BY <1>1, <1>2, <1>3, <2>3, <2>4 DEF UpOK, UpWire, Held, UpWrite
    <2> QED
      BY <2>6, <2>7 DEF UpOK
  <1>6. CASE Writing(i) /\ upstream[i] # "open"
    <2>1. gotUp'[i] = gotUp[i]
      BY <1>6 DEF WriteUpstream, Writing
    <2>2. ~Flowing(i)'
      <3>1. ~Undialled(i)
        BY <1>6 DEF Undialled
      <3>2. upstream[i] # "none" /\ conn[i] \notin {"none", "dial"}
        BY <3>1 DEF StreamInv, StreamOK, KnownUpstream, Unsent
      <3>3. NoControl(c2s, i)
        BY <3>2 DEF StreamInv, StreamOK, DialledOnce
      <3> QED
        BY <1>1, <1>2, <1>6, <3>2, <3>3 DEF Flowing
    <2> QED
      BY <1>1, <1>2, <1>3, <2>1, <2>2 DEF UpOK, Held, Arrived, UpWrite, UpWire
  <1> QED
    BY <1>4, <1>5, <1>6

LEMMA NextUp == TypeInv /\ StreamInv /\ UpInv /\ [Next]_vars => UpInv'
  <1> SUFFICES ASSUME TypeInv, StreamInv, UpInv, [Next]_vars, NEW i \in Ids PROVE UpOK(i)'
    BY DEF UpInv
  <1> USE DEF clientVars, relayVars, history
  <1>1. CASE Register
    BY <1>1, RegisterUp
  <1>2. CASE ReadLoop \/ Break \/ (\E k \in Ids : Consume(k)) \/ UNCHANGED vars
    <2>1. UNCHANGED <<conn, holdUp, c2s, sentUp, gotUp, relay, upstream>> /\ (broken => broken')
      BY <1>2 DEF ReadLoop, Receive, ReceiveError, PushFails, Break, Consume, vars
    <2> QED
      BY <2>1, ElsewhereUp DEF Dialling
  <1>3. CASE ClientClose
    BY <1>3, CloseUp
  <1>4. CASE \E k \in Ids : Client(k) \/ ReadLocal(k) \/ Forget(k)
    BY <1>4, ClientUp, ReadLocalUp, WriteUpUp DEF Client
  <1>5. CASE RelayRead
    BY <1>5, RelayReadUp
  <1>6. CASE WriteUpstream
    BY <1>6, WriteUpstreamUp
  <1>7. CASE RelayError \/ Cleanup
    <2>1. /\ UNCHANGED <<conn, holdUp, c2s, sentUp, gotUp, broken>>
          /\ relay.pc \in {"read", "cleanup"} /\ relay'.pc \in {"cleanup", "ended"}
          /\ upstream'[i] = "open" => upstream[i] = "open"
      BY <1>7, Loops, ClosesStreams DEF RelayError, Cleanup
    <2> QED
      BY <2>1, ElsewhereUp DEF Dialling, Writing
  <1>8. CASE Dialled
    <2>1. /\ UNCHANGED <<conn, holdUp, c2s, sentUp, gotUp, broken>>
          /\ relay.pc = "dial" /\ relay'.pc = "read" /\ relay.id \in Ids
      BY <1>8, Loops DEF Dialled, TypeInv, AtStreams
    <2>2. upstream'[i] = "open" => upstream[i] = "open" \/ relay.id = i
      BY <1>8, <2>1 DEF Dialled, TypeInv, TypeOK
    <2> QED
      BY <2>1, <2>2, ElsewhereUp DEF Dialling, Writing
  <1>9. CASE \E k \in Ids : Pump(k) \/ RemoteGone(k)
    <2>1. UNCHANGED <<conn, holdUp, c2s, sentUp, gotUp, broken, relay>>
      BY <1>9 DEF Pump, PumpRead, PumpWrite, PumpClose, RemoteGone
    <2>2. upstream'[i] = "open" => upstream[i] = "open"
      <3>1. ASSUME NEW k \in Ids, PumpClose(k) PROVE upstream'[i] = "open" => upstream[i] = "open"
        BY <3>1, ClosesStreams DEF PumpClose
      <3>2. ASSUME NEW k \in Ids, RemoteGone(k) PROVE upstream'[i] = "open" => upstream[i] = "open"
        BY <3>2 DEF RemoteGone, TypeInv, TypeOK
      <3> QED
        BY <1>9, <3>1, <3>2 DEF Pump, PumpRead, PumpWrite
    <2> QED
      BY <2>1, <2>2, ElsewhereUp DEF Dialling
  <1> QED
    BY <1>1, <1>2, <1>3, <1>4, <1>5, <1>6, <1>7, <1>8, <1>9 DEF Next, RelayLoop

-----------------------------------------------------------------------------
(* The way down.  The same for a stream that the client still knows: once  *)
(* forgotten, a stream is never registered again.                          *)

DownTo(i) == IF pump[i] = "hold" THEN sentDown[i] - 1 ELSE sentDown[i]
DownPassed(i) == IF Pushing(i) THEN Len(gotDown[i]) + 1 ELSE Len(gotDown[i])

DownPush(i) == Pushing(i) =>
    /\ read.data = [of |-> i, n |-> Len(gotDown[i]) + 1]
    /\ Len(gotDown[i]) < sentDown[i]

DownWire(i) == i \in sessions =>
    /\ DownPassed(i) <= DownTo(i)
    /\ InOrder(s2c, i, DownPassed(i), DownTo(i))
    /\ broken \/ AllThere(s2c, i, DownPassed(i), DownTo(i))

DownOK(i) == Arrived(gotDown, sentDown, i) /\ DownPush(i) /\ DownWire(i)
DownInv == \A i \in Ids : DownOK(i)

LEMMA DownCounts ==
    ASSUME TypeInv, NEW i \in Ids
    PROVE  DownTo(i) \in Nat /\ DownPassed(i) \in Nat /\ Len(gotDown[i]) \in Nat
           /\ sentDown[i] \in Nat /\ DownTo(i) <= sentDown[i]
  <1>1. sentDown[i] \in Nat /\ Len(gotDown[i]) \in Nat
    BY DEF TypeInv, TypeOK
  <1> QED
    BY <1>1 DEF TypeInv, Hold, DownTo, DownPassed

LEMMA InitDown == Init => DownInv
  BY DEF Init, DownInv, DownOK, Arrived, DownPush, DownWire, Pushing, IdleLoop

(* A step that puts no chunk of the stream onto the wire, takes none off   *)
(* and delivers none; a pump may give up a chunk once the wire is broken.  *)
DownSame(i) ==
    /\ sentDown[i] <= sentDown'[i] /\ gotDown'[i] = gotDown[i]
    /\ DownTo(i)' = DownTo(i) \/ (broken /\ DownTo(i) <= DownTo(i)')
    /\ UNCHANGED read \/ (~Pushing(i) /\ ~Pushing(i)')
    /\ broken => broken'
    /\ i \in sessions' => i \in sessions

DownWireSame(i) ==
    \/ UNCHANGED s2c
    \/ \E f \in DownFrame : s2c' = Append(s2c, f) /\ ~IsData(f, i)
    \/ s2c # << >> /\ s2c' = Tail(s2c) /\ ~IsData(Head(s2c), i)

LEMMA DownQuiet ==
    ASSUME TypeInv, TypeInv', NEW i \in Ids, DownOK(i), DownSame(i), DownWireSame(i)
    PROVE  DownOK(i)'
  <1> PICK p \in Nat, u \in Nat : p = DownPassed(i) /\ u = DownTo(i)
    BY DownCounts
  <1> PICK v \in Nat : v = DownTo(i)'
    BY DEF TypeInv, TypeOK, Hold, DownTo
  <1>1. sentDown[i] \in Nat /\ sentDown'[i] \in Nat /\ Len(gotDown[i]) \in Nat
    BY DEF TypeInv, TypeOK
  <1>2. Arrived(gotDown, sentDown, i)' /\ DownPush(i)'
    BY <1>1 DEF DownOK, DownSame, Arrived, DownPush, Pushing
  <1>3. DownPassed(i)' = p
    BY DEF DownSame, DownPassed, Pushing
  <1>4. /\ InOrder(s2c, i, p, u) => InOrder(s2c', i, p, u)
        /\ AllThere(s2c, i, p, u) => AllThere(s2c', i, p, u)
    <2>1. s2c \in Seq(DownFrame)
      BY DEF TypeInv, Carried
    <2>2. CASE UNCHANGED s2c
      BY <2>2
    <2>3. ASSUME NEW f \in DownFrame, s2c' = Append(s2c, f), ~IsData(f, i)
          PROVE  /\ InOrder(s2c, i, p, u) => InOrder(s2c', i, p, u)
                 /\ AllThere(s2c, i, p, u) => AllThere(s2c', i, p, u)
      BY <2>1, <2>3, AppendOther
    <2>4. CASE s2c # << >> /\ s2c' = Tail(s2c) /\ ~IsData(Head(s2c), i)
      BY <2>1, <2>4, TailOther
    <2> QED
      BY <2>2, <2>3, <2>4 DEF DownWireSame
  <1>5. DownWire(i)'
    <2> SUFFICES ASSUME i \in sessions'
                 PROVE  p <= v /\ InOrder(s2c', i, p, v) /\ (broken' \/ AllThere(s2c', i, p, v))
      BY <1>3 DEF DownWire
    <2>1. p <= u /\ InOrder(s2c', i, p, u) /\ (broken \/ AllThere(s2c', i, p, u))
      BY <1>4 DEF DownOK, DownWire, DownSame
    <2>2. CASE v = u
      BY <2>1, <2>2 DEF DownSame
    <2>3. CASE broken /\ u <= v
      <3>1. InOrder(s2c', i, p, v)
        BY <2>1, <2>3, OrderWidens
      <3> QED
        BY <2>1, <2>3, <3>1 DEF DownSame
    <2> QED
      BY <2>2, <2>3 DEF DownSame
  <1> QED
    BY <1>2, <1>5 DEF DownOK

LEMMA RegisterDown ==
    ASSUME TypeInv, TypeInv', StreamInv, DownInv, Register, NEW i \in Ids
    PROVE  DownOK(i)'
  <1> USE DEF relayVars, history
  <1>1. /\ sessions' = sessions \cup {nextID}
        /\ UNCHANGED <<read, s2c, broken, pump, sentDown, gotDown>>
    BY DEF Register
  <1>2. CASE i # nextID
    <2>1. DownSame(i)
      BY <1>1, <1>2, DownCounts DEF DownSame, DownTo
    <2> QED
      BY <1>1, <2>1, DownQuiet DEF DownInv, DownWireSame
  <1>3. CASE i = nextID
    <2>1. Undialled(i)
      <3>1. i \in Int /\ conn[i] = "none"
        BY <1>3, Ids4Bytes DEF StreamInv, Numbered
      <3> QED
        BY <3>1 DEF StreamInv, StreamOK, Unsent
    <2>2. sentDown[i] = 0 /\ pump[i] = "none" /\ upstream[i] = "none"
      BY <2>1 DEF Undialled
    <2>3. DownOK(i) /\ Len(gotDown[i]) = 0 /\ ~Pushing(i)
      <3>1. DownOK(i)
        BY DEF DownInv
      <3>2. Len(gotDown[i]) \in Nat
        BY DownCounts
      <3> QED
        BY <2>2, <3>1, <3>2 DEF DownOK, Arrived, DownPush
    <2>4. \A j \in DOMAIN s2c : ~IsData(s2c[j], i)
      BY <2>2, OneStream DEF StreamInv, OnlyDialled
    <2>5. InOrder(s2c, i, 0, 0) /\ AllThere(s2c, i, 0, 0)
      BY <2>4, NothingThere
    <2>6. DownTo(i)' = 0 /\ DownPassed(i)' = 0
      BY <1>1, <2>2, <2>3 DEF DownTo, DownPassed, Pushing
    <2>7. DownWire(i)'
      BY <1>1, <2>5, <2>6 DEF DownWire
    <2> QED
      BY <1>1, <2>3, <2>7 DEF DownOK, Arrived, DownPush, Pushing
  <1> QED
    BY <1>2, <1>3

LEMMA ReceiveDown ==
    ASSUME TypeInv, TypeInv', StreamInv, DownInv, Receive, NEW i \in Ids
    PROVE  DownOK(i)'
  <1> USE DEF relayVars, history
  <1> PICK f : f = Head(s2c)
    OBVIOUS
  <1>1. /\ read.pc = "read" /\ s2c # << >> /\ s2c' = Tail(s2c) /\ s2c \in Seq(DownFrame)
        /\ UNCHANGED <<sessions, broken, pump, sentDown, gotDown>>
    BY DEF Receive, TypeInv, Carried
  <1>2. f \in DownFrame /\ f.data \in Chunk
    BY <1>1, OnTail DEF DownFrame
  <1>3. PICK k \in Ids : IsData(f, k) /\ decodeStreamID(f.head) = k
    <2>1. f = s2c[1] /\ 1 \in DOMAIN s2c
      BY <1>1, OnTail
    <2>2. PICK k \in Ids : IsData(f, k)
      BY <2>1 DEF StreamInv, OnlyDialled
    <2> QED
      BY <2>2, Ids4Bytes DEF IsData
  <1>4. read' = IF k \in sessions THEN [pc |-> "push", id |-> k, data |-> f.data] ELSE read
    BY <1>3 DEF Receive
  <1>5. ~Pushing(i) /\ DownOK(i)
    BY <1>1 DEF Pushing, DownInv
  <1>6. CASE i # k
    <2>1. ~Pushing(i)' /\ ~IsData(f, i)
      BY <1>1, <1>3, <1>4, <1>6, OneStream DEF Pushing
    <2>2. DownSame(i)
      BY <1>1, <1>5, <2>1, DownCounts DEF DownSame, DownTo
    <2> QED
      BY <1>1, <1>5, <2>1, <2>2, DownQuiet DEF DownWireSame
  <1>7. CASE i = k /\ i \in sessions
    <2> PICK p \in Nat, u \in Nat : p = DownPassed(i) /\ u = DownTo(i) /\ u <= sentDown[i]
                                    /\ sentDown[i] \in Nat
      BY DownCounts
    <2>1. p = Len(gotDown[i]) /\ DownTo(i)' = u
      BY <1>1, <1>5 DEF DownPassed, DownTo
    <2>2. Pushing(i)' /\ read'.data = f.data
      BY <1>4, <1>7 DEF Pushing
    <2>3. DownPassed(i)' = p + 1
      BY <1>1, <2>1, <2>2 DEF DownPassed
    <2>4. InOrder(s2c, i, p, u) /\ (broken \/ AllThere(s2c, i, p, u))
      BY <1>5, <1>7 DEF DownOK, DownWire
    <2>5. /\ f.data.of = i /\ f.data.n = p + 1 /\ p + 1 <= u
          /\ InOrder(s2c', i, p + 1, u)
          /\ broken \/ AllThere(s2c', i, p + 1, u)
      BY <1>1, <1>3, <1>7, <2>4, TailData
    <2>6. DownWire(i)'
      BY <1>1, <2>1, <2>3, <2>5 DEF DownWire
    <2>7. f.data = [of |-> i, n |-> p + 1]
      BY <1>2, <2>5 DEF Chunk
    <2>8. DownPush(i)'
      BY <1>1, <2>1, <2>2, <2>5, <2>7 DEF DownPush
    <2> QED
      BY <1>1, <1>5, <2>6, <2>8 DEF DownOK, Arrived
  <1>8. CASE i = k /\ i \notin sessions
    BY <1>1, <1>4, <1>5, <1>8 DEF DownOK, Arrived, DownPush, DownWire, Pushing
  <1> QED
    BY <1>6, <1>7, <1>8

LEMMA ConsumeDown ==
    ASSUME TypeInv, TypeInv', StreamInv, DownInv, NEW k \in Ids, Consume(k), NEW i \in Ids
    PROVE  DownOK(i)'
  <1> USE DEF relayVars, history
  <1>1. /\ Pushing(k) /\ read'.pc = "read"
        /\ UNCHANGED <<sessions, s2c, broken, pump, sentDown>>
    BY Loops DEF Consume, Pushing
  <1>2. DownOK(i)
    BY DEF DownInv
  <1>3. CASE i # k
    <2>1. gotDown'[i] = gotDown[i] /\ ~Pushing(i) /\ ~Pushing(i)'
      BY <1>1, <1>3 DEF Consume, Pushing, TypeInv, TypeOK
    <2>2. DownSame(i)
      BY <1>1, <2>1, DownCounts DEF DownSame, DownTo
    <2> QED
      BY <1>1, <1>2, <2>2, DownQuiet DEF DownWireSame
  <1>4. CASE i = k
    <2> PICK n \in Nat : n = Len(gotDown[i])
      BY DownCounts
    <2>1. gotDown'[i] = Append(gotDown[i], read.data) /\ read.data = [of |-> i, n |-> n + 1]
          /\ gotDown[i] \in Seq(Chunk) /\ n < sentDown[i] /\ sentDown[i] \in Nat
      BY <1>1, <1>2, <1>4 DEF Consume, DownOK, DownPush, TypeInv, TypeOK
    <2>2. Len(gotDown'[i]) = n + 1 /\ DOMAIN gotDown'[i] = DOMAIN gotDown[i] \cup {n + 1}
          /\ gotDown'[i][n + 1] = [of |-> i, n |-> n + 1]
          /\ \A m \in DOMAIN gotDown[i] : gotDown'[i][m] = gotDown[i][m]
      BY <2>1
    <2>3. ~Pushing(i)'
      BY <1>1 DEF Pushing
    <2>4. DownPassed(i) = n + 1 /\ DownPassed(i)' = n + 1 /\ DownTo(i)' = DownTo(i)
      BY <1>1, <1>4, <2>2, <2>3 DEF DownPassed, DownTo
    <2>5. Arrived(gotDown, sentDown, i)'
      <3>1. \A m \in DOMAIN gotDown[i] : gotDown[i][m] = [of |-> i, n |-> m]
        BY <1>2 DEF DownOK, Arrived
      <3> QED
        BY <1>1, <2>1, <2>2, <3>1 DEF Arrived
    <2>6. DownWire(i)' /\ DownPush(i)'
      BY <1>1, <1>2, <2>3, <2>4 DEF DownOK, DownWire, DownPush
    <2> QED
      BY <2>5, <2>6 DEF DownOK
  <1> QED
    BY <1>3, <1>4

(* The pipe of a stream is closed only after the client has forgotten it.  *)
LEMMA PushFailsDown ==
    ASSUME TypeInv, TypeInv', StreamInv, DownInv, PushFails, NEW i \in Ids
    PROVE  DownOK(i)'
  <1> USE DEF relayVars, history
  <1>1. /\ read.pc = "push" /\ conn[read.id] = "closed" /\ read'.pc = "read"
        /\ UNCHANGED <<sessions, s2c, broken, pump, sentDown, gotDown>>
    BY Loops DEF PushFails, PipeClosed
  <1>2. DownOK(i) /\ ~Pushing(i)'
    BY <1>1 DEF DownInv, Pushing
  <1>3. CASE ~Pushing(i)
    <2>1. DownSame(i)
      BY <1>1, <1>2, <1>3, DownCounts DEF DownSame, DownTo
    <2> QED
      BY <1>1, <1>2, <2>1, DownQuiet DEF DownWireSame
  <1>4. CASE Pushing(i)
    <2>1. i \notin sessions
      BY <1>1, <1>4 DEF Pushing, StreamInv, Registered
    <2> QED
      BY <1>1, <1>2, <2>1 DEF DownOK, Arrived, DownPush, DownWire
  <1> QED
    BY <1>3, <1>4

LEMMA PumpDown ==
    ASSUME TypeInv, TypeInv', StreamInv, DownInv, NEW k \in Ids, NEW i \in Ids,
           PumpRead(k) \/ PumpClose(k) \/ (i # k /\ PumpWrite(k))
    PROVE  DownOK(i)'
  <1> USE DEF clientVars, relayVars, history
  <1>1. UNCHANGED <<sessions, read, broken, gotDown>>
    BY DEF PumpRead, PumpClose, PumpWrite
  <1>2. DownWireSame(i)
    <2>1. CASE PumpRead(k) \/ PumpClose(k)
      BY <2>1 DEF PumpRead, PumpClose, DownWireSame
    <2>2. CASE i # k /\ PumpWrite(k)
      <3> PICK f : f = StreamFrame("data", k, [of |-> k, n |-> sentDown[k]])
        OBVIOUS
      <3>1. sentDown[k] \in 1 .. MaxChunks
        BY <2>2 DEF PumpWrite, TypeInv, TypeOK, Hold
      <3>2. f \in DownFrame /\ ~IsData(f, i)
        <4>1. [of |-> k, n |-> sentDown[k]] \in Chunk
          BY <3>1 DEF Chunk
        <4> QED
          BY <2>2, <4>1, FramesTravel, FramesOf
      <3> QED
        BY <2>2, <3>2 DEF PumpWrite, DownWireSame
    <2> QED
      BY <2>1, <2>2
  <1>3. /\ sentDown[i] <= sentDown'[i]
        /\ DownTo(i)' = DownTo(i) \/ (broken /\ DownTo(i) <= DownTo(i)')
    <2>1. sentDown[i] \in Nat
      BY DownCounts
    <2>2. CASE i # k
      <3>1. pump'[i] = pump[i] /\ sentDown'[i] = sentDown[i]
        <4>1. CASE PumpRead(k)
          BY <2>2, <4>1 DEF PumpRead, TypeInv, TypeOK
        <4>2. CASE PumpClose(k)
          BY <2>2, <4>2 DEF PumpClose, TypeInv, TypeOK
        <4>3. CASE PumpWrite(k)
          BY <2>2, <4>3 DEF PumpWrite, TypeInv, TypeOK
        <4> QED
          BY <4>1, <4>2, <4>3
      <3> QED
        BY <2>1, <3>1 DEF DownTo
    <2>3. CASE i = k /\ PumpRead(k)
      <3>1. pump[i] = "read" /\ pump'[i] = "hold" /\ sentDown'[i] = sentDown[i] + 1
        BY <2>3 DEF PumpRead, TypeInv, TypeOK
      <3> QED
        BY <2>1, <3>1 DEF DownTo
    <2>4. CASE i = k /\ PumpClose(k)
      BY <2>1, <2>4 DEF PumpClose, DownTo, TypeInv, TypeOK
    <2> QED
      BY <2>2, <2>3, <2>4
  <1>4. DownSame(i)
    BY <1>1, <1>3 DEF DownSame
  <1> QED
    BY <1>2, <1>4, DownQuiet DEF DownInv

LEMMA PumpWriteDown ==
    ASSUME TypeInv, TypeInv', StreamInv, DownInv, NEW i \in Ids, PumpWrite(i)
    PROVE  DownOK(i)'
  <1> USE DEF clientVars, relayVars, history
  <1>1. DownOK(i) /\ sentDown[i] \in 1 .. MaxChunks
    BY DEF DownInv, PumpWrite, TypeInv, TypeOK, Hold
  <1> PICK p \in Nat, u \in Nat : p = DownPassed(i) /\ u = DownTo(i)
    BY DownCounts
  <1>2. u + 1 = sentDown[i]
    BY <1>1 DEF PumpWrite, DownTo
  <1> PICK f : f = DataFrame(i, u + 1)
    OBVIOUS
  <1>3. /\ s2c' = Append(s2c, f) /\ ~broken /\ pump'[i] = "read"
        /\ UNCHANGED <<sessions, read, broken, sentDown, gotDown>>
    BY <1>2 DEF PumpWrite, DataFrame, TypeInv, TypeOK
  <1>4. f \in DownFrame /\ s2c \in Seq(DownFrame)
    <2>1. [of |-> i, n |-> u + 1] \in Chunk
      BY <1>1, <1>2 DEF Chunk
    <2> QED
      BY <2>1, FramesTravel DEF DataFrame, TypeInv, Carried
  <1>5. DownTo(i)' = u + 1 /\ DownPassed(i)' = p
    BY <1>2, <1>3 DEF DownTo, DownPassed, Pushing
  <1>6. ASSUME i \in sessions
        PROVE  p <= u + 1 /\ InOrder(s2c', i, p, u + 1) /\ AllThere(s2c', i, p, u + 1)
    <2>1. p <= u /\ InOrder(s2c, i, p, u) /\ AllThere(s2c, i, p, u)
      BY <1>1, <1>3, <1>6 DEF DownOK, DownWire
    <2>2. InOrder(s2c', i, p, u + 1) /\ AllThere(s2c', i, p, u + 1)
      BY <1>3, <1>4, <2>1, AppendData
    <2> QED
      BY <2>1, <2>2
  <1>7. DownWire(i)'
    BY <1>3, <1>5, <1>6 DEF DownWire
  <1> QED
    BY <1>1, <1>3, <1>7 DEF DownOK, Arrived, DownPush, Pushing

LEMMA NextDown == TypeInv /\ StreamInv /\ DownInv /\ [Next]_vars => DownInv'
  <1> SUFFICES ASSUME TypeInv, StreamInv, DownInv, [Next]_vars, NEW i \in Ids PROVE DownOK(i)'
    BY DEF DownInv
  <1> USE DEF clientVars, relayVars, history
  <1>1. TypeInv'
    BY NextType
  <1>2. CASE Register
    BY <1>1, <1>2, RegisterDown
  <1>3. CASE Receive
    BY <1>1, <1>3, ReceiveDown
  <1>4. CASE PushFails
    BY <1>1, <1>4, PushFailsDown
  <1>5. CASE \E k \in Ids : Consume(k)
    BY <1>1, <1>5, ConsumeDown
  <1>6. CASE \E k \in Ids : Pump(k)
    BY <1>1, <1>6, PumpDown, PumpWriteDown DEF Pump
  <1>7. CASE ReceiveError
    <2>1. /\ read.pc = "read" /\ read'.pc = "ended"
          /\ UNCHANGED <<s2c, pump, sentDown, gotDown, broken, sessions>>
      BY <1>7, Loops DEF ReceiveError
    <2>2. DownSame(i)
      BY <2>1, DownCounts DEF DownSame, DownTo, Pushing
    <2> QED
      BY <1>1, <2>1, <2>2, DownQuiet DEF DownInv, DownWireSame
  <1>8. CASE Dialled
    <2>1. UNCHANGED <<read, s2c, sentDown, gotDown, broken, sessions>>
      BY <1>8 DEF Dialled
    <2>2. pump'[i] = "hold" <=> pump[i] = "hold"
      <3>1. relay.id \in Ids /\ Dialling(relay.id)
        BY <1>8 DEF Dialled, Dialling, TypeInv, AtStreams
      <3>2. pump[relay.id] = "none"
        BY <3>1 DEF StreamInv, StreamOK, DialledOnce, KnownUpstream, Undialled
      <3> QED
        BY <1>8, <3>1, <3>2 DEF Dialled, TypeInv, TypeOK
    <2>3. DownSame(i)
      BY <2>1, <2>2, DownCounts DEF DownSame, DownTo
    <2> QED
      BY <1>1, <2>1, <2>3, DownQuiet DEF DownInv, DownWireSame
  <1>9. CASE \/ ClientClose \/ Break \/ UNCHANGED vars
             \/ RelayRead \/ RelayError \/ WriteUpstream \/ Cleanup
             \/ \E k \in Ids : Client(k) \/ ReadLocal(k) \/ Forget(k) \/ RemoteGone(k)
    <2>1. /\ UNCHANGED <<read, s2c, pump, sentDown, gotDown>>
          /\ broken => broken'
          /\ i \in sessions' => i \in sessions
      <3>1. CASE RelayRead
        <4>1. UNCHANGED <<read, s2c, sentDown, gotDown, broken, sessions>>
          BY <3>1, RelayReads DEF Takes
        <4>2. UNCHANGED pump
          BY <3>1, RelayReads DEF TakesControl, TakesData, DropsData, TakesClose, TakesBye
        <4> QED
          BY <4>1, <4>2
      <3>2. CASE ClientClose \/ Break \/ UNCHANGED vars
        BY <3>2 DEF ClientClose, Break, vars
      <3>3. CASE RelayError \/ WriteUpstream \/ Cleanup
        BY <3>3 DEF RelayError, WriteUpstream, Cleanup
      <3>4. CASE \E k \in Ids : Client(k) \/ ReadLocal(k) \/ Forget(k) \/ RemoteGone(k)
        BY <3>4 DEF Client, Dial, WriteUp, HangUp, ReadLocal, Forget, RemoteGone
      <3> QED
        BY <1>9, <3>1, <3>2, <3>3, <3>4
    <2>2. DownSame(i)
      BY <2>1, DownCounts DEF DownSame, DownTo
    <2> QED
      BY <1>1, <2>1, <2>2, DownQuiet DEF DownInv, DownWireSame
  <1> QED
    BY <1>2, <1>3, <1>4, <1>5, <1>6, <1>7, <1>8, <1>9 DEF Next, ReadLoop, RelayLoop

TunnelInv == TypeInv /\ StreamInv /\ UpInv /\ DownInv

(* In every run, the chunks of a stream that flows have arrived or are on  *)
(* their way, in order and without a gap, whatever the other streams do.   *)
THEOREM TunnelInvariant == Spec => []TunnelInv
  <1>1. Init => TunnelInv
    BY InitType, InitStream, InitUp, InitDown DEF TunnelInv
  <1>2. TunnelInv /\ [Next]_vars => TunnelInv'
    BY NextType, NextStream, NextUp, NextDown DEF TunnelInv
  <1> QED
    BY <1>1, <1>2, PTL DEF Spec

-----------------------------------------------------------------------------
(* Each direction of each stream implements the channel of StreamChannels. *)

LEMMA SentChunks ==
    ASSUME NEW count \in [Ids -> 0 .. MaxChunks], NEW i \in Ids
    PROVE  /\ Sent(count)[i] \in Seq(Chunk) /\ Len(Sent(count)[i]) = count[i]
           /\ \A k \in 1 .. count[i] : Sent(count)[i][k] = [of |-> i, n |-> k]
  <1> PICK s : s = [k \in 1 .. count[i] |-> [of |-> i, n |-> k]]
    OBVIOUS
  <1>1. Sent(count)[i] = s
    BY DEF Sent
  <1>2. count[i] \in Nat /\ count[i] <= MaxChunks /\ MaxChunks \in Nat
    BY TunnelAssumption
  <1>3. \A k \in 1 .. count[i] : s[k] = [of |-> i, n |-> k] /\ s[k] \in Chunk
    BY <1>2 DEF Chunk
  <1>4. s \in Seq(Chunk) /\ Len(s) = count[i]
    BY <1>2, <1>3
  <1> QED
    BY <1>1, <1>3, <1>4

OneMore(count, next, i) == next = [count EXCEPT ![i] = count[i] + 1]
OneSent(s, next, i) == \E c \in Chunk : next = [s EXCEPT ![i] = Append(s[i], c)]
OneGot(got, next, i, c) == next = [got EXCEPT ![i] = Append(got[i], c)]

(* Counting one more is sending the next chunk.                            *)
LEMMA SendsNext ==
    ASSUME NEW count \in [Ids -> 0 .. MaxChunks], NEW next \in [Ids -> 0 .. MaxChunks],
           NEW i \in Ids, OneMore(count, next, i)
    PROVE  OneSent(Sent(count), Sent(next), i)
  <1> PICK c : c = [of |-> i, n |-> count[i] + 1]
    OBVIOUS
  <1>1. /\ count[i] \in Nat /\ next[i] = count[i] + 1 /\ next[i] \in 0 .. MaxChunks
        /\ \A j \in Ids : j # i => next[j] = count[j]
    BY DEF OneMore
  <1>2. c \in Chunk
    BY <1>1, TunnelAssumption DEF Chunk
  <1> PICK s : s = Sent(count)[i]
    OBVIOUS
  <1> PICK t : t = Sent(next)[i]
    OBVIOUS
  <1>3. /\ s \in Seq(Chunk) /\ Len(s) = count[i]
        /\ \A k \in 1 .. count[i] : s[k] = [of |-> i, n |-> k]
    BY SentChunks
  <1>4. /\ t \in Seq(Chunk) /\ Len(t) = count[i] + 1
        /\ \A k \in 1 .. count[i] + 1 : t[k] = [of |-> i, n |-> k]
    BY <1>1, SentChunks
  <1>5. t = Append(s, c)
    <2> PICK r : r = Append(s, c)
      OBVIOUS
    <2>1. /\ r \in Seq(Chunk) /\ Len(r) = Len(s) + 1
          /\ \A k \in 1 .. Len(s) : r[k] = s[k]
          /\ r[Len(s) + 1] = c
      BY <1>2, <1>3, AppendProperties
    <2>2. ASSUME NEW k \in 1 .. Len(t) PROVE t[k] = r[k]
      <3>1. k \in 1 .. count[i] \/ k = count[i] + 1
        BY <1>1, <1>4
      <3>2. CASE k \in 1 .. count[i]
        BY <1>3, <1>4, <2>1, <3>2
      <3>3. CASE k = count[i] + 1
        BY <1>1, <1>3, <1>4, <2>1, <3>3
      <3> QED
        BY <3>1, <3>2, <3>3
    <2>3. Len(t) = Len(r)
      BY <1>3, <1>4, <2>1
    <2> QED
      BY <1>4, <2>1, <2>2, <2>3, SeqEqual
  <1>6. \A j \in Ids : j # i => Sent(next)[j] = Sent(count)[j]
    BY <1>1 DEF Sent
  <1>7. Sent(next) = [Sent(count) EXCEPT ![i] = Append(Sent(count)[i], c)]
    BY <1>5, <1>6 DEF Sent
  <1> QED
    BY <1>2, <1>7 DEF OneSent

(* The next chunk of a stream is the one its channel delivers.             *)
LEMMA DeliversNext ==
    ASSUME NEW count \in [Ids -> 0 .. MaxChunks], NEW got \in [Ids -> Seq(Chunk)],
           NEW next, NEW i \in Ids, Len(got[i]) < count[i],
           OneGot(got, next, i, [of |-> i, n |-> Len(got[i]) + 1])
    PROVE  /\ Len(got[i]) < Len(Sent(count)[i])
           /\ OneGot(got, next, i, Sent(count)[i][Len(got[i]) + 1])
  <1>1. Len(got[i]) + 1 \in 1 .. count[i]
    <2>1. Len(got[i]) \in Nat /\ count[i] \in Nat
      OBVIOUS
    <2> QED
      BY <2>1
  <1>2. /\ Len(Sent(count)[i]) = count[i]
        /\ Sent(count)[i][Len(got[i]) + 1] = [of |-> i, n |-> Len(got[i]) + 1]
    BY <1>1, SentChunks
  <1> QED
    BY <1>2

LEMMA UpSteps ==
    TunnelInv /\ TunnelInv' /\ [Next]_vars
        => [\E i \in Ids : Up!Send(i) \/ Up!Deliver(i)]_<<Sent(sentUp), gotUp>>
  <1> SUFFICES ASSUME TunnelInv, TunnelInv', [Next]_vars
               PROVE  \/ \E i \in Ids : Up!Send(i) \/ Up!Deliver(i)
                      \/ UNCHANGED <<Sent(sentUp), gotUp>>
    OBVIOUS
  <1> USE DEF clientVars, relayVars, history
  <1>1. sentUp \in [Ids -> 0 .. MaxChunks] /\ sentUp' \in [Ids -> 0 .. MaxChunks]
        /\ gotUp \in [Ids -> Seq(Chunk)]
    BY DEF TunnelInv, TypeInv, TypeOK
  <1>2. ASSUME NEW i \in Ids, ReadLocal(i) PROVE Up!Send(i)
    <2>1. OneMore(sentUp, sentUp', i) /\ UNCHANGED gotUp
      BY <1>2 DEF ReadLocal, OneMore
    <2>2. OneSent(Sent(sentUp), Sent(sentUp'), i)
      BY <1>1, <2>1, SendsNext
    <2> QED
      BY <2>1, <2>2 DEF OneSent, Up!Send
  <1>3. CASE WriteUpstream
    <2> PICK i \in Ids : i = relay.id /\ Writing(i)
      BY <1>3 DEF WriteUpstream, Writing, TunnelInv, TypeInv, AtStreams
    <2>1. CASE upstream[i] = "open"
      <3>1. relay.data = [of |-> i, n |-> Len(gotUp[i]) + 1] /\ Len(gotUp[i]) < sentUp[i]
        BY <2>1, UpDue DEF TunnelInv
      <3>2. OneGot(gotUp, gotUp', i, [of |-> i, n |-> Len(gotUp[i]) + 1])
            /\ UNCHANGED sentUp
        BY <1>3, <2>1, <3>1 DEF WriteUpstream, OneGot
      <3>3. /\ Len(gotUp[i]) < Len(Sent(sentUp)[i])
            /\ OneGot(gotUp, gotUp', i, Sent(sentUp)[i][Len(gotUp[i]) + 1])
        BY <1>1, <3>1, <3>2, DeliversNext
      <3>4. UNCHANGED Sent(sentUp)
        BY <3>2 DEF Sent
      <3>5. Up!Deliver(i)
        BY <3>3, <3>4 DEF OneGot, Up!Deliver
      <3> QED
        BY <3>5
    <2>2. CASE upstream[i] # "open"
      <3>1. UNCHANGED <<sentUp, gotUp>>
        BY <1>3, <2>2 DEF WriteUpstream
      <3> QED
        BY <3>1 DEF Sent
    <2> QED
      BY <2>1, <2>2
  <1>4. ASSUME UNCHANGED <<sentUp, gotUp>> PROVE UNCHANGED <<Sent(sentUp), gotUp>>
    BY <1>4 DEF Sent
  <1>5. \/ \E i \in Ids : ReadLocal(i)
        \/ WriteUpstream
        \/ UNCHANGED <<sentUp, gotUp>>
    <2>1. CASE Register \/ ReadLoop \/ ClientClose \/ Break \/ UNCHANGED vars
      BY <2>1 DEF Register, ReadLoop, Receive, ReceiveError, PushFails, ClientClose, Break, vars
    <2>2. CASE RelayRead
      BY <2>2, RelayReads DEF Takes, TunnelInv
    <2>3. CASE RelayError \/ Dialled \/ Cleanup
      BY <2>3 DEF RelayError, Dialled, Cleanup
    <2>4. CASE \E i \in Ids : Client(i) \/ Forget(i) \/ Consume(i)
      BY <2>4 DEF Client, Dial, WriteUp, HangUp, Forget, Consume
    <2>5. CASE \E i \in Ids : Pump(i) \/ RemoteGone(i)
      BY <2>5 DEF Pump, PumpRead, PumpWrite, PumpClose, RemoteGone
    <2> QED
      BY <2>1, <2>2, <2>3, <2>4, <2>5 DEF Next, RelayLoop
  <1> QED
    BY <1>2, <1>3, <1>4, <1>5

LEMMA DownSteps ==
    TunnelInv /\ TunnelInv' /\ [Next]_vars
        => [\E i \in Ids : Down!Send(i) \/ Down!Deliver(i)]_<<Sent(sentDown), gotDown>>
  <1> SUFFICES ASSUME TunnelInv, TunnelInv', [Next]_vars
               PROVE  \/ \E i \in Ids : Down!Send(i) \/ Down!Deliver(i)
                      \/ UNCHANGED <<Sent(sentDown), gotDown>>
    OBVIOUS
  <1> USE DEF clientVars, relayVars, history
  <1>1. sentDown \in [Ids -> 0 .. MaxChunks] /\ sentDown' \in [Ids -> 0 .. MaxChunks]
        /\ gotDown \in [Ids -> Seq(Chunk)]
    BY DEF TunnelInv, TypeInv, TypeOK
  <1>2. ASSUME NEW i \in Ids, PumpRead(i) PROVE Down!Send(i)
    <2>1. OneMore(sentDown, sentDown', i) /\ UNCHANGED gotDown
      BY <1>2 DEF PumpRead, OneMore
    <2>2. OneSent(Sent(sentDown), Sent(sentDown'), i)
      BY <1>1, <2>1, SendsNext
    <2> QED
      BY <2>1, <2>2 DEF OneSent, Down!Send
  <1>3. ASSUME NEW i \in Ids, Consume(i) PROVE Down!Deliver(i)
    <2>1. read.data = [of |-> i, n |-> Len(gotDown[i]) + 1] /\ Len(gotDown[i]) < sentDown[i]
      BY <1>3 DEF Consume, Pushing, TunnelInv, DownInv, DownOK, DownPush
    <2>2. OneGot(gotDown, gotDown', i, [of |-> i, n |-> Len(gotDown[i]) + 1])
          /\ UNCHANGED sentDown
      BY <1>3, <2>1 DEF Consume, OneGot
    <2>3. /\ Len(gotDown[i]) < Len(Sent(sentDown)[i])
          /\ OneGot(gotDown, gotDown', i, Sent(sentDown)[i][Len(gotDown[i]) + 1])
      BY <1>1, <2>1, <2>2, DeliversNext
    <2>4. UNCHANGED Sent(sentDown)
      BY <2>2 DEF Sent
    <2> QED
      BY <2>3, <2>4 DEF OneGot, Down!Deliver
  <1>4. ASSUME UNCHANGED <<sentDown, gotDown>> PROVE UNCHANGED <<Sent(sentDown), gotDown>>
    BY <1>4 DEF Sent
  <1>5. \/ \E i \in Ids : PumpRead(i) \/ Consume(i)
        \/ UNCHANGED <<sentDown, gotDown>>
    <2>1. CASE Register \/ ReadLoop \/ ClientClose \/ Break \/ UNCHANGED vars
      BY <2>1 DEF Register, ReadLoop, Receive, ReceiveError, PushFails, ClientClose, Break, vars
    <2>2. CASE RelayRead
      BY <2>2, RelayReads DEF Takes, TunnelInv
    <2>3. CASE RelayError \/ Dialled \/ WriteUpstream \/ Cleanup
      BY <2>3 DEF RelayError, Dialled, WriteUpstream, Cleanup
    <2>4. CASE \E i \in Ids : Client(i) \/ Forget(i) \/ ReadLocal(i)
      BY <2>4 DEF Client, Dial, WriteUp, HangUp, Forget, ReadLocal
    <2>5. CASE \E i \in Ids : PumpWrite(i) \/ PumpClose(i) \/ RemoteGone(i)
      BY <2>5 DEF PumpWrite, PumpClose, RemoteGone
    <2> QED
      BY <2>1, <2>2, <2>3, <2>4, <2>5 DEF Next, RelayLoop, Pump
  <1> QED
    BY <1>2, <1>3, <1>4, <1>5

(* What comes out of a connection, at the destination as at the local      *)
(* application, is what was sent on it, in order, without a gap and        *)
(* without repetition, although the connections share the WebSocket, the   *)
(* maps of both sides and the loop that dials.                             *)
THEOREM StreamsRefine == Spec => StreamsAreChannels
  <1>1. Init => Up!Init /\ Down!Init
    <2> SUFFICES ASSUME Init PROVE Up!Init /\ Down!Init
      OBVIOUS
    <2>1. ASSUME NEW count, count = [i \in Ids |-> 0]
          PROVE  Sent(count) = [i \in Ids |-> << >>]
      <3>1. \A i \in Ids : [k \in 1 .. count[i] |-> [of |-> i, n |-> k]] = << >>
        BY <2>1
      <3> QED
        BY <3>1 DEF Sent
    <2> QED
      BY <2>1 DEF Init, Up!Init, Down!Init
  <1>2. TunnelInv /\ TunnelInv' /\ [Next]_vars
          => /\ [\E i \in Ids : Up!Send(i) \/ Up!Deliver(i)]_<<Sent(sentUp), gotUp>>
             /\ [\E i \in Ids : Down!Send(i) \/ Down!Deliver(i)]_<<Sent(sentDown), gotDown>>
    BY UpSteps, DownSteps
  <1> QED
    BY <1>1, <1>2, TunnelInvariant, PTL DEF Spec, StreamsAreChannels, Up!Spec, Down!Spec
=============================================================================
