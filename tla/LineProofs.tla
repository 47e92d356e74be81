------------------------------ MODULE LineProofs ------------------------------
(***************************************************************************)
(* Proofs about the two ends of the text protocol, which put lines         *)
(* together from reads of any length: TcpServer::receive_client_data       *)
(* (src/tcp_server.cpp) and the event logger (tools/pc_event_logger.cpp).  *)
(***************************************************************************)
EXTENDS CommandFramer, EventLogger, ListTheorems

(***************************************************************************)
(* Commands.                                                               *)
(***************************************************************************)

EndsOf(d) == {n \in DOMAIN d : d[n] = LF}
NoEnd(b) == \A n \in DOMAIN b : b[n] # LF

(* The line ends of a piece of the stream.                                  *)
LEMMA LineEndsAre ==
  ASSUME NEW T, NEW d \in Seq(T)
  PROVE  LET E == LineEnds(d)
             n == Cardinality(EndsOf(d))
         IN  /\ n \in Nat /\ E \in [1 .. n -> EndsOf(d)] /\ Rising(E) /\ Len(E) = n
             /\ \A k \in 1 .. n : E[k] \in 1 .. Len(d) /\ d[E[k]] = LF
             /\ \A i, j \in 1 .. n : i < j => E[i] < E[j]
             /\ \A x \in EndsOf(d) : \E i \in 1 .. n : E[i] = x
             /\ E = <<>> <=> n = 0
<1> DEFINE P == EndsOf(d)
           E == LineEnds(d)
           n == Cardinality(P)
<1>1. P \in SUBSET (1 .. Len(d)) /\ P \in SUBSET Nat
  BY DEF EndsOf
<1>2. IsFiniteSet(P)
  BY <1>1, NumbersUpTo, FS_Subset
<1>3. E = Ascending(P)
  BY DEF LineEnds, EndsOf
<1> HIDE DEF P
<1>4. n \in Nat /\ E \in [1 .. n -> P] /\ Rising(E) /\ \A x \in P : \E i \in 1 .. n : E[i] = x
  BY <1>1, <1>2, <1>3, AscendingIs
<1> HIDE DEF E, n
<1>5. Len(E) = n /\ (E = <<>> <=> n = 0)
  BY <1>4
<1>6. \A k \in 1 .. n : E[k] \in P
  BY <1>4
<1>7. \A k \in 1 .. n : E[k] \in 1 .. Len(d) /\ d[E[k]] = LF
  BY <1>6 DEF P, EndsOf
<1>8. \A i, j \in 1 .. n : i < j => E[i] < E[j]
  BY <1>4 DEF Rising
<1> QED BY <1>4, <1>5, <1>7, <1>8 DEF P, E, n

(* What stands in front of the piece only moves them ...                    *)
LEMMA EndsMove ==
  ASSUME NEW b \in Seq(Bytes), NoEnd(b), NEW d \in Seq(Bytes)
  PROVE  LET E == LineEnds(d)
         IN  LineEnds(b \o d) = [k \in 1 .. Len(E) |-> Len(b) + E[k]]
<1> DEFINE E == LineEnds(d)
           n == Cardinality(EndsOf(d))
           m == Len(b)
           f == [k \in 1 .. n |-> m + E[k]]
           P == EndsOf(b \o d)
<1>1. /\ n \in Nat /\ Len(E) = n
      /\ \A k \in 1 .. n : E[k] \in 1 .. Len(d) /\ d[E[k]] = LF
      /\ \A i, j \in 1 .. n : i < j => E[i] < E[j]
      /\ \A x \in EndsOf(d) : \E i \in 1 .. n : E[i] = x
  BY LineEndsAre
<1>2. /\ m \in Nat /\ DOMAIN (b \o d) = 1 .. m + Len(d)
      /\ \A i \in 1 .. m : (b \o d)[i] = b[i]
      /\ \A i \in 1 .. Len(d) : (b \o d)[m + i] = d[i]
  OBVIOUS
<1> HIDE DEF E, n, m
<1>3. \A x : x \in P <=> \E i \in EndsOf(d) : x = m + i
  <2>1. ASSUME NEW x \in P PROVE \E i \in EndsOf(d) : x = m + i
    <3>1. x \in 1 .. m + Len(d) /\ (b \o d)[x] = LF
      BY <1>2 DEF EndsOf
    <3>2. x \notin 1 .. m
      BY <1>2, <3>1 DEF NoEnd, m
    <3>3. x - m \in 1 .. Len(d) /\ x = m + (x - m)
      BY <1>2, <3>1, <3>2
    <3>4. x - m \in EndsOf(d)
      BY <1>2, <3>1, <3>3 DEF EndsOf
    <3> QED BY <3>3, <3>4
  <2>2. ASSUME NEW i \in EndsOf(d) PROVE m + i \in P
    <3>1. i \in 1 .. Len(d) /\ d[i] = LF
      BY DEF EndsOf
    <3> QED BY <1>2, <3>1 DEF EndsOf
  <2> QED BY <2>1, <2>2
<1>4. P \in SUBSET Nat
  BY <1>2 DEF EndsOf
<1> HIDE DEF P
<1>5. f \in [1 .. n -> P] /\ \A x \in P : \E i \in 1 .. n : f[i] = x
  <2>1. \A k \in 1 .. n : E[k] \in EndsOf(d)
    BY <1>1 DEF EndsOf
  <2> QED BY <1>1, <1>3, <2>1
<1>6. Rising(f)
  BY <1>1, <1>2 DEF Rising
<1> HIDE DEF f
<1>7. Ascending(P) = f
  BY <1>1, <1>4, <1>5, <1>6, AscendingUnique
<1>8. LineEnds(b \o d) = f
  BY <1>7 DEF P, EndsOf, LineEnds
<1> QED BY <1>1, <1>8 DEF f, E, m

(* ... and belongs to the first line alone.                                 *)
LEMMA PieceBehind ==
  ASSUME NEW T, NEW b \in Seq(T), NEW d \in Seq(T),
         NEW i \in 1 .. Len(d) + 1, NEW j \in 0 .. Len(d)
  PROVE  SubSeq(b \o d, Len(b) + i, Len(b) + j) = SubSeq(d, i, j)
<1> DEFINE m == Len(b)
           s == SubSeq(b \o d, m + i, m + j)
           t == SubSeq(d, i, j)
           n == IF i <= j THEN j - i + 1 ELSE 0
<1>1. /\ m \in Nat /\ n \in Nat /\ b \o d \in Seq(T) /\ Len(b \o d) = m + Len(d)
      /\ \A k \in 1 .. Len(d) : (b \o d)[m + k] = d[k]
  OBVIOUS
<1>2. /\ s \in Seq(T) /\ Len(s) = n
      /\ \A k \in 1 .. n : s[k] = (b \o d)[m + i + k - 1]
  BY <1>1
<1>3. t \in Seq(T) /\ Len(t) = n /\ \A k \in 1 .. n : t[k] = d[i + k - 1]
  OBVIOUS
<1>4. ASSUME NEW k \in 1 .. n PROVE s[k] = t[k]
  <2>1. i + k - 1 \in 1 .. Len(d) /\ m + i + k - 1 = m + (i + k - 1)
    BY <1>1
  <2> QED BY <1>1, <1>2, <1>3, <2>1
<1> HIDE DEF s, t, n
<1>5. s = t
  BY <1>2, <1>3, <1>4, SeqEqual
<1> QED BY <1>5 DEF s, t, m

(* A piece that begins with the buffer goes on into what follows it.        *)
LEMMA PieceFromStart ==
  ASSUME NEW T, NEW b \in Seq(T), NEW d \in Seq(T), NEW j \in 0 .. Len(d)
  PROVE  SubSeq(b \o d, 1, Len(b) + j) = b \o SubSeq(d, 1, j)
<1> DEFINE m == Len(b)
           s == SubSeq(b \o d, 1, m + j)
           e == SubSeq(d, 1, j)
           t == b \o e
<1>1. /\ m \in Nat /\ b \o d \in Seq(T) /\ Len(b \o d) = m + Len(d)
      /\ \A k \in 1 .. m : (b \o d)[k] = b[k]
      /\ \A k \in 1 .. Len(d) : (b \o d)[m + k] = d[k]
  OBVIOUS
<1>2. s \in Seq(T) /\ Len(s) = m + j /\ \A k \in 1 .. m + j : s[k] = (b \o d)[k]
  BY <1>1
<1>3. e \in Seq(T) /\ Len(e) = j /\ \A k \in 1 .. j : e[k] = d[k]
  OBVIOUS
<1> HIDE DEF e
<1>4. /\ t \in Seq(T) /\ Len(t) = m + j
      /\ \A k \in 1 .. m : t[k] = b[k]
      /\ \A k \in 1 .. j : t[m + k] = e[k]
  <2>1. /\ t \in Seq(T) /\ Len(t) = m + Len(e)
        /\ \A k \in 1 .. m + Len(e) : t[k] = IF k <= m THEN b[k] ELSE e[k - m]
    BY <1>3, ConcatProperties
  <2> HIDE DEF t, m
  <2>2. Len(t) = m + j /\ j \in Nat
    BY <1>3, <2>1
  <2>3. ASSUME NEW k \in 1 .. m PROVE t[k] = b[k]
    BY <1>1, <1>3, <2>1, <2>2
  <2>4. ASSUME NEW k \in 1 .. j PROVE t[m + k] = e[k]
    <3> DEFINE q == m + k
    <3>1. q \in 1 .. m + Len(e) /\ ~(q <= m) /\ q - m = k
      BY <1>1, <1>3, <2>2
    <3> HIDE DEF q
    <3>2. t[q] = e[q - m]
      BY <2>1, <3>1
    <3>3. t[q] = e[k]
      BY <3>1, <3>2
    <3> QED BY <3>3 DEF q
  <2> QED BY <2>1, <2>2, <2>3, <2>4
<1>5. ASSUME NEW k \in 1 .. m + j PROVE s[k] = t[k]
  <2>1. CASE k \in 1 .. m
    BY <1>1, <1>2, <1>4, <2>1
  <2>2. CASE k \notin 1 .. m
    <3>1. k - m \in 1 .. j /\ k = m + (k - m)
      BY <1>1, <2>2
    <3> QED BY <1>1, <1>2, <1>3, <1>4, <3>1
  <2> QED BY <2>1, <2>2
<1> HIDE DEF s, t
<1>6. s = t
  BY <1>2, <1>4, <1>5, SeqEqual
<1> QED BY <1>6 DEF s, t, m, e

LinesOK(b, d) ==
  LET n == Len(LineEnds(d))
      x == b \o d
  IN  /\ n \in Nat
      /\ \A k \in 1 .. n : Line(d, k) \in Seq(Bytes)
      /\ Rest(d) \in Seq(Bytes) /\ NoEnd(Rest(d))
      /\ n > 0 => /\ Line(x, 1) = b \o Line(d, 1)
                  /\ \A k \in 2 .. n : Line(x, k) = Line(d, k)
                  /\ Rest(x) = Rest(d)
      /\ n = 0 => Rest(x) = x /\ NoEnd(x)

(* The lines of a stream and of the bytes behind what is buffered of it.    *)
LEMMA LinesAre ==
  ASSUME NEW b \in Seq(Bytes), NoEnd(b), NEW d \in Seq(Bytes)
  PROVE  LinesOK(b, d)
<1> DEFINE E == LineEnds(d)
           n == Cardinality(EndsOf(d))
           m == Len(b)
           x == b \o d
           F == LineEnds(x)
<1>1. /\ n \in Nat /\ Len(E) = n
      /\ \A k \in 1 .. n : E[k] \in 1 .. Len(d) /\ d[E[k]] = LF
      /\ \A i, j \in 1 .. n : i < j => E[i] < E[j]
      /\ \A y \in EndsOf(d) : \E i \in 1 .. n : E[i] = y
      /\ E = <<>> <=> n = 0
  BY LineEndsAre
<1>2. F = [k \in 1 .. n |-> m + E[k]]
  BY <1>1, EndsMove
<1>3. /\ Len(F) = n /\ (F = <<>> <=> n = 0)
      /\ \A k \in 1 .. n : F[k] = m + E[k]
  BY <1>1, <1>2
<1>4. m \in Nat /\ x \in Seq(Bytes) /\ Len(x) = m + Len(d) /\ Len(d) \in Nat
  OBVIOUS
<1>5. /\ Line(d, 1) = SubSeq(d, 1, E[1] - 1)
      /\ Line(x, 1) = SubSeq(x, 1, F[1] - 1)
      /\ \A k : k # 1 => Line(d, k) = SubSeq(d, E[k - 1] + 1, E[k] - 1)
      /\ \A k : k # 1 => Line(x, k) = SubSeq(x, F[k - 1] + 1, F[k] - 1)
      /\ Rest(d) = IF n = 0 THEN d ELSE SubSeq(d, E[n] + 1, Len(d))
      /\ Rest(x) = IF n = 0 THEN x ELSE SubSeq(x, F[n] + 1, Len(x))
  <2>1. 0 + 1 = 1
    OBVIOUS
  <2>2. /\ \A k : Line(d, k) = SubSeq(d, (IF k = 1 THEN 0 ELSE E[k - 1]) + 1, E[k] - 1)
        /\ \A k : Line(x, k) = SubSeq(x, (IF k = 1 THEN 0 ELSE F[k - 1]) + 1, F[k] - 1)
    BY DEF Line
  <2>3. /\ Rest(d) = IF E = <<>> THEN d ELSE SubSeq(d, E[Len(E)] + 1, Len(d))
        /\ Rest(x) = IF F = <<>> THEN x ELSE SubSeq(x, F[Len(F)] + 1, Len(x))
    BY DEF Rest
  <2> HIDE DEF E, F, n, m, x
  <2>4. /\ Line(d, 1) = SubSeq(d, 1, E[1] - 1)
        /\ Line(x, 1) = SubSeq(x, 1, F[1] - 1)
        /\ \A k : k # 1 => Line(d, k) = SubSeq(d, E[k - 1] + 1, E[k] - 1)
        /\ \A k : k # 1 => Line(x, k) = SubSeq(x, F[k - 1] + 1, F[k] - 1)
    BY <2>1, <2>2
  <2>5. /\ Rest(d) = IF n = 0 THEN d ELSE SubSeq(d, E[n] + 1, Len(d))
        /\ Rest(x) = IF n = 0 THEN x ELSE SubSeq(x, F[n] + 1, Len(x))
    BY <1>1, <1>3, <2>3
  <2> QED BY <2>4, <2>5
<1> HIDE DEF E, F, n, m, x
<1>6. ASSUME NEW k \in 1 .. n PROVE Line(d, k) \in Seq(Bytes)
  <2>1. CASE k = 1
    <3>1. Line(d, k) = SubSeq(d, 1, E[1] - 1) /\ E[1] - 1 \in 0 .. Len(d)
      BY <1>1, <1>5, <2>1
    <3> QED BY <3>1
  <2>2. CASE k # 1
    <3>1. k - 1 \in 1 .. n
      BY <1>1, <2>2
    <3>2. Line(d, k) = SubSeq(d, E[k - 1] + 1, E[k] - 1)
      BY <1>5, <2>2
    <3>3. E[k - 1] + 1 \in 1 .. Len(d) + 1 /\ E[k] - 1 \in 0 .. Len(d)
      BY <1>1, <3>1
    <3> QED BY <3>2, <3>3
  <2> QED BY <2>1, <2>2
<1>7. n > 0 => /\ n \in 1 .. n /\ 1 \in 1 .. n /\ E[n] + 1 \in 1 .. Len(d) + 1
               /\ Rest(d) = SubSeq(d, E[n] + 1, Len(d))
  <2> SUFFICES ASSUME n > 0
               PROVE  /\ n \in 1 .. n /\ 1 \in 1 .. n /\ E[n] + 1 \in 1 .. Len(d) + 1
                      /\ Rest(d) = SubSeq(d, E[n] + 1, Len(d))
    OBVIOUS
  <2>1. n \in 1 .. n /\ 1 \in 1 .. n /\ n # 0
    BY <1>1
  <2>2. E[n] \in 1 .. Len(d)
    BY <1>1, <2>1
  <2>3. E[n] + 1 \in 1 .. Len(d) + 1
    BY <1>4, <2>2
  <2> QED BY <1>5, <2>1, <2>3
<1>8. Rest(d) \in Seq(Bytes) /\ NoEnd(Rest(d))
  <2>1. CASE n = 0
    <3>1. Rest(d) = d
      BY <1>1, <1>5, <2>1
    <3>2. EndsOf(d) = {}
      BY <1>1, <2>1
    <3> QED BY <3>1, <3>2 DEF NoEnd, EndsOf
  <2>2. CASE n # 0
    <3> DEFINE r == SubSeq(d, E[n] + 1, Len(d))
    <3>1. Rest(d) = r /\ E[n] \in 1 .. Len(d) /\ n \in 1 .. n
      BY <1>1, <1>7, <2>2
    <3>2. /\ r \in Seq(Bytes) /\ DOMAIN r = 1 .. Len(d) - E[n]
          /\ \A i \in 1 .. Len(d) - E[n] : r[i] = d[E[n] + i]
      BY <3>1
    <3>3. ASSUME NEW i \in 1 .. Len(d) - E[n], d[E[n] + i] = LF PROVE FALSE
      <4>1. E[n] + i \in EndsOf(d) /\ E[n] + i > E[n]
        BY <3>1, <3>3 DEF EndsOf
      <4>2. PICK j \in 1 .. n : E[j] = E[n] + i
        BY <1>1, <4>1
      <4>3. j < n \/ j = n
        BY <1>1
      <4>4. E[j] \in 1 .. Len(d) /\ (j < n => E[j] < E[n])
        BY <1>1, <3>1
      <4> QED BY <3>1, <4>1, <4>2, <4>3, <4>4
    <3> HIDE DEF r
    <3> QED BY <3>1, <3>2, <3>3 DEF NoEnd
  <2> QED BY <2>1, <2>2
<1>9. ASSUME n > 0
      PROVE  /\ Line(x, 1) = b \o Line(d, 1)
             /\ \A k \in 2 .. n : Line(x, k) = Line(d, k)
             /\ Rest(x) = Rest(d)
  <2>1. Line(x, 1) = b \o Line(d, 1)
    <3>1. E[1] \in 1 .. Len(d) /\ F[1] = m + E[1]
      BY <1>1, <1>3, <1>7, <1>9
    <3>2. E[1] - 1 \in 0 .. Len(d) /\ F[1] - 1 = m + (E[1] - 1)
      BY <1>4, <3>1
    <3>3. Line(x, 1) = SubSeq(x, 1, m + (E[1] - 1)) /\ Line(d, 1) = SubSeq(d, 1, E[1] - 1)
      BY <1>5, <3>2
    <3>4. SubSeq(x, 1, m + (E[1] - 1)) = b \o SubSeq(d, 1, E[1] - 1)
      BY <3>2, PieceFromStart DEF x, m
    <3> QED BY <3>3, <3>4
  <2>2. ASSUME NEW k \in 2 .. n PROVE Line(x, k) = Line(d, k)
    <3>1. k - 1 \in 1 .. n /\ k \in 1 .. n /\ k # 1
      BY <1>1
    <3> DEFINE p == E[k - 1]
               q == E[k]
    <3>2. p \in 1 .. Len(d) /\ q \in 1 .. Len(d) /\ F[k - 1] = m + p /\ F[k] = m + q
      BY <1>1, <1>3, <3>1
    <3>3. Line(x, k) = SubSeq(x, F[k - 1] + 1, F[k] - 1) /\ Line(d, k) = SubSeq(d, p + 1, q - 1)
      BY <1>5, <3>1
    <3> HIDE DEF p, q
    <3>4. p + 1 \in 1 .. Len(d) + 1 /\ q - 1 \in 0 .. Len(d)
      BY <1>4, <3>2
    <3>5. F[k - 1] + 1 = m + (p + 1) /\ F[k] - 1 = m + (q - 1)
      BY <1>4, <3>2
    <3>6. SubSeq(x, m + (p + 1), m + (q - 1)) = SubSeq(d, p + 1, q - 1)
      BY <3>4, PieceBehind DEF x, m
    <3> QED BY <3>3, <3>5, <3>6
  <2>3. Rest(x) = Rest(d)
    <3>0. n # 0 /\ n \in 1 .. n
      BY <1>7, <1>9
    <3>1. Rest(x) = SubSeq(x, F[n] + 1, Len(x)) /\ F[n] = m + E[n] /\ E[n] \in 1 .. Len(d)
      BY <1>1, <1>3, <1>5, <3>0
    <3>2. F[n] + 1 = m + (E[n] + 1)
      BY <1>4, <3>1
    <3>3. Rest(x) = SubSeq(x, m + (E[n] + 1), m + Len(d))
      BY <1>4, <3>1, <3>2
    <3>4. Len(d) \in 0 .. Len(d)
      OBVIOUS
    <3>5. SubSeq(x, m + (E[n] + 1), m + Len(d)) = SubSeq(d, E[n] + 1, Len(d))
      BY <1>7, <1>9, <3>4, PieceBehind DEF x, m
    <3> QED BY <1>7, <1>9, <3>3, <3>5
  <2> QED BY <2>1, <2>2, <2>3
<1>10. ASSUME n = 0 PROVE Rest(x) = x /\ NoEnd(x)
  <2>1. Rest(x) = x
    BY <1>3, <1>5, <1>10
  <2>2. NoEnd(d)
    BY <1>1, <1>10 DEF NoEnd, EndsOf
  <2>3. \A i \in DOMAIN x : (i \in DOMAIN b /\ x[i] = b[i]) \/ (i - m \in DOMAIN d /\ x[i] = d[i - m])
    BY DEF x, m
  <2> QED BY <2>1, <2>2, <2>3 DEF NoEnd
<1> QED BY <1>1, <1>6, <1>8, <1>9, <1>10 DEF LinesOK, E, x

(* Until the line being received was refused, all of it is in the buffer;   *)
(* afterwards it is too long, whatever comes.                               *)
FramerInv ==
  /\ buffer \in Seq(Bytes) /\ line \in Seq(Bytes) /\ NoEnd(buffer) /\ NoEnd(line)
  /\ refused \in BOOLEAN /\ Len(buffer) <= Len(line)
  /\ IF refused THEN Len(line) > MaxCommand ELSE buffer = line
  /\ WholeCommands

(* What is executed of a line that is in the buffer from its first byte.    *)
LEMMA OutcomeIs ==
  ASSUME NEW l \in Seq(Bytes)
  PROVE  LET o == Outcome(Stripped(l))
         IN  IF Len(l) <= MaxCommand
             THEN /\ l = o.text \o (IF EndsInCR(l) THEN <<CR>> ELSE <<>>)
                  /\ o.does = IF o.text = <<>> THEN "nothing" ELSE "command"
             ELSE o.does # "nothing"
<1> DEFINE c == Stripped(l)
           o == Outcome(c)
<1>1. MaxCommand \in Nat \ {0} /\ Len(l) \in Nat
  BY FramerAssumption DEF FramerAssumption
<1>2. /\ c \in Seq(Bytes) /\ l = c \o (IF EndsInCR(l) THEN <<CR>> ELSE <<>>)
      /\ Len(c) <= Len(l) /\ Len(l) <= Len(c) + 1
  <2>1. CASE EndsInCR(l)
    <3>1. Len(l) \in 1 .. Len(l) /\ l[Len(l)] = CR /\ c = SubSeq(l, 1, Len(l) - 1)
      BY <2>1 DEF EndsInCR, Stripped
    <3> DEFINE k == Len(l) - 1
               e == SubSeq(l, 1, k)
    <3>2. k \in 0 .. Len(l) /\ k + 1 = Len(l)
      BY <1>1, <3>1
    <3> HIDE DEF k
    <3>6. e \in Seq(Bytes) /\ Len(e) = k /\ \A i \in 1 .. k : e[i] = l[i]
      BY <1>1, <3>2
    <3>7. c = e
      BY <3>1 DEF k
    <3> HIDE DEF c, e
    <3> DEFINE s == c \o <<CR>>
    <3>3. CR \in Bytes
      BY DEF Bytes
    <3>4. s \in Seq(Bytes) /\ Len(s) = Len(l) /\ \A i \in 1 .. Len(l) : s[i] = l[i]
      BY <3>1, <3>2, <3>3, <3>6, <3>7
    <3> HIDE DEF s
    <3>5. s = l
      BY <3>4, SeqEqual
    <3>8. l = c \o (IF EndsInCR(l) THEN <<CR>> ELSE <<>>)
      BY <2>1, <3>5 DEF s
    <3> QED BY <1>1, <3>2, <3>6, <3>7, <3>8
  <2>2. CASE ~EndsInCR(l)
    <3>1. c = l
      BY <2>2 DEF Stripped
    <3>2. l = l \o <<>>
      BY ConcatEmptySeq
    <3> HIDE DEF c
    <3>3. l = c \o (IF EndsInCR(l) THEN <<CR>> ELSE <<>>)
      BY <2>2, <3>1, <3>2
    <3> QED BY <1>1, <3>1, <3>3
  <2> QED BY <2>1, <2>2
<1>3. c = <<>> <=> Len(c) = 0
  BY <1>2
<1> HIDE DEF c
<1>4. CASE Len(l) <= MaxCommand
  <2>1. o.text = c /\ o.does = IF c = <<>> THEN "nothing" ELSE "command"
    BY <1>1, <1>2, <1>4 DEF Outcome, TooLong
  <2> QED BY <1>2, <1>4, <2>1 DEF c
<1>5. CASE ~(Len(l) <= MaxCommand)
  <2>1. c # <<>>
    BY <1>1, <1>2, <1>3, <1>5
  <2>2. o.does # "nothing"
    BY <2>1 DEF Outcome
  <2> QED BY <1>5, <2>2 DEF c
<1> QED BY <1>4, <1>5

(* What a recv does for the lines it completes is whole ...                *)
LEMMA HandleIsWhole ==
  ASSUME FramerInv, NEW data \in Seq(Bytes), NEW n \in 0 .. Len(LineEnds(data)), Handle(data, n)
  PROVE  WholeCommands'
<1> DEFINE out(k) == Outcome(Stripped(Line(buffer \o data, k)))
           text(k) == Line(line \o data, k)
<1>1. LinesOK(buffer, data) /\ LinesOK(line, data)
  BY LinesAre DEF FramerInv
<1>2. /\ handled' = [k \in 1 .. n |-> out(k)]
      /\ sent' = [k \in 1 .. n |-> [text |-> text(k), refused |-> k = 1 /\ refused]]
      /\ n \in Nat
  BY DEF Handle
<1>3. Len(handled') = Len(sent') /\ DOMAIN sent' = 1 .. n
  BY <1>2
<1> SUFFICES ASSUME NEW k \in 1 .. n
             PROVE  IF Len(sent'[k].text) <= MaxCommand
                    THEN /\ sent'[k].text = handled'[k].text
                                            \o (IF EndsInCR(sent'[k].text) THEN <<CR>> ELSE <<>>)
                         /\ handled'[k].does = IF handled'[k].text = <<>> THEN "nothing" ELSE "command"
                    ELSE handled'[k].does # "nothing" \/ sent'[k].refused
  BY <1>3 DEF WholeCommands
<1>4. handled'[k] = out(k) /\ sent'[k].text = text(k) /\ (sent'[k].refused <=> k = 1 /\ refused)
  BY <1>2
<1>5. Len(LineEnds(data)) > 0 /\ Line(data, k) \in Seq(Bytes)
  BY <1>1 DEF LinesOK
<1>6. CASE k = 1 /\ refused
  <2>1. text(k) = line \o Line(data, k)
    BY <1>1, <1>5, <1>6 DEF LinesOK
  <2>2. Len(text(k)) = Len(line) + Len(Line(data, k)) /\ Len(line) \in Nat /\ Len(line) > MaxCommand
    BY <1>5, <1>6, <2>1 DEF FramerInv
  <2>3. ~(Len(text(k)) <= MaxCommand)
    BY <1>5, <2>2, FramerAssumption DEF FramerAssumption
  <2> HIDE DEF text, out
  <2> QED BY <1>4, <1>6, <2>3
<1>7. CASE ~(k = 1 /\ refused)
  <2>1. Line(buffer \o data, k) = text(k) /\ text(k) \in Seq(Bytes)
    <3>1. CASE k = 1
      <4>1. buffer = line
        BY <1>7, <3>1 DEF FramerInv
      <4>2. text(k) = line \o Line(data, k)
        BY <1>1, <1>5, <3>1 DEF LinesOK
      <4> QED BY <1>5, <4>1, <4>2 DEF FramerInv
    <3>2. CASE k # 1
      <4>1. k \in 2 .. Len(LineEnds(data))
        BY <1>1, <3>2 DEF LinesOK
      <4> QED BY <1>1, <1>5, <4>1 DEF LinesOK
    <3> QED BY <3>1, <3>2
  <2> HIDE DEF text
  <2>2. out(k) = Outcome(Stripped(text(k)))
    BY <2>1
  <2> HIDE DEF out
  <2> QED BY <1>4, <2>1, <2>2, OutcomeIs
<1> QED BY <1>6, <1>7

(* ... and what it leaves in the buffer is the start of the next one.      *)
LEMMA ReceiveKeepsLines ==
  ASSUME FramerInv, NEW data \in Seq(Bytes), Receive(data)
  PROVE  FramerInv'
<1> DEFINE n == Len(LineEnds(data))
           rest == Rest(buffer \o data)
<1>1. LinesOK(buffer, data) /\ LinesOK(line, data)
  BY LinesAre DEF FramerInv
<1>2. n \in Nat /\ Handle(data, n)
  BY <1>1 DEF Receive, LinesOK
<1>3. WholeCommands'
  BY <1>2, HandleIsWhole
<1>4. /\ buffer' = Kept(rest) /\ line' = Rest(line \o data)
      /\ refused' = (TooLong(rest) \/ (refused /\ n = 0))
  BY DEF Receive
<1>5. MaxCommand \in Nat
  BY FramerAssumption DEF FramerAssumption
<1> DEFINE Same == IF refused /\ n = 0 THEN Len(line') > MaxCommand ELSE rest = line'
<1>6. /\ rest \in Seq(Bytes) /\ line' \in Seq(Bytes) /\ NoEnd(rest) /\ NoEnd(line')
      /\ Len(rest) <= Len(line') /\ Same
  <2>1. CASE n = 0
    <3>1. /\ rest = buffer \o data /\ line' = line \o data
          /\ NoEnd(rest) /\ NoEnd(line')
      BY <1>1, <1>4, <2>1 DEF LinesOK
    <3>2. /\ Len(rest) = Len(buffer) + Len(data) /\ Len(line') = Len(line) + Len(data)
          /\ rest \in Seq(Bytes) /\ line' \in Seq(Bytes)
          /\ Len(buffer) \in Nat /\ Len(line) \in Nat /\ Len(data) \in Nat
      BY <3>1 DEF FramerInv
    <3>3. Len(rest) <= Len(line')
      BY <3>2 DEF FramerInv
    <3>4. Same
      <4>1. CASE refused
        <5>1. Len(line) > MaxCommand
          BY <4>1 DEF FramerInv
        <5>2. Len(line') > MaxCommand
          BY <1>5, <3>2, <5>1
        <5> HIDE DEF n, rest
        <5> QED BY <2>1, <4>1, <5>2
      <4>2. CASE ~refused
        <5>1. buffer = line
          BY <4>2 DEF FramerInv
        <5>2. rest = line'
          BY <3>1, <5>1
        <5> HIDE DEF n, rest
        <5> QED BY <4>2, <5>2
      <4> QED BY <4>1, <4>2
    <3> QED BY <3>1, <3>2, <3>3, <3>4
  <2>2. CASE n # 0
    <3>1. n > 0
      BY <1>2, <2>2
    <3>2. /\ rest = Rest(data) /\ line' = Rest(data)
          /\ Rest(data) \in Seq(Bytes) /\ NoEnd(Rest(data))
      BY <1>1, <1>4, <3>1 DEF LinesOK
    <3> HIDE DEF rest, n
    <3>3. Len(rest) <= Len(line')
      BY <3>2
    <3> QED BY <2>2, <3>2, <3>3
  <2> QED BY <2>1, <2>2
<1> HIDE DEF rest, n
<1>7. CASE TooLong(rest)
  <2>1. buffer' = <<>> /\ refused' = TRUE
    BY <1>4, <1>7 DEF Kept
  <2>2. Len(rest) > MaxCommand /\ Len(rest) \in Nat /\ Len(line') \in Nat
    BY <1>6, <1>7 DEF TooLong
  <2>3. Len(line') > MaxCommand
    BY <1>5, <1>6, <2>2
  <2>4. <<>> \in Seq(Bytes) /\ NoEnd(<<>>) /\ Len(<<>>) = 0
    BY DEF NoEnd
  <2> HIDE DEF Same
  <2>5. buffer' \in Seq(Bytes) /\ NoEnd(buffer)' /\ Len(buffer') <= Len(line')
    BY <2>1, <2>2, <2>4
  <2> QED BY <1>3, <1>6, <2>1, <2>3, <2>5 DEF FramerInv
<1>8. CASE ~TooLong(rest)
  <2>1. buffer' = rest /\ (refused' <=> refused /\ n = 0) /\ refused' \in BOOLEAN
    BY <1>4, <1>8 DEF Kept, TooLong, FramerInv
  <2> QED BY <1>3, <1>6, <2>1 DEF FramerInv
<1> QED BY <1>7, <1>8

(* An empty buffer holds no line end.                                       *)
LEMMA NothingWaits ==
  ASSUME NEW b, b = <<>>
  PROVE  b \in Seq(Bytes) /\ NoEnd(b) /\ Len(b) = 0
  BY DEF NoEnd

(* However the stream of a connection is cut into reads, a line that fits   *)
(* is executed exactly as it was sent, each once and in the order of the    *)
(* stream, and a longer one is refused (TcpServer::receive_client_data).    *)
THEOREM CommandsWhole == FramerSpec => []WholeCommands
<1>1. FramerInit => FramerInv
  <2> SUFFICES ASSUME FramerInit PROVE FramerInv
    OBVIOUS
  <2>1. /\ buffer \in Seq(Bytes) /\ line \in Seq(Bytes) /\ NoEnd(buffer) /\ NoEnd(line)
        /\ Len(buffer) = 0 /\ Len(line) = 0 /\ buffer = line /\ refused = FALSE
    BY NothingWaits DEF FramerInit
  <2>2. WholeCommands
    <3>1. handled = <<>> /\ sent = <<>> /\ DOMAIN sent = {}
      BY DEF FramerInit
    <3> QED BY <3>1 DEF WholeCommands
  <2>3. refused \in BOOLEAN /\ ~refused
    BY <2>1
  <2>4. Len(buffer) <= Len(line)
    BY <2>1
  <2>5. IF refused THEN Len(line) > MaxCommand ELSE buffer = line
    BY <2>1, <2>3, Zenon
  <2> QED BY ONLY <2>1, <2>2, <2>3, <2>4, <2>5, Zenon DEF FramerInv
<1>2. FramerInv /\ [FramerNext]_framerVars => FramerInv'
  <2> SUFFICES ASSUME FramerInv, [FramerNext]_framerVars PROVE FramerInv'
    OBVIOUS
  <2>1. \A data \in Chunks : data \in Seq(Bytes)
    BY DEF Chunks
  <2>2. ASSUME buffer' = <<>>, line' = <<>>, refused' = FALSE, WholeCommands' PROVE FramerInv'
    <3>1. /\ buffer' \in Seq(Bytes) /\ line' \in Seq(Bytes) /\ NoEnd(buffer') /\ NoEnd(line')
          /\ Len(buffer') = 0 /\ Len(line') = 0 /\ buffer' = line'
      BY <2>2, NothingWaits
    <3>2. refused' \in BOOLEAN /\ ~refused'
      BY <2>2
    <3>3. Len(buffer') <= Len(line')
      BY <3>1
    <3>4. IF refused' THEN Len(line') > MaxCommand ELSE buffer' = line'
      BY <3>1, <3>2, Zenon
    <3> QED BY ONLY <2>2, <3>1, <3>2, <3>3, <3>4, Zenon DEF FramerInv
  <2>3. ASSUME NEW data \in Chunks, Receive(data) PROVE FramerInv'
    BY <2>1, <2>3, ReceiveKeepsLines
  <2>4. CASE Disconnect
    <3>1. WholeCommands'
      <4>1. handled' = <<>> /\ sent' = <<>> /\ DOMAIN sent' = {}
        BY <2>4 DEF Disconnect
      <4> QED BY <4>1 DEF WholeCommands
    <3> QED BY <2>2, <2>4, <3>1 DEF Disconnect
  <2>5. CASE UNCHANGED framerVars
    <3>1. /\ buffer' = buffer /\ line' = line /\ refused' = refused
          /\ handled' = handled /\ sent' = sent
      BY <2>5 DEF framerVars
    <3>2. WholeCommands'
      BY <3>1 DEF FramerInv, WholeCommands
    <3> QED BY <3>1, <3>2 DEF FramerInv
  <2> QED BY <2>3, <2>4, <2>5 DEF FramerNext
<1>3. FramerInv => WholeCommands
  BY DEF FramerInv
<1> QED BY <1>1, <1>2, <1>3, PTL DEF FramerSpec

(***************************************************************************)
(* Events.                                                                 *)
(***************************************************************************)

Kinds == {"event", "odd", "reply"}
PartNames == {"head", "type", "rest", "end"}
IsPart(p) ==
  /\ p.n \in Nat /\ p.kind \in Kinds /\ p.part \in PartNames
  /\ p = Part(p.n, p.kind, p.part)
  /\ (p.part = "rest" => p.kind = "event")

(* What one part may be followed by, written out.                           *)
Follows(p, q) ==
  \/ q.n = p.n + 1 /\ q.part = "head" /\ (p.part = "end" \/ p.kind = "reply")
  \/ /\ q.n = p.n /\ q.kind = p.kind
     /\ \/ p.part = "head" /\ q.part = "type"
        \/ p.part = "type" /\ p.kind = "event" /\ q.part = "rest"
        \/ p.part = "type" /\ p.kind # "event" /\ q.part = "end"
        \/ p.part = "rest" /\ q.part = "end"

(* The kinds of lines are the fields of Layout.                             *)
LEMMA LayoutIs ==
  /\ DOMAIN Layout = Kinds
  /\ Layout["event"] = <<"head", "type", "rest", "end">>
  /\ Layout["odd"] = <<"head", "type", "end">>
  /\ Layout["reply"] = <<"head", "type", "end">>
  BY DEF Layout, Kinds

(* A line begins with its head ...                                          *)
LEMMA BegunIs ==
  ASSUME NEW n \in Nat, NEW q \in Begun(n)
  PROVE  IsPart(q) /\ q.n = n /\ q.part = "head"
  BY LayoutIs DEF Begun, IsPart, Part, Kinds, PartNames

(* ... and NextParts of a stream are the parts that may follow its last.    *)
LEMMA AfterIs ==
  ASSUME NEW p, IsPart(p), NEW q \in After(p)
  PROVE  IsPart(q) /\ Follows(p, q)
<1> DEFINE layout == Layout[p.kind]
<1>1. CASE q \in Begun(p.n + 1) /\ (p.part = "end" \/ p.kind = "reply")
  <2>1. p.n + 1 \in Nat
    BY DEF IsPart
  <2> QED BY <1>1, <2>1, BegunIs DEF Follows
<1>2. CASE \E i \in 2 .. Len(layout) : layout[i - 1] = p.part /\ q = Part(p.n, p.kind, layout[i])
  <2>1. PICK i \in 2 .. Len(layout) : layout[i - 1] = p.part /\ q = Part(p.n, p.kind, layout[i])
    BY <1>2
  <2>2. q.n = p.n /\ q.kind = p.kind /\ q.part = layout[i] /\ q = Part(q.n, q.kind, q.part)
    BY <2>1 DEF Part
  <2>3. p.n \in Nat /\ p.kind \in Kinds
    BY DEF IsPart
  <2>4. CASE p.kind = "event"
    <3>1. layout = <<"head", "type", "rest", "end">>
      BY <2>4, LayoutIs
    <3>2. i \in 2 .. 4
      BY <3>1
    <3>3. \/ p.part = "head" /\ q.part = "type"
          \/ p.part = "type" /\ q.part = "rest"
          \/ p.part = "rest" /\ q.part = "end"
      BY <2>1, <2>2, <3>1, <3>2
    <3> QED BY <2>2, <2>3, <2>4, <3>3 DEF IsPart, Follows, PartNames
  <2>5. CASE p.kind # "event"
    <3>1. layout = <<"head", "type", "end">>
      BY <2>3, <2>5, LayoutIs DEF Kinds
    <3>2. i \in 2 .. 3
      BY <3>1
    <3>3. \/ p.part = "head" /\ q.part = "type"
          \/ p.part = "type" /\ q.part = "end"
      BY <2>1, <2>2, <3>1, <3>2
    <3> QED BY <2>2, <2>3, <2>5, <3>3 DEF IsPart, Follows, PartNames
  <2> QED BY <2>4, <2>5
<1> QED BY <1>1, <1>2 DEF After

(* A stream the server can have sent.                                       *)
AllParts == {Part(n, k, p) : n \in Nat, k \in Kinds, p \in PartNames}
Sent(w) ==
  /\ w \in Seq(AllParts)
  /\ \A i \in DOMAIN w : IsPart(w[i])
  /\ (w # <<>> => w[1].n = 1 /\ w[1].part = "head")
  /\ \A i \in 2 .. Len(w) : Follows(w[i - 1], w[i])

(* The server may go on with any of the next parts.                         *)
LEMMA OneMorePart ==
  ASSUME NEW w, Sent(w), NEW q \in NextParts(w)
  PROVE  Sent(Append(w, q))
<1> DEFINE v == Append(w, q)
<1>1. w \in Seq(AllParts) /\ Len(w) \in Nat /\ DOMAIN w = 1 .. Len(w)
  BY DEF Sent
<1>2. IsPart(q) /\ (w = <<>> => q.n = 1 /\ q.part = "head") /\ (w # <<>> => Follows(w[Len(w)], q))
  <2>1. CASE w = <<>>
    BY <2>1, BegunIs DEF NextParts
  <2>2. CASE w # <<>>
    <3>1. Len(w) \in DOMAIN w
      BY <1>1, <2>2
    <3>2. IsPart(w[Len(w)]) /\ q \in After(w[Len(w)])
      BY <2>2, <3>1 DEF Sent, NextParts
    <3> QED BY <2>2, <3>2, AfterIs
  <2> QED BY <2>1, <2>2
<1>3. q \in AllParts
  BY <1>2 DEF IsPart, AllParts
<1>4. v \in Seq(AllParts) /\ Len(v) = Len(w) + 1 /\ v[Len(w) + 1] = q
      /\ (\A i \in 1 .. Len(w) : v[i] = w[i]) /\ v # <<>>
  BY <1>1, <1>3
<1> HIDE DEF v
<1>5. \A i \in DOMAIN v : IsPart(v[i])
  <2>1. DOMAIN v = 1 .. Len(w) + 1
    BY <1>4
  <2> QED BY <1>1, <1>2, <1>4, <2>1 DEF Sent
<1>6. v[1].n = 1 /\ v[1].part = "head"
  <2>1. CASE w = <<>>
    <3>1. Len(w) = 0
      BY <2>1
    <3> QED BY <1>2, <1>4, <2>1, <3>1
  <2>2. CASE w # <<>>
    <3>1. 1 \in 1 .. Len(w)
      BY <1>1, <2>2
    <3> QED BY <1>4, <2>2, <3>1 DEF Sent
  <2> QED BY <2>1, <2>2
<1>7. ASSUME NEW i \in 2 .. Len(v) PROVE Follows(v[i - 1], v[i])
  <2>1. CASE i = Len(w) + 1
    <3>1. Len(w) \in 1 .. Len(w) /\ w # <<>> /\ i - 1 = Len(w)
      BY <1>1, <2>1
    <3>2. v[i - 1] = w[Len(w)] /\ v[i] = q
      BY <1>4, <2>1, <3>1
    <3> QED BY <1>2, <3>1, <3>2
  <2>2. CASE i # Len(w) + 1
    <3>1. i \in 2 .. Len(w) /\ i - 1 \in 1 .. Len(w) /\ i \in 1 .. Len(w)
      BY <1>1, <1>4, <2>2
    <3>2. v[i - 1] = w[i - 1] /\ v[i] = w[i]
      BY <1>4, <3>1
    <3> QED BY <3>1, <3>2 DEF Sent
  <2> QED BY <2>1, <2>2
<1> QED BY <1>4, <1>5, <1>6, <1>7 DEF Sent, v

(* A read makes the stream longer.                                          *)
Extends(v, w) == Sent(v) /\ Len(w) <= Len(v) /\ \A i \in 1 .. Len(w) : v[i] = w[i]

Grows(g, w, n) ==
  /\ DOMAIN g = 0 .. n /\ g[0] = {w}
  /\ \A k \in 1 .. n : g[k] = UNION {{Append(v, p) : p \in NextParts(v)} : v \in g[k - 1]}

(* The streams of each length are defined ...                               *)
LEMMA StreamsExist ==
  ASSUME NEW w, NEW n \in Nat
  PROVE  \E g : Grows(g, w, n)
<1> DEFINE Ok == {k \in 0 .. n : \E g : Grows(g, w, k)}
           More(s) == UNION {{Append(v, p) : p \in NextParts(v)} : v \in s}
<1>1. 0 \in Ok
  <2>1. Grows([k \in 0 .. 0 |-> {w}], w, 0)
    BY DEF Grows
  <2> QED BY <2>1
<1>2. ASSUME NEW k \in 0 .. n - 1, k \in Ok PROVE k + 1 \in Ok
  <2>1. PICK g : Grows(g, w, k)
    BY <1>2
  <2> DEFINE h == [j \in 0 .. k + 1 |-> IF j = k + 1 THEN More(g[k]) ELSE g[j]]
  <2> HIDE DEF More
  <2>2. DOMAIN h = 0 .. k + 1 /\ h[0] = {w}
    BY <2>1 DEF Grows
  <2>3. ASSUME NEW j \in 1 .. k + 1 PROVE h[j] = More(h[j - 1])
    <3>1. j - 1 \in 0 .. k /\ h[j - 1] = g[j - 1]
      OBVIOUS
    <3>2. CASE j = k + 1
      <4>1. j - 1 = k
        BY <3>2
      <4> QED BY <3>1, <3>2, <4>1
    <3>3. CASE j # k + 1
      <4>1. j \in 1 .. k /\ h[j] = g[j]
        BY <3>3
      <4> QED BY <2>1, <3>1, <4>1 DEF Grows, More
    <3> QED BY <3>2, <3>3
  <2> HIDE DEF h
  <2>4. Grows(h, w, k + 1)
    BY <2>2, <2>3 DEF Grows, More
  <2>5. k + 1 \in 0 .. n
    OBVIOUS
  <2> QED BY <2>4, <2>5
<1> HIDE DEF Ok
<1>3. n \in Ok
  <2>1. 0 .. n \subseteq Ok
    BY <1>1, <1>2, UpTo
  <2> QED BY <2>1
<1> QED BY <1>3 DEF Ok

(* ... and each of them is the old one with more behind it.                 *)
LEMMA LongerIs ==
  ASSUME NEW w, Sent(w), NEW v \in Longer(w)
  PROVE  Extends(v, w)
<1> DEFINE More(s) == UNION {{Append(u, p) : p \in NextParts(u)} : u \in s}
           Is(g) == g = [n \in 0 .. MaxRead |-> IF n = 0 THEN {w} ELSE More(g[n - 1])]
           h == CHOOSE g : Is(g)
<1>1. PICK f : Grows(f, w, MaxRead)
  BY StreamsExist, LoggerAssumption DEF LoggerAssumption
<1> DEFINE g == [n \in 0 .. MaxRead |-> f[n]]
<1>2. Is(g)
  <2>1. ASSUME NEW n \in 0 .. MaxRead PROVE g[n] = IF n = 0 THEN {w} ELSE More(g[n - 1])
    <3>1. CASE n = 0
      BY <1>1, <3>1 DEF Grows
    <3>2. CASE n # 0
      <4>1. n \in 1 .. MaxRead /\ n - 1 \in 0 .. MaxRead
        BY <3>2, LoggerAssumption DEF LoggerAssumption
      <4> QED BY <1>1, <3>2, <4>1 DEF Grows
    <3> QED BY <3>1, <3>2
  <2> HIDE DEF More
  <2> QED BY <2>1
<1>3. Is(h)
  <2> HIDE DEF Is
  <2> QED BY <1>2
<1>4. Longer(w) = UNION {h[n] : n \in 1 .. MaxRead}
  BY DEF Longer
<1> HIDE DEF h
<1> DEFINE Ok == {n \in 0 .. MaxRead : \A u \in h[n] : Extends(u, w)}
<1>5. 0 \in Ok
  <2>1. h[0] = {w}
    BY <1>3, LoggerAssumption DEF LoggerAssumption
  <2>2. Len(w) \in Nat
    BY DEF Sent
  <2> QED BY <2>1, <2>2, LoggerAssumption DEF Extends, LoggerAssumption
<1>6. ASSUME NEW n \in 0 .. MaxRead - 1, n \in Ok PROVE n + 1 \in Ok
  <2>1. n + 1 \in 0 .. MaxRead /\ n + 1 # 0 /\ n + 1 - 1 = n
    BY LoggerAssumption DEF LoggerAssumption
  <2>2. h[n + 1] = More(h[n])
    <3> HIDE DEF More
    <3>1. \A m \in 0 .. MaxRead : m # 0 => h[m] = More(h[m - 1])
      BY <1>3
    <3>2. h[n + 1] = More(h[n + 1 - 1])
      BY <2>1, <3>1
    <3> QED BY <2>1, <3>2
  <2>3. ASSUME NEW u \in h[n + 1] PROVE Extends(u, w)
    <3>1. PICK x \in h[n] : u \in {Append(x, p) : p \in NextParts(x)}
      BY <2>2, <2>3
    <3>2. PICK p \in NextParts(x) : u = Append(x, p)
      BY <3>1
    <3>3. Extends(x, w)
      BY <1>6
    <3>4. Sent(x) /\ Sent(u)
      BY <3>2, <3>3, OneMorePart DEF Extends
    <3>5. x \in Seq(AllParts) /\ w \in Seq(AllParts)
      BY <3>4 DEF Sent
    <3>6. Len(u) = Len(x) + 1 /\ \A i \in 1 .. Len(x) : u[i] = x[i]
      BY <3>2, <3>5
    <3> QED BY <3>3, <3>4, <3>5, <3>6 DEF Extends
  <2> QED BY <2>1, <2>3
<1> HIDE DEF Ok
<1>7. 0 .. MaxRead \subseteq Ok
  BY <1>5, <1>6, UpTo, LoggerAssumption DEF LoggerAssumption
<1>8. PICK n \in 1 .. MaxRead : v \in h[n]
  BY <1>4
<1>9. n \in Ok
  BY <1>7, <1>8, LoggerAssumption DEF LoggerAssumption
<1> QED BY <1>8, <1>9 DEF Ok

(* The numbers of the lines never fall.                                     *)
LEMMA InOrderOfLines ==
  ASSUME NEW w, Sent(w), NEW i \in DOMAIN w, NEW j \in DOMAIN w, i <= j
  PROVE  w[i].n <= w[j].n
<1> DEFINE S == {d \in 0 .. j - i : w[i].n <= w[i + d].n}
<1>1. DOMAIN w = 1 .. Len(w) /\ Len(w) \in Nat
  BY DEF Sent
<1>2. \A k \in DOMAIN w : w[k].n \in Nat
  BY DEF Sent, IsPart
<1>3. 0 \in S /\ j - i \in Nat
  BY <1>1, <1>2
<1>4. ASSUME NEW d \in 0 .. (j - i) - 1, d \in S PROVE d + 1 \in S
  <2>1. i + (d + 1) \in 2 .. Len(w) /\ i + (d + 1) - 1 = i + d /\ d + 1 \in 0 .. j - i
    BY <1>1
  <2>2. Follows(w[i + d], w[i + (d + 1)])
    BY <2>1 DEF Sent
  <2>3. i + d \in DOMAIN w /\ i + (d + 1) \in DOMAIN w
    BY <1>1, <2>1
  <2>4. w[i + (d + 1)].n \in {w[i + d].n, w[i + d].n + 1}
    BY <2>2 DEF Follows
  <2>5. w[i].n <= w[i + d].n
    BY <1>4
  <2>6. w[i].n <= w[i + (d + 1)].n
    BY <1>2, <2>3, <2>4, <2>5
  <2> QED BY <2>1, <2>6
<1> HIDE DEF S
<1>5. j - i \in S
  BY <1>3, <1>4, UpTo
<1>6. w[i].n <= w[i + (j - i)].n
  BY <1>5 DEF S
<1>7. i + (j - i) = j
  BY <1>1
<1> QED BY <1>6, <1>7

(* An event came as a whole line: its four parts stand one behind the other *)
(* in front of where it ends.                                               *)
LEMMA EventIsWhole ==
  ASSUME NEW w, Sent(w), NEW e \in DOMAIN w, w[e].part = "end", w[e].kind = "event"
  PROVE  /\ e >= 4
         /\ w[e - 1].part = "rest" /\ w[e - 2].part = "type" /\ w[e - 3].part = "head"
         /\ w[e - 2].kind = "event"
         /\ w[e - 3].n = w[e].n
<1>1. DOMAIN w = 1 .. Len(w) /\ Len(w) \in Nat
  BY DEF Sent
<1>2. ASSUME NEW i \in DOMAIN w, w[i].part # "head"
      PROVE  i \in 2 .. Len(w) /\ Follows(w[i - 1], w[i]) /\ i - 1 \in DOMAIN w
  <2>1. i # 1
    BY <1>2 DEF Sent
  <2>2. i \in 2 .. Len(w) /\ i - 1 \in DOMAIN w
    BY <1>1, <2>1
  <2> QED BY <2>2 DEF Sent
<1>3. e \in 2 .. Len(w) /\ Follows(w[e - 1], w[e]) /\ e - 1 \in DOMAIN w
  BY <1>2
<1>4. w[e - 1].part = "rest" /\ w[e - 1].n = w[e].n /\ w[e - 1].kind = "event"
  BY <1>3 DEF Follows
<1> DEFINE a == e - 1
<1>5. a \in 2 .. Len(w) /\ Follows(w[a - 1], w[a]) /\ a - 1 \in DOMAIN w
  BY <1>2, <1>3, <1>4
<1>6. w[a - 1].part = "type" /\ w[a - 1].n = w[a].n /\ w[a - 1].kind = "event"
  BY <1>4, <1>5 DEF Follows
<1> DEFINE b == a - 1
<1>7. b \in 2 .. Len(w) /\ Follows(w[b - 1], w[b]) /\ b - 1 \in DOMAIN w
  BY <1>2, <1>5, <1>6
<1>8. w[b - 1].part = "head" /\ w[b - 1].n = w[b].n
  BY <1>6, <1>7 DEF Follows
<1>9. a - 1 = e - 2 /\ b - 1 = e - 3 /\ e >= 4
  BY <1>1, <1>7
<1> QED BY <1>4, <1>6, <1>8, <1>9

(* The least of a set of positions.                                         *)
LEMMA FirstIs ==
  ASSUME NEW S \in SUBSET Nat, S # {}
  PROVE  First(S) \in S /\ \A j \in S : First(S) <= j
  BY LeastNumber DEF First

(* What stands behind c and up to e is what the logger takes for a line; it *)
(* is intact if it is an event and nothing without a line end is before it. *)
OneLine(w, c, e) ==
  /\ c \in 0 .. Len(w) /\ e \in c + 1 .. Len(w)
  /\ (c = 0 \/ w[c].part = "end")
  /\ w[e].part = "end" /\ \A j \in c + 1 .. e - 1 : w[j].part # "end"
Intact(w, e) ==
  /\ w[e].part = "end" /\ w[e].kind = "event"
  /\ (e = 4 \/ (e > 4 /\ w[e - 4].part = "end"))

(* The parts of such a line, one by one.                                    *)
LEMMA LineIs ==
  ASSUME NEW w, Sent(w), NEW c, NEW e, OneLine(w, c, e)
  PROVE  /\ SubSeq(w, c + 1, e) \in Seq(AllParts)
         /\ Len(SubSeq(w, c + 1, e)) = e - c
         /\ DOMAIN SubSeq(w, c + 1, e) = 1 .. e - c
         /\ \A i \in 1 .. e - c : SubSeq(w, c + 1, e)[i] = w[c + i]
<1>1. Len(w) \in Nat /\ w \in Seq(AllParts) /\ c \in Nat /\ e \in Nat /\ c + 1 <= e /\ e <= Len(w)
  BY DEF Sent, OneLine
<1> QED BY <1>1

(* What the logger records is an event that ends there ...                  *)
LEMMA RowIsAnEvent ==
  ASSUME NEW w, Sent(w), NEW c, NEW e, OneLine(w, c, e), Recorded(SubSeq(w, c + 1, e))
  PROVE  w[e].kind = "event" /\ TypeOf(SubSeq(w, c + 1, e)).n = w[e].n
<1> DEFINE l == SubSeq(w, c + 1, e)
           t == First(Places(l, "type"))
           a == c + t
<1>1. DOMAIN l = 1 .. e - c /\ \A i \in 1 .. e - c : l[i] = w[c + i]
  BY LineIs
<1>2. /\ Len(w) \in Nat /\ DOMAIN w = 1 .. Len(w) /\ c \in Nat /\ e \in Nat
      /\ c + 1 <= e /\ e <= Len(w) /\ w[e].part = "end"
      /\ (c = 0 \/ w[c].part = "end") /\ \A j \in c + 1 .. e - 1 : w[j].part # "end"
  BY DEF Sent, OneLine
<1> HIDE DEF l
<1>3. Places(l, "type") \in SUBSET Nat /\ Places(l, "type") # {}
  BY <1>1, <1>2 DEF Places, Recorded, l
<1>4. t \in Places(l, "type") /\ \A j \in Places(l, "type") : t <= j
  BY <1>3, FirstIs
<1> HIDE DEF t
<1>5. t \in 1 .. e - c /\ l[t].part = "type" /\ l[t] = w[a]
  BY <1>1, <1>4 DEF Places
<1>6. TypeOf(l) = w[a] /\ w[a].part = "type" /\ w[a].kind \in {"event", "odd"}
  BY <1>5 DEF TypeOf, t, Recorded, l
<1>7. a \in c + 1 .. e - 1 /\ a + 1 \in c + 1 .. e /\ a + 1 \in 2 .. Len(w) /\ a + 1 - 1 = a
  <2>1. a \in c + 1 .. e /\ a # e
    BY <1>2, <1>5, <1>6
  <2> QED BY <1>2, <2>1
<1> HIDE DEF a
<1>8. Follows(w[a], w[a + 1])
  BY <1>7 DEF Sent
<1>9. CASE w[a].kind = "event"
  <2>1. w[a + 1].part = "rest" /\ w[a + 1].n = w[a].n /\ w[a + 1].kind = "event"
    BY <1>6, <1>8, <1>9 DEF Follows
  <2>2. a + 2 \in c + 1 .. e /\ a + 2 \in 2 .. Len(w) /\ a + 2 - 1 = a + 1
    <3>1. a + 1 # e
      BY <1>2, <2>1
    <3> QED BY <1>2, <1>7, <3>1
  <2>3. Follows(w[a + 1], w[a + 2])
    <3> DEFINE b == a + 2
    <3>1. b \in 2 .. Len(w) /\ b - 1 = a + 1 /\ b = a + 2
      BY <1>2, <1>7, <2>2
    <3> HIDE DEF b
    <3>2. Follows(w[b - 1], w[b])
      BY <3>1 DEF Sent
    <3> QED BY <3>1, <3>2
  <2>4. w[a + 2].part = "end" /\ w[a + 2].n = w[a].n /\ w[a + 2].kind = "event"
    BY <2>1, <2>3 DEF Follows
  <2>5. a + 2 = e
    <3>1. ~(a + 2 \in c + 1 .. e - 1)
      BY <1>2, <2>4
    <3> QED BY <1>2, <2>2, <3>1
  <2> QED BY <1>6, <2>4, <2>5 DEF l
<1>10. CASE w[a].kind = "odd"
  <2>1. w[a + 1].part = "end"
    BY <1>6, <1>8, <1>10 DEF Follows
  <2>2. a + 1 = e
    <3>1. ~(a + 1 \in c + 1 .. e - 1)
      BY <1>2, <2>1
    <3> QED BY <1>2, <1>7, <3>1
  <2>3. PICK r \in Places(l, "rest") : TRUE
    BY DEF Recorded, l
  <2>4. r \in 1 .. e - c /\ w[c + r].part = "rest"
    BY <1>1, <2>3 DEF Places
  <2>5. c + r # 1 /\ c + r \in DOMAIN w
    <3>1. c + r \in DOMAIN w
      BY <1>2, <2>4
    <3>2. c + r = 1 => w[c + r].part = "head"
      BY <3>1 DEF Sent
    <3> QED BY <2>4, <3>1, <3>2
  <2>6. c + r \in 2 .. Len(w)
    BY <1>2, <2>5
  <2> DEFINE d == c + r
  <2>14. d = c + r /\ d - 1 = c + r - 1
    BY <1>2, <2>4 DEF d
  <2> HIDE DEF d
  <2>7. Follows(w[d - 1], w[d])
    <3>1. d \in 2 .. Len(w)
      BY <2>6, <2>14
    <3> QED BY <3>1 DEF Sent
  <2>8. w[c + r - 1].part = "type"
    <3>1. w[d].part = "rest"
      BY <2>4, <2>14
    <3>2. w[d - 1].part = "type"
      BY <2>7, <3>1 DEF Follows
    <3> QED BY <2>14, <3>2
  <2>9. r # 1
    <3>1. r = 1 => c + r - 1 = c /\ c # 0
      BY <1>2, <2>6
    <3> QED BY <1>2, <2>8, <3>1
  <2>10. r - 1 \in 1 .. e - c /\ c + (r - 1) = c + r - 1
    BY <1>2, <2>4, <2>9
  <2>11. r - 1 \in Places(l, "type")
    <3>1. l[r - 1] = w[c + r - 1]
      BY <1>1, <2>10
    <3> QED BY <1>1, <2>8, <2>10, <3>1 DEF Places
  <2>12. t <= r - 1
    BY <1>4, <2>11
  <2>13. c + r <= e - 1
    <3>1. c + r # e
      BY <1>2, <2>4
    <3> QED BY <1>2, <2>4, <3>1
  <2>15. a <= c + r - 1
    BY <1>2, <1>5, <2>4, <2>12 DEF a
  <2> QED BY <1>2, <1>7, <2>2, <2>4, <2>13, <2>15
<1> QED BY <1>6, <1>9, <1>10

(* ... and it records every one that does not follow a cut reply.           *)
LEMMA EventIsARow ==
  ASSUME NEW w, Sent(w), NEW c, NEW e, OneLine(w, c, e), Intact(w, e)
  PROVE  Recorded(SubSeq(w, c + 1, e))
<1> DEFINE l == SubSeq(w, c + 1, e)
<1>1. /\ Len(w) \in Nat /\ DOMAIN w = 1 .. Len(w) /\ c \in Nat /\ e \in Nat
      /\ c + 1 <= e /\ e <= Len(w) /\ w[e].part = "end"
      /\ (c = 0 \/ w[c].part = "end") /\ \A j \in c + 1 .. e - 1 : w[j].part # "end"
  BY DEF Sent, OneLine
<1>2. /\ e >= 4 /\ w[e - 1].part = "rest" /\ w[e - 2].part = "type" /\ w[e - 3].part = "head"
      /\ w[e - 2].kind = "event"
  <2>1. e \in DOMAIN w /\ w[e].kind = "event"
    BY <1>1 DEF Intact
  <2> QED BY <1>1, <2>1, EventIsWhole
<1>3. c # e - 1 /\ c # e - 2 /\ c # e - 3
  BY <1>1, <1>2
<1>4. c >= e - 4
  <2>1. CASE e = 4
    BY <1>1, <2>1
  <2>2. CASE e > 4 /\ w[e - 4].part = "end"
    <3>1. ~(e - 4 \in c + 1 .. e - 1)
      BY <1>1, <2>2
    <3> QED BY <1>1, <2>2, <3>1
  <2> QED BY <2>1, <2>2 DEF Intact
<1>5. c = e - 4
  BY <1>1, <1>3, <1>4
<1>6. DOMAIN l = 1 .. e - c /\ \A i \in 1 .. e - c : l[i] = w[c + i]
  BY LineIs
<1> HIDE DEF l
<1>7. DOMAIN l = 1 .. 4
  BY <1>1, <1>5, <1>6
<1>8. l[1] = w[e - 3] /\ l[2] = w[e - 2] /\ l[3] = w[e - 1] /\ l[4] = w[e]
  <2>1. e - c = 4 /\ c + 1 = e - 3 /\ c + 2 = e - 2 /\ c + 3 = e - 1 /\ c + 4 = e
    BY <1>1, <1>5
  <2>2. \A i \in 1 .. 4 : l[i] = w[c + i]
    BY <1>6, <2>1
  <2>3. l[1] = w[c + 1] /\ l[2] = w[c + 2] /\ l[3] = w[c + 3] /\ l[4] = w[c + 4]
    BY <2>2
  <2> QED BY <2>1, <2>3
<1>9. Places(l, "type") = {2} /\ 3 \in Places(l, "rest")
  <2>1. l[1].part = "head" /\ l[2].part = "type" /\ l[3].part = "rest" /\ l[4].part = "end"
    BY <1>1, <1>2, <1>8
  <2> QED BY <1>7, <2>1 DEF Places
<1>10. First(Places(l, "type")) = 2
  <2>1. {2} \in SUBSET Nat /\ {2} # {}
    OBVIOUS
  <2>2. First({2}) \in {2}
    BY <2>1, FirstIs
  <2> QED BY <1>9, <2>2
<1>11. TypeOf(l).kind = "event"
  BY <1>2, <1>8, <1>10 DEF TypeOf
<1> QED BY <1>9, <1>11 DEF Recorded, l

(* The rows written after the first c parts of a stream.                    *)
Written(w, c, r) ==
  /\ r \in Seq(Nat) /\ \A i \in 2 .. Len(r) : r[i - 1] < r[i]
  /\ \A i \in DOMAIN r : \E j \in 1 .. c : w[j] = Part(r[i], "event", "end")
  /\ \A j \in 1 .. c : Intact(w, j) => \E i \in DOMAIN r : r[i] = w[j].n

(* In front of the stream there are none.                                   *)
LEMMA NothingWritten ==
  ASSUME NEW w PROVE Written(w, 0, <<>>)
  BY DEF Written

(* What arrives behind them changes no row.                                 *)
LEMMA WrittenStays ==
  ASSUME NEW w, Sent(w), NEW v, Extends(v, w), NEW c \in 0 .. Len(w), NEW r, Written(w, c, r)
  PROVE  Written(v, c, r)
<1>1. Len(w) \in Nat /\ \A j \in 1 .. c : v[j] = w[j]
  BY DEF Sent, Extends
<1>2. ASSUME NEW j \in 1 .. c PROVE Intact(v, j) <=> Intact(w, j)
  <2>1. v[j] = w[j] /\ (j > 4 => v[j - 4] = w[j - 4])
    <3>1. j > 4 => j - 4 \in 1 .. c
      BY <1>1
    <3> QED BY <1>1, <3>1
  <2> QED BY <2>1 DEF Intact
<1>3. \A i \in DOMAIN r : \E j \in 1 .. c : v[j] = Part(r[i], "event", "end")
  BY <1>1 DEF Written
<1>4. \A j \in 1 .. c : Intact(v, j) => \E i \in DOMAIN r : r[i] = v[j].n
  BY <1>1, <1>2 DEF Written
<1> QED BY <1>3, <1>4 DEF Written

(* The line from c to e writes its event ...                                *)
LEMMA OneMoreRow ==
  ASSUME NEW w, Sent(w), NEW c, NEW e, OneLine(w, c, e), NEW r, Written(w, c, r)
  PROVE  LET l == SubSeq(w, c + 1, e)
         IN  Written(w, e, IF Recorded(l) THEN Append(r, TypeOf(l).n) ELSE r)
<1> DEFINE l == SubSeq(w, c + 1, e)
           n == w[e].n
<1>1. /\ Len(w) \in Nat /\ DOMAIN w = 1 .. Len(w) /\ c \in Nat /\ e \in Nat
      /\ c + 1 <= e /\ e <= Len(w) /\ w[e].part = "end"
      /\ (c = 0 \/ w[c].part = "end") /\ \A j \in c + 1 .. e - 1 : w[j].part # "end"
  BY DEF Sent, OneLine
<1>2. /\ r \in Seq(Nat) /\ (\A i \in 2 .. Len(r) : r[i - 1] < r[i])
      /\ Len(r) \in Nat /\ DOMAIN r = 1 .. Len(r)
  BY DEF Written
<1>3. \A i \in DOMAIN r : \E j \in 1 .. c : w[j] = Part(r[i], "event", "end")
  BY DEF Written
<1>4. \A j \in 1 .. c : Intact(w, j) => \E i \in DOMAIN r : r[i] = w[j].n
  BY DEF Written
<1>5. ASSUME NEW j \in 1 .. e, Intact(w, j), j # e PROVE j \in 1 .. c
  BY <1>1, <1>5 DEF Intact
<1>6. CASE Recorded(l)
  <2>1. w[e].kind = "event" /\ TypeOf(l).n = n
    BY <1>6, RowIsAnEvent
  <2>2. IsPart(w[e]) /\ n \in Nat
    BY <1>1 DEF Sent, IsPart
  <2>3. w[e] = Part(n, "event", "end")
    BY <1>1, <2>1, <2>2 DEF IsPart
  <2> DEFINE s == Append(r, n)
  <2>4. s \in Seq(Nat) /\ Len(s) = Len(r) + 1 /\ s[Len(r) + 1] = n
        /\ (\A i \in 1 .. Len(r) : s[i] = r[i])
    BY <1>2, <2>2
  <2> HIDE DEF s
  <2>5. DOMAIN s = 1 .. Len(r) + 1
    BY <2>4
  <2>6. ASSUME NEW i \in DOMAIN r PROVE r[i] < n
    <3>1. PICK j \in 1 .. c : w[j] = Part(r[i], "event", "end")
      BY <1>3
    <3>2. w[j].n = r[i] /\ r[i] \in Nat
      BY <1>2, <3>1 DEF Part
    <3>3. c \in DOMAIN w /\ j \in DOMAIN w /\ j <= c /\ w[c].part = "end"
      BY <1>1
    <3>4. r[i] <= w[c].n
      BY <3>2, <3>3, InOrderOfLines
    <3>5. w[c + 1].n = w[c].n + 1
      <4> DEFINE d == c + 1
      <4>1. d \in 2 .. Len(w) /\ d - 1 = c /\ d = c + 1
        BY <1>1, <3>3
      <4> HIDE DEF d
      <4>2. Follows(w[d - 1], w[d])
        BY <4>1 DEF Sent
      <4> QED BY <3>3, <4>1, <4>2 DEF Follows
    <3>6. w[c + 1].n <= n
      <4>1. c + 1 \in DOMAIN w /\ e \in DOMAIN w /\ c + 1 <= e
        BY <1>1
      <4> QED BY <4>1, InOrderOfLines
    <3>7. w[c].n \in Nat
      BY <3>3 DEF Sent, IsPart
    <3> QED BY <2>2, <3>2, <3>4, <3>5, <3>6, <3>7
  <2>7. ASSUME NEW i \in 2 .. Len(s) PROVE s[i - 1] < s[i]
    <3>1. CASE i = Len(r) + 1
      <4>1. Len(r) \in DOMAIN r /\ i - 1 = Len(r)
        BY <1>2, <3>1
      <4>2. s[i - 1] = r[Len(r)] /\ s[i] = n
        BY <1>2, <2>4, <3>1, <4>1
      <4> QED BY <2>6, <4>1, <4>2
    <3>2. CASE i # Len(r) + 1
      <4>1. i \in 2 .. Len(r) /\ i - 1 \in 1 .. Len(r) /\ i \in 1 .. Len(r)
        BY <1>2, <2>4, <3>2
      <4>2. s[i - 1] = r[i - 1] /\ s[i] = r[i]
        BY <2>4, <4>1
      <4> QED BY <1>2, <4>1, <4>2
    <3> QED BY <3>1, <3>2
  <2>8. ASSUME NEW i \in DOMAIN s PROVE \E j \in 1 .. e : w[j] = Part(s[i], "event", "end")
    <3>1. CASE i = Len(r) + 1
      <4>1. e \in 1 .. e
        BY <1>1
      <4> QED BY <2>3, <2>4, <3>1, <4>1
    <3>2. CASE i # Len(r) + 1
      <4>1. i \in DOMAIN r /\ s[i] = r[i]
        BY <1>2, <2>4, <2>5, <3>2
      <4>2. PICK j \in 1 .. c : w[j] = Part(r[i], "event", "end")
        BY <1>3, <4>1
      <4>3. j \in 1 .. e
        BY <1>1
      <4> QED BY <4>1, <4>2, <4>3
    <3> QED BY <3>1, <3>2
  <2>9. ASSUME NEW j \in 1 .. e, Intact(w, j) PROVE \E i \in DOMAIN s : s[i] = w[j].n
    <3>1. CASE j = e
      <4>1. Len(r) + 1 \in DOMAIN s
        BY <1>2, <2>5
      <4> QED BY <2>4, <3>1, <4>1
    <3>2. CASE j # e
      <4>1. PICK i \in DOMAIN r : r[i] = w[j].n
        BY <1>4, <1>5, <2>9, <3>2
      <4>2. i \in DOMAIN s /\ s[i] = r[i]
        BY <1>2, <2>4, <2>5
      <4> QED BY <4>1, <4>2
    <3> QED BY <3>1, <3>2
  <2>10. Written(w, e, s)
    BY <2>4, <2>7, <2>8, <2>9 DEF Written
  <2> QED BY <1>6, <2>1, <2>10 DEF s
<1>7. CASE ~Recorded(l)
  <2>1. ASSUME NEW j \in 1 .. e, Intact(w, j) PROVE \E i \in DOMAIN r : r[i] = w[j].n
    <3>1. j # e
      BY <1>7, <2>1, EventIsARow
    <3> QED BY <1>4, <1>5, <2>1, <3>1
  <2>2. \A i \in DOMAIN r : \E j \in 1 .. e : w[j] = Part(r[i], "event", "end")
    <3>1. \A j \in 1 .. c : j \in 1 .. e
      BY <1>1
    <3> QED BY <1>3, <3>1
  <2>3. Written(w, e, r)
    BY <1>2, <2>1, <2>2 DEF Written
  <2> QED BY <1>7, <2>3
<1> QED BY <1>6, <1>7

(* ... and one that begins behind a line end is not cut.                    *)
LEMMA NotCut ==
  ASSUME Sent(wire), NEW e \in DOMAIN wire, wire[e] = Part(wire[e].n, "event", "end"),
         ~CutBefore(wire[e].n)
  PROVE  Intact(wire, e)
<1> DEFINE n == wire[e].n
<1>1. Len(wire) \in Nat /\ DOMAIN wire = 1 .. Len(wire)
  BY DEF Sent
<1>2. wire[e].part = "end" /\ wire[e].kind = "event"
  BY DEF Part
<1>3. e >= 4 /\ wire[e - 3].part = "head" /\ wire[e - 3].n = n
  BY <1>2, EventIsWhole
<1>4. \A i \in DOMAIN wire : wire[i].n \in Nat
  BY DEF Sent, IsPart
<1>5. CASE e > 4
  <2> DEFINE h == e - 3
             p == e - 4
  <2>1. h \in 2 .. Len(wire) /\ h \in DOMAIN wire /\ p \in DOMAIN wire /\ h - 1 = p /\ p + 1 = h
        /\ h = e - 3 /\ p = e - 4
    BY <1>1, <1>5
  <2> HIDE DEF h, p
  <2>2. wire[h].n = n /\ wire[h].part = "head"
    BY <1>3, <2>1
  <2>3. Follows(wire[h - 1], wire[h])
    BY <2>1 DEF Sent
  <2>4. wire[p].n + 1 = n
    BY <2>1, <2>2, <2>3 DEF Follows
  <2>5. wire[p].n >= 1
    <3>1. 1 \in DOMAIN wire /\ 1 <= p /\ wire # <<>>
      BY <1>1, <2>1
    <3>2. wire[1].n = 1
      BY <3>1 DEF Sent
    <3>3. wire[1].n <= wire[p].n
      BY <2>1, <3>1, InOrderOfLines
    <3> QED BY <1>4, <2>1, <3>2, <3>3
  <2>6. n > 1
    BY <1>4, <2>1, <2>4, <2>5
  <2>7. PICK i \in DOMAIN wire : wire[i].n = n - 1 /\ wire[i].part = "end"
    BY <2>6 DEF CutBefore
  <2>8. i = p
    <3>1. CASE i > p
      <4>1. h <= i
        BY <1>1, <2>1, <3>1
      <4>2. wire[h].n <= wire[i].n
        BY <2>1, <4>1, InOrderOfLines
      <4> QED BY <1>4, <2>2, <2>7, <4>2
    <3>2. CASE i < p
      <4> DEFINE d == i + 1
      <4>1. d \in 2 .. Len(wire) /\ d \in DOMAIN wire /\ d - 1 = i /\ d <= p
        BY <1>1, <2>1, <3>2
      <4> HIDE DEF d
      <4>2. Follows(wire[d - 1], wire[d])
        BY <4>1 DEF Sent
      <4>3. wire[d].n = wire[i].n + 1
        BY <2>7, <4>1, <4>2 DEF Follows
      <4>4. wire[d].n <= wire[p].n
        BY <2>1, <4>1, InOrderOfLines
      <4> QED BY <1>4, <2>1, <2>4, <2>7, <4>1, <4>3, <4>4
    <3> QED BY <1>1, <2>1, <3>1, <3>2
  <2>9. wire[e - 4].part = "end"
    BY <2>1, <2>7, <2>8
  <2> QED BY <1>2, <1>5, <2>9 DEF Intact
<1>6. CASE e = 4
  BY <1>2, <1>6 DEF Intact
<1> QED BY <1>1, <1>3, <1>5, <1>6

(* What the logger keeps is the stream behind the last line end it has come *)
(* to, and the rows are those of the stream in front of it.                 *)
Behind(w, c) == SubSeq(w, c + 1, Len(w))
AtLineEnd(w, c) == c \in 0 .. Len(w) /\ (c = 0 \/ w[c].part = "end")
NoLine(w, c) == \A j \in c + 1 .. Len(w) : w[j].part # "end"
LoggerInv ==
  /\ Sent(wire)
  /\ \E c \in 0 .. Len(wire) :
       /\ AtLineEnd(wire, c) /\ pending = Behind(wire, c) /\ Written(wire, c, rows)
       /\ (loggerPc = "recv" => NoLine(wire, c))
  /\ (loggerPc = "connect" => wire = <<>> /\ pending = <<>>)

(* A logger that begins.                                                    *)
LEMMA LoggerBegins ==
  ASSUME NEW w, NEW p, NEW r, w = <<>>, p = <<>>, r = <<>>
  PROVE  /\ Sent(w) /\ 0 \in 0 .. Len(w) /\ AtLineEnd(w, 0) /\ p = Behind(w, 0)
         /\ Written(w, 0, r) /\ NoLine(w, 0)
<1>1. Sent(w)
  BY DEF Sent
<1>2. Len(w) = 0 /\ p = Behind(w, 0)
  BY DEF Behind
<1>3. Written(w, 0, r)
  BY NothingWritten
<1>4. NoLine(w, 0) /\ AtLineEnd(w, 0)
  BY <1>2 DEF NoLine, AtLineEnd
<1> QED BY <1>1, <1>2, <1>3, <1>4

(* A read is kept behind what was kept.                                     *)
LEMMA ReadIsKept ==
  ASSUME NEW w, Sent(w), NEW v, Extends(v, w), NEW c \in 0 .. Len(w)
  PROVE  Behind(w, c) \o SubSeq(v, Len(w) + 1, Len(v)) = Behind(v, c)
<1>1. /\ w \in Seq(AllParts) /\ v \in Seq(AllParts) /\ Len(w) \in Nat /\ Len(v) \in Nat
      /\ Len(w) <= Len(v) /\ \A i \in 1 .. Len(w) : v[i] = w[i]
  BY DEF Sent, Extends
<1> DEFINE a == Behind(w, c)
           b == SubSeq(v, Len(w) + 1, Len(v))
           d == Behind(v, c)
<1>2. a \in Seq(AllParts) /\ Len(a) = Len(w) - c /\ \A i \in 1 .. Len(w) - c : a[i] = w[c + i]
  BY <1>1 DEF Behind
<1>3. b \in Seq(AllParts) /\ Len(b) = Len(v) - Len(w)
      /\ \A i \in 1 .. Len(v) - Len(w) : b[i] = v[Len(w) + i]
  BY <1>1
<1>4. d \in Seq(AllParts) /\ Len(d) = Len(v) - c /\ \A i \in 1 .. Len(v) - c : d[i] = v[c + i]
  BY <1>1 DEF Behind
<1> HIDE DEF a, b, d
<1>5. a \o b \in Seq(AllParts) /\ Len(a \o b) = Len(v) - c
  BY <1>1, <1>2, <1>3
<1>6. ASSUME NEW i \in 1 .. Len(v) - c PROVE (a \o b)[i] = d[i]
  <2>1. d[i] = v[c + i]
    BY <1>4
  <2>2. CASE i <= Len(w) - c
    <3>1. i \in 1 .. Len(a) /\ i \in 1 .. Len(w) - c /\ c + i \in 1 .. Len(w)
      BY <1>1, <1>2, <2>2
    <3>2. (a \o b)[i] = a[i]
      BY <1>2, <1>3, <3>1
    <3> QED BY <1>1, <1>2, <2>1, <3>1, <3>2
  <2>3. CASE ~(i <= Len(w) - c)
    <3> DEFINE k == i - (Len(w) - c)
    <3>1. k \in 1 .. Len(v) - Len(w) /\ i = Len(a) + k /\ Len(w) + k = c + i /\ k \in 1 .. Len(b)
      BY <1>1, <1>2, <1>3, <2>3
    <3> HIDE DEF k
    <3>2. (a \o b)[i] = IF i <= Len(a) THEN a[i] ELSE b[i - Len(a)]
      <4>1. i \in 1 .. Len(a) + Len(b)
        BY <1>1, <1>2, <1>3
      <4> QED BY <1>2, <1>3, <4>1, ConcatProperties
    <3>3. ~(i <= Len(a)) /\ i - Len(a) = k
      BY <1>1, <1>2, <2>3, <3>1
    <3> QED BY <1>3, <2>1, <3>1, <3>2, <3>3
  <2> QED BY <2>2, <2>3
<1>7. a \o b = d
  BY <1>4, <1>5, <1>6, SeqEqual
<1> QED BY <1>7 DEF a, b, d

(* The first line end behind c ends a line, and nothing but the rest is     *)
(* kept of it.                                                              *)
LEMMA FirstLine ==
  ASSUME NEW w, Sent(w), NEW c, AtLineEnd(w, c), Places(Behind(w, c), "end") # {}
  PROVE  LET f == First(Places(Behind(w, c), "end"))
         IN  /\ OneLine(w, c, c + f) /\ AtLineEnd(w, c + f)
             /\ SubSeq(Behind(w, c), 1, f) = SubSeq(w, c + 1, c + f)
             /\ SubSeq(Behind(w, c), f + 1, Len(Behind(w, c))) = Behind(w, c + f)
<1> DEFINE p == Behind(w, c)
           f == First(Places(p, "end"))
           m == Len(w) - c
<1>1. w \in Seq(AllParts) /\ Len(w) \in Nat /\ c \in 0 .. Len(w) /\ m \in Nat
      /\ (c = 0 \/ w[c].part = "end")
  BY DEF Sent, AtLineEnd
<1>2. p \in Seq(AllParts) /\ Len(p) = m /\ DOMAIN p = 1 .. m /\ \A i \in 1 .. m : p[i] = w[c + i]
  BY <1>1 DEF Behind
<1> HIDE DEF p
<1>3. Places(p, "end") \in SUBSET Nat /\ Places(p, "end") # {}
  BY <1>2 DEF Places, p
<1>4. f \in Places(p, "end") /\ \A j \in Places(p, "end") : f <= j
  BY <1>3, FirstIs
<1> HIDE DEF f
<1>5. f \in 1 .. m /\ p[f].part = "end"
  BY <1>2, <1>4 DEF Places
<1>6. c + f \in c + 1 .. Len(w) /\ w[c + f].part = "end"
  BY <1>1, <1>2, <1>5
<1>7. ASSUME NEW j \in c + 1 .. c + f - 1 PROVE w[j].part # "end"
  <2> DEFINE k == j - c
  <2>1. k \in 1 .. m /\ k < f /\ c + k = j
    BY <1>1, <1>5
  <2> HIDE DEF k
  <2>2. p[k].part # "end"
    BY <1>2, <1>4, <1>5, <2>1 DEF Places
  <2> QED BY <1>2, <2>1, <2>2
<1>8. OneLine(w, c, c + f) /\ AtLineEnd(w, c + f)
  <2> DEFINE e == c + f
  <2>1. \A j \in c + 1 .. e - 1 : w[j].part # "end"
    BY <1>1, <1>5, <1>7 DEF e
  <2>2. e \in c + 1 .. Len(w) /\ w[e].part = "end"
    BY <1>6 DEF e
  <2> HIDE DEF e
  <2>3. e \in 0 .. Len(w)
    BY <1>1, <2>2
  <2>4. OneLine(w, c, e) /\ AtLineEnd(w, e)
    BY <1>1, <2>1, <2>2, <2>3 DEF OneLine, AtLineEnd
  <2> QED BY <2>4 DEF e
<1>9. SubSeq(p, 1, f) = SubSeq(w, c + 1, c + f)
  BY <1>1, <1>2, <1>5
<1>10. SubSeq(p, f + 1, Len(p)) = Behind(w, c + f)
  BY <1>1, <1>2, <1>5 DEF Behind
<1> QED BY <1>8, <1>9, <1>10 DEF f, p

(* What the invariant says when the logger is back at recv.                 *)
LEMMA InvLogged ==
  ASSUME LoggerInv
  PROVE  LoggedEvents
<1>1. PICK c \in 0 .. Len(wire) : Written(wire, c, rows) /\ (loggerPc = "recv" => NoLine(wire, c))
  BY DEF LoggerInv
<1>2. Sent(wire) /\ Len(wire) \in Nat /\ DOMAIN wire = 1 .. Len(wire)
  BY DEF LoggerInv, Sent
<1>3. \A i \in 2 .. Len(rows) : rows[i - 1] < rows[i]
  BY <1>1 DEF Written
<1>4. \A i \in DOMAIN rows : \E j \in DOMAIN wire : wire[j] = Part(rows[i], "event", "end")
  <2>1. \A j \in 1 .. c : j \in DOMAIN wire
    BY <1>2
  <2> QED BY <1>1, <2>1 DEF Written
<1>5. ASSUME loggerPc = "recv", NEW i \in DOMAIN wire,
             wire[i] = Part(wire[i].n, "event", "end"), ~CutBefore(wire[i].n)
      PROVE  \E j \in DOMAIN rows : rows[j] = wire[i].n
  <2>1. Intact(wire, i)
    BY <1>2, <1>5, NotCut
  <2>2. ~(i \in c + 1 .. Len(wire))
    BY <1>1, <1>5, <2>1 DEF NoLine, Intact
  <2>3. i \in 1 .. c
    BY <1>2, <2>2
  <2> QED BY <1>1, <2>1, <2>3 DEF Written
<1> QED BY <1>3, <1>4, <1>5 DEF LoggedEvents

(* However the stream is cut into reads, a row is an event whose line came  *)
(* to its end, each once and in the order of the stream, and the logger is  *)
(* back at recv with a row for every such event (pc_event_logger.cpp, main  *)
(* and record_event).                                                       *)
THEOREM EventsLogged == LoggerSpec => []LoggedEvents
<1>1. LoggerInit => LoggerInv
  <2> SUFFICES ASSUME LoggerInit PROVE LoggerInv
    OBVIOUS
  <2>1. wire = <<>> /\ pending = <<>> /\ rows = <<>> /\ loggerPc = "off"
    BY DEF LoggerInit
  <2> QED BY <2>1, LoggerBegins DEF LoggerInv
<1>2. LoggerInv /\ [LoggerNext]_loggerVars => LoggerInv'
  <2> SUFFICES ASSUME LoggerInv, [LoggerNext]_loggerVars PROVE LoggerInv'
    OBVIOUS
  <2>1. Sent(wire) /\ (loggerPc = "connect" => wire = <<>> /\ pending = <<>>)
    BY DEF LoggerInv
  <2>2. PICK c \in 0 .. Len(wire) :
          /\ AtLineEnd(wire, c) /\ pending = Behind(wire, c) /\ Written(wire, c, rows)
          /\ (loggerPc = "recv" => NoLine(wire, c))
    BY DEF LoggerInv
  <2>3. ASSUME UNCHANGED <<pending, rows, wire>>, loggerPc' # "connect",
               loggerPc' = "recv" => NoLine(wire, c)
        PROVE  LoggerInv'
    BY <2>1, <2>2, <2>3 DEF LoggerInv
  <2>4. CASE StartLogger
    <3>1. wire' = <<>> /\ pending' = <<>> /\ rows' = <<>> /\ loggerPc' = "connect"
      BY <2>4 DEF StartLogger
    <3> QED BY <3>1, LoggerBegins DEF LoggerInv
  <2>5. CASE ConnectAndSubscribe
    <3>1. UNCHANGED <<pending, rows, wire>> /\ loggerPc' = "recv" /\ wire = <<>>
      BY <2>1, <2>5 DEF ConnectAndSubscribe
    <3>2. NoLine(wire, c)
      BY <3>1 DEF NoLine
    <3> QED BY <2>3, <3>1, <3>2
  <2>6. CASE CannotSubscribe
    BY <2>3, <2>6 DEF CannotSubscribe
  <2>7. CASE Interrupt \/ UNCHANGED loggerVars
    <3>1. UNCHANGED <<pending, rows, wire, loggerPc>>
      BY <2>7 DEF Interrupt, loggerVars
    <3> QED BY <2>1, <2>2, <3>1 DEF LoggerInv
  <2>8. CASE ReceiveEvents
    <3>1. /\ wire' \in Longer(wire) /\ pending' = pending \o SubSeq(wire', Len(wire) + 1, Len(wire'))
          /\ rows' = rows /\ loggerPc' = "lines"
      BY <2>8 DEF ReceiveEvents
    <3>2. Extends(wire', wire)
      BY <2>1, <3>1, LongerIs
    <3>3. Written(wire', c, rows')
      BY <2>1, <2>2, <3>1, <3>2, WrittenStays
    <3>4. pending' = Behind(wire', c)
      BY <2>1, <2>2, <3>1, <3>2, ReadIsKept
    <3>5. c \in 0 .. Len(wire') /\ AtLineEnd(wire', c)
      <4>1. /\ Len(wire) \in Nat /\ Len(wire') \in Nat /\ Len(wire) <= Len(wire')
            /\ \A i \in 1 .. Len(wire) : wire'[i] = wire[i]
        BY <2>1, <3>2 DEF Extends, Sent
      <4> QED BY <2>2, <4>1 DEF AtLineEnd
    <3>6. Sent(wire')
      BY <3>2 DEF Extends
    <3> QED BY <3>1, <3>3, <3>4, <3>5, <3>6 DEF LoggerInv
  <2>9. CASE RecordLine
    <3> DEFINE f == First(Places(pending, "end"))
    <3>1. CASE Places(pending, "end") = {}
      <4>1. UNCHANGED <<pending, rows, wire>> /\ loggerPc' = "recv"
        BY <2>9, <3>1 DEF RecordLine
      <4>2. NoLine(wire, c)
        <5> SUFFICES ASSUME NEW j \in c + 1 .. Len(wire) PROVE wire[j].part # "end"
          BY DEF NoLine
        <5>1. Len(wire) \in Nat /\ wire \in Seq(AllParts)
          BY <2>1 DEF Sent
        <5> DEFINE k == j - c
        <5>2. k \in 1 .. Len(wire) - c /\ c + k = j
          BY <5>1
        <5>3. DOMAIN pending = 1 .. Len(wire) - c /\ pending[k] = wire[c + k]
          BY <2>2, <5>1, <5>2 DEF Behind
        <5> HIDE DEF k
        <5> QED BY <3>1, <5>2, <5>3 DEF Places
      <4> QED BY <2>3, <4>1, <4>2
    <3>2. CASE Places(pending, "end") # {}
      <4>1. /\ pending' = SubSeq(pending, f + 1, Len(pending))
            /\ rows' = IF Recorded(SubSeq(pending, 1, f))
                       THEN Append(rows, TypeOf(SubSeq(pending, 1, f)).n) ELSE rows
            /\ loggerPc' = "lines" /\ wire' = wire
        BY <2>9, <3>2 DEF RecordLine
      <4> HIDE DEF f
      <4>2. /\ OneLine(wire, c, c + f) /\ AtLineEnd(wire, c + f)
            /\ SubSeq(pending, 1, f) = SubSeq(wire, c + 1, c + f)
            /\ SubSeq(pending, f + 1, Len(pending)) = Behind(wire, c + f)
        BY <2>1, <2>2, <3>2, FirstLine DEF f
      <4>3. Written(wire, c + f, rows')
        <5>1. rows' = IF Recorded(SubSeq(wire, c + 1, c + f))
                      THEN Append(rows, TypeOf(SubSeq(wire, c + 1, c + f)).n) ELSE rows
          BY <4>1, <4>2
        <5> QED BY <2>1, <2>2, <4>2, <5>1, OneMoreRow
      <4>4. c + f \in 0 .. Len(wire)
        BY <4>2 DEF AtLineEnd
      <4> QED BY <2>1, <4>1, <4>2, <4>3, <4>4 DEF LoggerInv
    <3> QED BY <3>1, <3>2
  <2>10. CASE EndLogger
    BY <2>3, <2>10 DEF EndLogger
  <2> QED BY <2>4, <2>5, <2>6, <2>7, <2>8, <2>9, <2>10 DEF LoggerNext
<1> QED BY <1>1, <1>2, InvLogged, PTL DEF LoggerSpec

==============================================================================
