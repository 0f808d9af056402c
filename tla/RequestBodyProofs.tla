-------------------------- MODULE RequestBodyProofs --------------------------
(* Proofs about the body of a request, for any chunks, any size lines that   *)
(* say their lengths, any number of chunks, any buffer and any stalls.       *)
(*                                                                           *)
(* A message in chunks has a layout: the places at which its lines, its data *)
(* and its line ends stand.  The sender's encoding has one (LaidOut); the    *)
(* invariant relates the reader to it: wherever a Read is, what it has       *)
(* delivered is the data in front of the place it is at, and the line it     *)
(* has in hand is the one that begins there.  One lemma per step of the      *)
(* reader shows that the step moves along the layout.                        *)
EXTENDS RequestBody, SequenceTheorems, WellFoundedInduction, TLAPS

(* What a byte is.  The provers do not see that a literal is a string.      *)
Byte == STRING \cup {"CR", "LF"}

(* The sequence u is a beginning of v, byte by byte.                        *)
Starts(u, v) == Len(u) <= Len(v) /\ \A m \in 1..Len(u) : u[m] = v[m]

(* Where everything is in a chunked message that was not damaged: line k    *)
(* begins behind at[k - 1], and D[k] is the data of the first k chunks.     *)
Layout(n, cs, ls, at, D, whole) ==
  /\ n \in Nat
  /\ cs \in [1..n -> Seq(Byte)] /\ ls \in [1..(n + 1) -> Seq(Byte)]
  /\ at \in [0..n -> Nat] /\ D \in [0..n -> Seq(Byte)]
  /\ whole \in Seq(Byte) /\ wire \in Seq(Byte) /\ body \in Seq(Byte)
  /\ at[0] = 0 /\ D[n] = body
  /\ \A k \in 0..n : Starts(D[k], body)
  /\ \A k \in 1..n :
       /\ at[k] = at[k - 1] + Len(ls[k]) + Len(cs[k]) + 4
       /\ \A m \in 1..Len(cs[k]) : whole[at[k] - 2 - Len(cs[k]) + m] = cs[k][m]
       /\ whole[at[k] - 1] = "CR" /\ whole[at[k]] = "LF"
       /\ D[k] = D[k - 1] \o cs[k]
       /\ Len(cs[k]) > 0 /\ Says(ls[k], Len(cs[k]))
  /\ \A k \in 0..n :
       /\ at[k] + Len(ls[k + 1]) + 4 <= Len(whole)
       /\ \A m \in 1..Len(ls[k + 1]) : whole[at[k] + m] = ls[k + 1][m] /\ ls[k + 1][m] # "CR"
       /\ whole[at[k] + Len(ls[k + 1]) + 1] = "CR" /\ whole[at[k] + Len(ls[k + 1]) + 2] = "LF"
  /\ at[n] + Len(ls[n + 1]) + 4 = Len(whole) /\ Says(ls[n + 1], 0)
  /\ whole[Len(whole) - 1] = "CR" /\ whole[Len(whole)] = "LF"
  /\ \A m \in 1..Len(wire) : m <= Len(whole) => wire[m] = whole[m]
  /\ fault \in {"none", "cut"}
  /\ fault = "none" => Len(wire) = Len(whole) + Len(NextRequest)
  /\ fault = "cut" => Len(wire) <= Len(whole)

NoCR(l) == \A m \in 1..Len(l) : l[m] # "CR"

(* The line behind chunk k is read from position p on.  That is the wrong   *)
(* place after a Read that failed in the line end of the chunk.             *)
LineStart(n, at, k, p) ==
  /\ k \in 0..n /\ p \in Nat /\ p <= at[k] /\ at[k] <= p + 2
  /\ k = 0 => p = 0
  /\ fault = "none" /\ p # at[k] => failed

Quiet == line = <<>> /\ pair = <<>>

(* Between two calls, at the end of a chunk.                                *)
AtIdle(n, at, D) ==
  /\ pc = "idle" /\ bytesLeft = 0 /\ Quiet
  /\ \E k \in 0..n : LineStart(n, at, k, pos) /\ out = D[k]

(* In a size line, ...                                                      *)
InLine(n, at, D) ==
  /\ pc = "line" /\ bytesLeft = 0 /\ (buffered => Quiet) /\ Len(pair) <= 2 /\ NoCR(line)
  /\ \E k \in 0..n, p \in Nat :
       /\ LineStart(n, at, k, p) /\ out = D[k]
       /\ pos = p + Len(line) + Len(pair)
       /\ \A m \in 1..Len(line) : line[m] = wire[p + m]
       /\ \A m \in 1..Len(pair) : pair[m] = wire[p + Len(line) + m]

(* ... behind its CR, ...                                                   *)
InLF(n, at, D) ==
  /\ pc = "lf" /\ bytesLeft = 0 /\ 1 <= Len(pair) /\ Len(pair) <= 2 /\ NoCR(line)
  /\ pair[1] # "CR"
  /\ \E k \in 0..n, p \in Nat :
       /\ LineStart(n, at, k, p) /\ out = D[k]
       /\ pos = p + Len(line) + Len(pair) + 1
       /\ \A m \in 1..Len(line) : line[m] = wire[p + m]
       /\ wire[p + Len(line) + 1] = pair[1] /\ wire[p + Len(line) + 2] = "CR"
       /\ Len(pair) = 2 => pair[2] = wire[pos]

(* ... in a chunk, ...                                                      *)
InBody(n, cs, at, D) ==
  /\ pc \in {"idle", "body"} /\ bytesLeft > 0 /\ Quiet
  /\ \E k \in 1..n :
       /\ bytesLeft <= Len(cs[k]) /\ pos = at[k] - 2 - bytesLeft
       /\ out = D[k - 1] \o SubSeq(cs[k], 1, Len(cs[k]) - bytesLeft)

(* ... in the line end behind it, and in the one behind the last chunk.     *)
InCRLF(n, at, D) ==
  /\ pc = "crlf" /\ bytesLeft = 0 /\ line = <<>> /\ Len(pair) <= 2
  /\ \E k \in 1..n :
       /\ out = D[k] /\ pos = at[k] - 2 + Len(pair)
       /\ \A m \in 1..Len(pair) : pair[m] = wire[at[k] - 2 + m]
InLast(whole) ==
  /\ pc = "lastcrlf" /\ bytesLeft = -1 /\ line = <<>> /\ Len(pair) <= 2
  /\ out = body /\ pos = Len(whole) - 2 + Len(pair)
  /\ \A m \in 1..Len(pair) : pair[m] = wire[Len(whole) - 2 + m]

(* Nothing more is read.                                                    *)
AtEnd(whole) ==
  /\ pc = "idle" /\ bytesLeft = -1 /\ Quiet /\ Starts(out, body)
  /\ fault = "none" => pos <= Len(whole) /\ (~failed => out = body /\ pos = Len(whole))

Where(n, cs, at, D, whole) ==
  \/ AtIdle(n, at, D) \/ InLine(n, at, D) \/ InLF(n, at, D) \/ InBody(n, cs, at, D)
  \/ InCRLF(n, at, D) \/ InLast(whole) \/ AtEnd(whole)

(* Whether Read has failed, and what it has said.                           *)
Outcome ==
  /\ pos \in Nat /\ pos <= Len(wire) /\ room \in Nat /\ stalls \in Nat /\ bytesLeft \in Int
  /\ line \in Seq(Byte) /\ pair \in Seq(Byte) /\ out \in Seq(Byte)
  /\ failed \in BOOLEAN /\ closed \in BOOLEAN
  /\ fault = "none" /\ stalls = 0 /\ ~closed => ~failed
  /\ pc # "idle" => result = "nil"
  /\ fault = "none" /\ result = "EOF" /\ ~failed => pc = "idle" /\ bytesLeft = -1

Chunked(n, cs, ls, at, D, whole) ==
  Layout(n, cs, ls, at, D, whole) /\ Where(n, cs, at, D, whole) /\ Outcome

------------------------------------------------------------------------------
(* Sequences one behind the other.                                          *)

LEMMA LeastNumber ==
  ASSUME NEW S, S \subseteq Nat, S # {}
  PROVE  \E x \in S : \A y \in S : x <= y
<1> DEFINE Below == {p \in Nat \X Nat : p[1] < p[2]}
<1>1. IsWellFoundedOn(Below, Nat)
  BY NatLessThanWellFounded DEF OpToRel
<1>2. PICK x \in S : \A y \in S : ~(<<y, x>> \in Below)
  BY <1>1, WFMin
<1>3. ASSUME NEW y \in S PROVE x <= y
  <2>1. y < x => <<y, x>> \in Below
    OBVIOUS
  <2> QED
    BY <1>2, <2>1
<1> QED
  BY <1>3

(* The recursion of Beginnings defines a function.                          *)
Growing(f, ss, n) ==
  /\ f \in [0..n -> Seq(Byte)]
  /\ f[0] = <<>> /\ \A k \in 1..n : f[k] = f[k - 1] \o ss[k]

LEMMA GrowingExists ==
  ASSUME NEW n \in Nat, NEW ss \in [1..n -> Seq(Byte)]
  PROVE  \E f : Growing(f, ss, n)
<1> DEFINE Missing == {m \in Nat : m <= n /\ ~ \E f : Growing(f, ss, m)}
<1>0. n <= n
  OBVIOUS
<1> SUFFICES ASSUME Missing # {} PROVE FALSE
  BY <1>0, Zenon
<1>1. PICK m \in Missing : \A k \in Missing : m <= k
  BY LeastNumber
<1>2. m \in Nat /\ m <= n /\ ~ \E f : Growing(f, ss, m)
  OBVIOUS
<1>3. m # 0
  <2>1. Growing([k \in 0..0 |-> <<>>], ss, 0)
    BY DEF Growing
  <2> QED
    BY <1>2, <2>1
<1>4. m - 1 \in Nat /\ m - 1 <= n /\ ~(m <= m - 1)
  BY <1>2, <1>3
<1>5. PICK g : Growing(g, ss, m - 1)
  BY <1>1, <1>4
<1> HIDE DEF Missing
<1> DEFINE f == [k \in 0..m |-> IF k < m THEN g[k] ELSE g[m - 1] \o ss[m]]
<1>6. ss[m] \in Seq(Byte) /\ g[m - 1] \in Seq(Byte)
  BY <1>2, <1>3, <1>4, <1>5 DEF Growing
<1>7. g[m - 1] \o ss[m] \in Seq(Byte)
  BY <1>6
<1>8. \A k \in 0..m : k < m => k \in 0..(m - 1) /\ f[k] = g[k]
  BY <1>2
<1>9. m \in 0..m /\ ~(m < m) /\ 0 \in 0..m /\ 0 < m
  BY <1>2, <1>3
<1>10. f[m] = g[m - 1] \o ss[m]
  BY <1>9
<1>11. f \in [0..m -> Seq(Byte)]
  BY <1>2, <1>5, <1>7, <1>8 DEF Growing
<1> HIDE DEF f
<1>12. f[0] = <<>>
  BY <1>5, <1>8, <1>9 DEF Growing
<1>13. ASSUME NEW k \in 1..m PROVE f[k] = f[k - 1] \o ss[k]
  <2>1. k - 1 \in 0..m /\ k - 1 < m /\ f[k - 1] = g[k - 1]
    BY <1>2, <1>8
  <2>2. CASE k = m
    BY <1>10, <2>1, <2>2
  <2>3. CASE k < m
    <3>1. k \in 0..m /\ k \in 1..(m - 1)
      BY <1>2, <2>3
    <3>2. f[k] = g[k] /\ g[k] = g[k - 1] \o ss[k]
      BY <1>5, <1>8, <2>3, <3>1 DEF Growing
    <3> QED
      BY <2>1, <3>2
  <2>4. k = m \/ k < m
    BY <1>2
  <2> QED
    BY <2>2, <2>3, <2>4
<1>14. Growing(f, ss, m)
  BY <1>11, <1>12, <1>13 DEF Growing
<1> QED
  BY <1>2, <1>14

LEMMA BeginningsGrow ==
  ASSUME NEW n \in Nat, NEW ss \in [1..n -> Seq(Byte)]
  PROVE  Growing(Beginnings(ss, n), ss, n)
<1> DEFINE B(f) == [k \in 0..n |-> IF k = 0 THEN <<>> ELSE f[k - 1] \o ss[k]]
           F == Beginnings(ss, n)
<1>1. F = CHOOSE f : f = B(f)
  BY DEF Beginnings
<1>2. PICK g : Growing(g, ss, n)
  BY GrowingExists
<1>3. g = B(g)
  <2>1. g \in [0..n -> Seq(Byte)]
    BY <1>2 DEF Growing
  <2>2. ASSUME NEW k \in 0..n PROVE g[k] = IF k = 0 THEN <<>> ELSE g[k - 1] \o ss[k]
    <3>1. k = 0 \/ k \in 1..n
      OBVIOUS
    <3> QED
      BY <1>2, <3>1 DEF Growing
  <2> QED
    BY <2>1, <2>2
<1>4. F = B(F)
  <2> HIDE DEF B, F
  <2> QED
    BY <1>1, <1>3, Zenon
<1> HIDE DEF F
<1>5. /\ DOMAIN F = 0..n /\ F = [k \in 0..n |-> F[k]]
      /\ F[0] = <<>> /\ \A k \in 1..n : F[k] = F[k - 1] \o ss[k]
  <2>1. /\ DOMAIN F = 0..n /\ F = [k \in 0..n |-> F[k]]
        /\ \A k \in 0..n : F[k] = IF k = 0 THEN <<>> ELSE F[k - 1] \o ss[k]
    BY <1>4
  <2>2. \A k \in 1..n : k \in 0..n /\ k # 0
    OBVIOUS
  <2>3. 0 \in 0..n
    OBVIOUS
  <2> QED
    BY <2>1, <2>2, <2>3
<1>6. \A k \in 0..n : F[k] \in Seq(Byte)
  <2> DEFINE Bad == {k \in Nat : k <= n /\ F[k] \notin Seq(Byte)}
  <2>1. SUFFICES ASSUME Bad # {} PROVE FALSE
    OBVIOUS
  <2>2. PICK k \in Bad : \A m \in Bad : k <= m
    BY <2>1, LeastNumber
  <2>3. k \in Nat /\ k <= n /\ F[k] \notin Seq(Byte)
    OBVIOUS
  <2>4. k # 0
    <3>1. <<>> \in Seq(Byte)
      OBVIOUS
    <3> QED
      BY <1>5, <2>3, <3>1, Zenon
  <2>5. k - 1 \in Nat /\ k - 1 <= n /\ ~(k <= k - 1) /\ k \in 1..n
    BY <2>3, <2>4
  <2>6. F[k - 1] \in Seq(Byte)
    BY <2>2, <2>5
  <2>7. ss[k] \in Seq(Byte)
    BY <2>5
  <2>8. F[k - 1] \o ss[k] \in Seq(Byte)
    BY <2>6, <2>7
  <2>9. F[k] = F[k - 1] \o ss[k]
    BY <1>5, <2>5
  <2> QED
    BY <2>3, <2>8, <2>9
<1>7. F \in [0..n -> Seq(Byte)]
  BY <1>5, <1>6
<1> QED
  BY <1>5, <1>7 DEF Growing, F

Joins(w, u, v) ==
  /\ w \in Seq(Byte) /\ Len(w) = Len(u) + Len(v)
  /\ Len(u) \in Nat /\ Len(v) \in Nat /\ Len(w) \in Nat
  /\ \A m \in 1..Len(u) : w[m] = u[m]
  /\ \A m \in 1..Len(v) : w[Len(u) + m] = v[m]

LEMMA Joining ==
  ASSUME NEW u \in Seq(Byte), NEW v \in Seq(Byte)
  PROVE  Joins(u \o v, u, v)
  BY DEF Joins

LEMMA StartsTrans ==
  ASSUME NEW u, NEW v, NEW w, Len(u) \in Nat, Len(v) \in Nat, Len(w) \in Nat,
         Starts(u, v), Starts(v, w)
  PROVE  Starts(u, w)
  BY DEF Starts

LEMMA StartsJoined ==
  ASSUME NEW u \in Seq(Byte), NEW v \in Seq(Byte)
  PROVE  Starts(u, u \o v)
  BY Joining DEF Joins, Starts

LEMMA StartsIsPrefix ==
  ASSUME NEW u \in Seq(Byte), NEW v \in Seq(Byte), Starts(u, v)
  PROVE  IsPrefix(u, v)
<1>1. Len(u) \in Nat /\ Len(v) \in Nat /\ Len(u) <= Len(v) /\ \A m \in 1..Len(u) : u[m] = v[m]
  BY DEF Starts
<1> DEFINE a == SubSeq(u, 1, Len(u))
           b == SubSeq(v, 1, Len(u))
<1>2. a \in Seq(Byte) /\ Len(a) = Len(u) /\ \A m \in 1..Len(u) : a[m] = u[m]
  BY <1>1
<1>3. b \in Seq(Byte) /\ Len(b) = Len(u) /\ \A m \in 1..Len(u) : b[m] = v[m]
  BY <1>1
<1> HIDE DEF a, b
<1>4. a = b
  BY <1>1, <1>2, <1>3, SeqEqual
<1> QED
  BY <1>1, <1>4 DEF IsPrefix, a, b

(* What comes first stays first.                                            *)
LEMMA GrowingStarts ==
  ASSUME NEW n \in Nat, NEW ss \in [1..n -> Seq(Byte)], NEW f, Growing(f, ss, n),
         NEW j \in 0..n, NEW k \in 0..n, j <= k
  PROVE  Starts(f[j], f[k])
<1> DEFINE Bad == {m \in Nat : j <= m /\ m <= n /\ ~Starts(f[j], f[m])}
<1>0. \A m \in 0..n : f[m] \in Seq(Byte) /\ Len(f[m]) \in Nat
  BY DEF Growing
<1>1. SUFFICES ASSUME Bad # {} PROVE FALSE
  OBVIOUS
<1>2. PICK m \in Bad : \A x \in Bad : m <= x
  BY <1>1, LeastNumber
<1>3. m \in Nat /\ j <= m /\ m <= n /\ ~Starts(f[j], f[m])
  OBVIOUS
<1>4. m # j
  BY <1>0, <1>3 DEF Starts
<1>5. m - 1 \in Nat /\ j <= m - 1 /\ m - 1 <= n /\ ~(m <= m - 1) /\ m \in 1..n /\ m - 1 \in 0..n
  BY <1>3, <1>4
<1>6. Starts(f[j], f[m - 1])
  BY <1>2, <1>5
<1>7. f[m] = f[m - 1] \o ss[m] /\ ss[m] \in Seq(Byte)
  BY <1>5 DEF Growing
<1>8. Starts(f[m - 1], f[m])
  BY <1>0, <1>5, <1>7, StartsJoined
<1>9. Len(f[j]) \in Nat /\ Len(f[m - 1]) \in Nat /\ Len(f[m]) \in Nat
  BY <1>0, <1>3, <1>5
<1> QED
  BY <1>3, <1>6, <1>8, <1>9, StartsTrans

------------------------------------------------------------------------------
(* What a sender puts on the wire is laid out like that.                    *)

LEMMA LineEndIs == CRLF \in Seq(Byte) /\ Len(CRLF) = 2 /\ CRLF[1] = "CR" /\ CRLF[2] = "LF"
  BY DEF CRLF, Byte

(* A line, a line end, contents and another line end.                       *)
FrameOf(x, l, c) ==
  /\ x \in Seq(Byte) /\ Len(x) = Len(l) + Len(c) + 4
  /\ Len(x) \in Nat /\ Len(l) \in Nat /\ Len(c) \in Nat
  /\ \A m \in 1..Len(l) : x[m] = l[m]
  /\ x[Len(l) + 1] = "CR" /\ x[Len(l) + 2] = "LF"
  /\ \A m \in 1..Len(c) : x[Len(l) + 2 + m] = c[m]
  /\ x[Len(l) + Len(c) + 3] = "CR" /\ x[Len(l) + Len(c) + 4] = "LF"

LEMMA FrameIs ==
  ASSUME NEW l \in Seq(Byte), NEW c \in Seq(Byte)
  PROVE  FrameOf(l \o CRLF \o c \o CRLF, l, c)
<1> DEFINE a == l \o CRLF
           b == a \o c
           x == b \o CRLF
<1>0. Len(l) \in Nat /\ Len(c) \in Nat
  OBVIOUS
<1>1. /\ a \in Seq(Byte) /\ Len(a) = Len(l) + 2
      /\ \A m \in 1..Len(l) : a[m] = l[m]
      /\ a[Len(l) + 1] = "CR" /\ a[Len(l) + 2] = "LF"
  <2>1. Joins(a, l, CRLF)
    BY LineEndIs, Joining
  <2> HIDE DEF a
  <2>2. 1 \in 1..Len(CRLF) /\ 2 \in 1..Len(CRLF)
    BY LineEndIs
  <2> QED
    BY <1>0, <2>1, <2>2, LineEndIs DEF Joins
<1> HIDE DEF a
<1>2. /\ b \in Seq(Byte) /\ Len(b) = Len(a) + Len(c)
      /\ \A m \in 1..Len(a) : b[m] = a[m]
      /\ \A m \in 1..Len(c) : b[Len(a) + m] = c[m]
  BY <1>1, Joining DEF Joins
<1> HIDE DEF b
<1>3. /\ x \in Seq(Byte) /\ Len(x) = Len(b) + 2
      /\ \A m \in 1..Len(b) : x[m] = b[m]
      /\ x[Len(b) + 1] = "CR" /\ x[Len(b) + 2] = "LF"
  <2>1. Joins(x, b, CRLF)
    BY <1>2, LineEndIs, Joining
  <2> HIDE DEF x
  <2>2. 1 \in 1..Len(CRLF) /\ 2 \in 1..Len(CRLF)
    BY LineEndIs
  <2> QED
    BY <1>2, <2>1, <2>2, LineEndIs DEF Joins
<1> HIDE DEF x
<1>4. Len(b) = Len(l) + 2 + Len(c) /\ Len(x) = Len(l) + Len(c) + 4
  BY <1>0, <1>1, <1>2, <1>3
<1>5. ASSUME NEW m \in 1..Len(l) PROVE x[m] = l[m]
  <2>1. m \in 1..Len(a) /\ m \in 1..Len(b)
    BY <1>0, <1>1, <1>4
  <2> QED
    BY <1>1, <1>2, <1>3, <2>1
<1>6. x[Len(l) + 1] = "CR" /\ x[Len(l) + 2] = "LF"
  <2>1. Len(l) + 1 \in 1..Len(a) /\ Len(l) + 2 \in 1..Len(a)
        /\ Len(l) + 1 \in 1..Len(b) /\ Len(l) + 2 \in 1..Len(b)
    BY <1>0, <1>1, <1>4
  <2> QED
    BY <1>1, <1>2, <1>3, <2>1
<1>7. ASSUME NEW m \in 1..Len(c) PROVE x[Len(l) + 2 + m] = c[m]
  <2>1. Len(l) + 2 + m = Len(a) + m /\ Len(a) + m \in 1..Len(b)
    BY <1>0, <1>1, <1>4
  <2> QED
    BY <1>2, <1>3, <2>1
<1>8. x[Len(l) + Len(c) + 3] = "CR" /\ x[Len(l) + Len(c) + 4] = "LF"
  <2>1. Len(l) + Len(c) + 3 = Len(b) + 1 /\ Len(l) + Len(c) + 4 = Len(b) + 2
    BY <1>0, <1>4
  <2> QED
    BY <1>3, <2>1
<1>9. FrameOf(x, l, c)
  BY <1>0, <1>3, <1>4, <1>5, <1>6, <1>7, <1>8 DEF FrameOf
<1> QED
  BY <1>9 DEF x, b, a

LEMMA EmptyIs == <<>> \in Seq(Byte) /\ Len(<<>>) = 0 /\ \A u \in Seq(Byte) : u \o <<>> = u
  OBVIOUS

LEMMA StringsAreBytes == \A u \in Seq(STRING) : u \in Seq(Byte)
  BY DEF Byte

LEMMA ChunksTyped ==
  /\ \A c \in Chunks : c \in Seq(Byte) /\ Len(c) \in Nat /\ Len(c) > 0
  /\ \A l \in SizeLines : l \in Seq(Byte) /\ \A m \in 1..Len(l) : l[m] # "CR"
  /\ NextRequest \in Seq(Byte) /\ Len(NextRequest) \in Nat
  BY ChunkedAssumption, StringsAreBytes DEF ChunkedAssumption

LEMMA LaidOut ==
  ASSUME NEW n \in Nat, NEW cs \in [1..n -> Chunks], NEW ls \in [1..(n + 1) -> SizeLines],
         \A k \in 1..n : Says(ls[k], Len(cs[k])), Says(ls[n + 1], 0),
         body = Beginnings(cs, n)[n],
         NEW whole, whole = Encode(cs, ls, n),
         \/ wire = whole \o NextRequest /\ fault = "none"
         \/ (\E k \in 0..(Len(whole) - 1) : wire = SubSeq(whole, 1, k)) /\ fault = "cut"
  PROVE  \E at, D : Layout(n, cs, ls, at, D, whole) /\ D[0] = <<>>
<1> DEFINE X == Framed(cs, ls, n)
           W == Beginnings(X, n)
           D == Beginnings(cs, n)
           at == [k \in 0..n |-> Len(W[k])]
           last == ls[n + 1]
<1>1. /\ cs \in [1..n -> Seq(Byte)] /\ ls \in [1..(n + 1) -> Seq(Byte)]
      /\ \A k \in 1..n : cs[k] \in Seq(Byte) /\ Len(cs[k]) \in Nat /\ Len(cs[k]) > 0
      /\ \A k \in 1..(n + 1) : /\ ls[k] \in Seq(Byte) /\ Len(ls[k]) \in Nat
                               /\ \A m \in 1..Len(ls[k]) : ls[k][m] # "CR"
  BY ChunksTyped
<1>2. ASSUME NEW k \in 1..n PROVE FrameOf(X[k], ls[k], cs[k])
  <2>1. X[k] = ls[k] \o CRLF \o cs[k] \o CRLF
    BY DEF Framed
  <2>2. ls[k] \in Seq(Byte) /\ cs[k] \in Seq(Byte)
    BY <1>1
  <2> HIDE DEF X
  <2> QED
    BY <2>1, <2>2, FrameIs, Zenon
<1>3. X \in [1..n -> Seq(Byte)]
  BY <1>2 DEF Framed, FrameOf
<1> HIDE DEF X
<1>4. Growing(W, X, n) /\ Growing(D, cs, n)
  BY <1>1, <1>3, BeginningsGrow
<1>5. whole = W[n] \o last \o CRLF \o CRLF
  BY DEF Encode, W, X
<1> HIDE DEF W, D
<1>6. /\ \A k \in 0..n : /\ W[k] \in Seq(Byte) /\ Len(W[k]) \in Nat /\ at[k] = Len(W[k])
                         /\ D[k] \in Seq(Byte)
      /\ W[0] = <<>> /\ D[0] = <<>> /\ at \in [0..n -> Nat] /\ D \in [0..n -> Seq(Byte)]
      /\ at[0] = 0
  <2>1. /\ W \in [0..n -> Seq(Byte)] /\ W[0] = <<>>
        /\ D \in [0..n -> Seq(Byte)] /\ D[0] = <<>>
    BY <1>4 DEF Growing
  <2>2. \A k \in 0..n : W[k] \in Seq(Byte) /\ Len(W[k]) \in Nat /\ at[k] = Len(W[k])
    BY <2>1, SMTT(40)
  <2>3. at \in [0..n -> Nat]
    BY <2>2
  <2>4. at[0] = 0
    <3>1. 0 \in 0..n
      OBVIOUS
    <3> QED
      BY <2>1, <2>2, <3>1, EmptyIs
  <2> HIDE DEF at
  <2> QED
    BY <2>1, <2>2, <2>3, <2>4
<1> HIDE DEF at
<1>7. \A k \in 1..n : /\ k - 1 \in 0..n /\ k \in 0..n /\ k \in 1..(n + 1)
                     /\ W[k] = W[k - 1] \o X[k] /\ D[k] = D[k - 1] \o cs[k]
  <2> TAKE k \in 1..n
  <2>1. k - 1 \in 0..n /\ k \in 0..n /\ k \in 1..(n + 1)
    OBVIOUS
  <2>2. W[k] = W[k - 1] \o X[k] /\ D[k] = D[k - 1] \o cs[k]
    BY <1>4, Zenon DEF Growing
  <2> QED
    BY <2>1, <2>2
<1>8. n \in 0..n /\ n + 1 \in 1..(n + 1)
  OBVIOUS
(* The end of the message. *)
<1>9. /\ whole \in Seq(Byte) /\ Len(whole) \in Nat /\ Len(whole) = at[n] + Len(last) + 4
      /\ Starts(W[n], whole)
      /\ \A m \in 1..Len(last) : whole[at[n] + m] = last[m]
      /\ whole[at[n] + Len(last) + 1] = "CR" /\ whole[at[n] + Len(last) + 2] = "LF"
      /\ whole[Len(whole) - 1] = "CR" /\ whole[Len(whole)] = "LF"
  <2> DEFINE u == W[n] \o last
  <2>1. /\ last \in Seq(Byte) /\ W[n] \in Seq(Byte) /\ Len(last) \in Nat
        /\ Len(W[n]) \in Nat /\ at[n] = Len(W[n])
    BY <1>1, <1>6, <1>8
  <2> HIDE DEF last
  <2>2. /\ u \in Seq(Byte) /\ Len(u) = at[n] + Len(last)
        /\ \A m \in 1..Len(W[n]) : u[m] = W[n][m]
        /\ \A m \in 1..Len(last) : u[at[n] + m] = last[m]
    <3>1. Joins(u, W[n], last)
      BY <2>1, Joining, Zenon
    <3> HIDE DEF u
    <3> QED
      BY <2>1, <3>1 DEF Joins
  <2> HIDE DEF u
  <2>3. whole = u \o CRLF \o <<>> \o CRLF
    <3>1. u \o CRLF \in Seq(Byte)
      BY <2>2, LineEndIs, Joining DEF Joins
    <3>2. u \o CRLF \o <<>> = u \o CRLF
      BY <3>1, EmptyIs
    <3> QED
      BY <1>5, <3>2 DEF u, last
  <2>4. FrameOf(whole, u, <<>>)
    BY <2>2, <2>3, FrameIs, EmptyIs, Zenon
  <2>5. /\ whole \in Seq(Byte) /\ Len(whole) = Len(u) + 4
        /\ \A m \in 1..Len(u) : whole[m] = u[m]
        /\ whole[Len(u) + 1] = "CR" /\ whole[Len(u) + 2] = "LF"
        /\ whole[Len(u) + 3] = "CR" /\ whole[Len(u) + 4] = "LF"
    <3>1. Len(<<>>) = 0 /\ Len(u) \in Nat
      BY <2>2, EmptyIs
    <3>2. Len(u) + 0 + 4 = Len(u) + 4 /\ Len(u) + 0 + 3 = Len(u) + 3
      BY <3>1
    <3> QED
      BY <2>4, <3>1, <3>2 DEF FrameOf
  <2>6. Len(whole) = at[n] + Len(last) + 4 /\ Len(whole) \in Nat
    BY <2>1, <2>2, <2>5
  <2>7. Starts(W[n], whole)
    BY <2>1, <2>2, <2>5, <2>6, SMTT(40) DEF Starts
  <2>8. ASSUME NEW m \in 1..Len(last) PROVE whole[at[n] + m] = last[m]
    <3>1. at[n] + m \in 1..Len(u)
      BY <2>1, <2>2
    <3> QED
      BY <2>2, <2>5, <3>1
  <2>9. /\ Len(u) + 1 = at[n] + Len(last) + 1 /\ Len(u) + 2 = at[n] + Len(last) + 2
        /\ Len(u) + 3 = Len(whole) - 1 /\ Len(u) + 4 = Len(whole)
    BY <2>1, <2>2, <2>6
  <2> QED
    BY <2>5, <2>6, <2>7, <2>8, <2>9
(* The frame of a chunk. *)
<1>10. ASSUME NEW k \in 1..n
       PROVE  /\ at[k] = at[k - 1] + Len(ls[k]) + Len(cs[k]) + 4 /\ at[k] <= Len(whole)
              /\ at[k] <= at[n] /\ at[k - 1] \in Nat /\ at[k] \in Nat
              /\ \A m \in 1..Len(X[k]) : whole[at[k - 1] + m] = X[k][m]
  <2>1. /\ W[k - 1] \in Seq(Byte) /\ X[k] \in Seq(Byte) /\ W[k] = W[k - 1] \o X[k]
        /\ at[k] = Len(W[k]) /\ at[k - 1] = Len(W[k - 1])
        /\ Len(X[k]) = Len(ls[k]) + Len(cs[k]) + 4
        /\ Len(ls[k]) \in Nat /\ Len(cs[k]) \in Nat /\ at[k] \in Nat /\ at[k - 1] \in Nat
        /\ Len(W[n]) \in Nat /\ Len(W[n]) = at[n]
    BY <1>2, <1>6, <1>7, <1>8 DEF FrameOf
  <2>2. /\ at[k] = at[k - 1] + Len(X[k])
        /\ \A m \in 1..Len(X[k]) : W[k][at[k - 1] + m] = X[k][m]
    <3>1. Joins(W[k], W[k - 1], X[k])
      BY <2>1, Joining, Zenon
    <3> QED
      BY <2>1, <3>1 DEF Joins
  <2>3. Starts(W[k], W[n])
    <3>1. k \in 0..n /\ k <= n
      BY <1>7
    <3> QED
      BY <1>3, <1>4, <1>8, <3>1, GrowingStarts
  <2>4. Starts(W[k], whole)
    BY <1>9, <2>1, <2>3, StartsTrans
  <2>5. /\ at[k] <= Len(whole) /\ at[k] <= at[n]
        /\ \A m \in 1..at[k] : whole[m] = W[k][m]
    BY <2>1, <2>3, <2>4 DEF Starts
  <2> DEFINE p == at[k - 1]
             q == at[k]
             h == Len(X[k])
  <2>6. p \in Nat /\ q \in Nat /\ h \in Nat /\ q = p + h /\ h = Len(ls[k]) + Len(cs[k]) + 4
    <3>1. q = p + h /\ h = Len(ls[k]) + Len(cs[k]) + 4 /\ p \in Nat /\ q \in Nat
      BY <2>1, <2>2, Zenon
    <3>2. Len(ls[k]) \in Nat /\ Len(cs[k]) \in Nat
      BY <2>1, Zenon
    <3> HIDE DEF p, q, h
    <3> QED
      BY <3>1, <3>2
  <2>7. ASSUME NEW m \in 1..h PROVE whole[p + m] = X[k][m]
    <3> HIDE DEF p, q, h
    <3>1. p + m \in 1..q
      BY <2>6
    <3>2. whole[p + m] = W[k][p + m] /\ W[k][p + m] = X[k][m]
      BY <2>2, <2>5, <3>1 DEF p, q, h
    <3> QED
      BY <3>2
  <2>8. q = p + Len(ls[k]) + Len(cs[k]) + 4
    <3> HIDE DEF p, q, h
    <3> QED
      BY <2>1, <2>6
  <2> QED
    BY <2>1, <2>5, <2>7, <2>8
<1>11. ASSUME NEW k \in 1..n
       PROVE  /\ \A m \in 1..Len(ls[k]) : whole[at[k - 1] + m] = ls[k][m]
              /\ whole[at[k - 1] + Len(ls[k]) + 1] = "CR"
              /\ whole[at[k - 1] + Len(ls[k]) + 2] = "LF"
              /\ \A m \in 1..Len(cs[k]) : whole[at[k] - 2 - Len(cs[k]) + m] = cs[k][m]
              /\ whole[at[k] - 1] = "CR" /\ whole[at[k]] = "LF"
  <2> DEFINE a == Len(ls[k])
             c == Len(cs[k])
             p == at[k - 1]
             q == at[k]
  <2>1. /\ Len(X[k]) = a + c + 4 /\ a \in Nat /\ c \in Nat /\ p \in Nat
        /\ q = p + a + c + 4 /\ q \in Nat
    BY <1>2, <1>10 DEF FrameOf
  <2>0. \A m \in 1..Len(X[k]) : whole[p + m] = X[k][m]
    BY <1>10
  <2>2. /\ \A m \in 1..a : X[k][m] = ls[k][m]
        /\ X[k][a + 1] = "CR" /\ X[k][a + 2] = "LF"
        /\ \A m \in 1..c : X[k][a + 2 + m] = cs[k][m]
        /\ X[k][a + c + 3] = "CR" /\ X[k][a + c + 4] = "LF"
    BY <1>2 DEF FrameOf
  <2> HIDE DEF a, c, p, q
  <2>3. ASSUME NEW m \in 1..a PROVE whole[p + m] = ls[k][m]
    <3>1. m \in 1..Len(X[k])
      BY <2>1
    <3> QED
      BY <2>0, <2>2, <3>1
  <2>4. whole[p + a + 1] = "CR" /\ whole[p + a + 2] = "LF"
    <3>1. a + 1 \in 1..Len(X[k]) /\ a + 2 \in 1..Len(X[k])
      BY <2>1
    <3>2. p + (a + 1) = p + a + 1 /\ p + (a + 2) = p + a + 2
      BY <2>1
    <3> QED
      BY <2>0, <2>2, <3>1, <3>2
  <2>5. ASSUME NEW m \in 1..c PROVE whole[q - 2 - c + m] = cs[k][m]
    <3>1. a + 2 + m \in 1..Len(X[k]) /\ p + (a + 2 + m) = q - 2 - c + m
      BY <2>1
    <3> QED
      BY <2>0, <2>2, <3>1
  <2>6. whole[q - 1] = "CR" /\ whole[q] = "LF"
    <3>1. /\ a + c + 3 \in 1..Len(X[k]) /\ p + (a + c + 3) = q - 1
          /\ a + c + 4 \in 1..Len(X[k]) /\ p + (a + c + 4) = q
      BY <2>1
    <3> QED
      BY <2>0, <2>2, <3>1
  <2> QED
    BY <2>3, <2>4, <2>5, <2>6 DEF a, c, p, q
(* Every line. *)
<1>12. ASSUME NEW k \in 0..n
       PROVE  /\ at[k] + Len(ls[k + 1]) + 4 <= Len(whole)
              /\ \A m \in 1..Len(ls[k + 1]) :
                   whole[at[k] + m] = ls[k + 1][m] /\ ls[k + 1][m] # "CR"
              /\ whole[at[k] + Len(ls[k + 1]) + 1] = "CR"
              /\ whole[at[k] + Len(ls[k + 1]) + 2] = "LF"
  <2>1. CASE k = n
    <3>1. at[n] \in Nat /\ Len(last) \in Nat
      BY <1>1, <1>6, <1>8
    <3> QED
      BY <1>1, <1>8, <1>9, <2>1, <3>1
  <2>2. CASE k < n
    <3>1. k + 1 \in 1..n /\ (k + 1) - 1 = k /\ k + 1 \in 1..(n + 1)
      BY <2>2
    <3>2. /\ at[k + 1] = at[k] + Len(ls[k + 1]) + Len(cs[k + 1]) + 4 /\ at[k + 1] <= Len(whole)
          /\ at[k] \in Nat /\ at[k + 1] \in Nat /\ Len(ls[k + 1]) \in Nat /\ Len(cs[k + 1]) \in Nat
      BY <1>1, <1>10, <3>1
    <3>3. at[k] + Len(ls[k + 1]) + 4 <= Len(whole)
      BY <1>9, <3>2, SMTT(40)
    <3> QED
      BY <1>1, <1>11, <3>1, <3>3, SMTT(40)
  <2> QED
    BY <2>1, <2>2
(* The wire. *)
<1>13. /\ wire \in Seq(Byte) /\ \A m \in 1..Len(wire) : m <= Len(whole) => wire[m] = whole[m]
       /\ fault \in {"none", "cut"}
       /\ fault = "none" => Len(wire) = Len(whole) + Len(NextRequest)
       /\ fault = "cut" => Len(wire) <= Len(whole)
  <2>1. CASE wire = whole \o NextRequest /\ fault = "none"
    <3>1. Joins(wire, whole, NextRequest)
      BY <1>9, <2>1, Joining, ChunksTyped, Zenon
    <3> QED
      BY <2>1, <3>1 DEF Joins
  <2>2. CASE (\E k \in 0..(Len(whole) - 1) : wire = SubSeq(whole, 1, k)) /\ fault = "cut"
    <3>1. PICK k \in 0..(Len(whole) - 1) : wire = SubSeq(whole, 1, k)
      BY <2>2
    <3>2. wire \in Seq(Byte) /\ Len(wire) = k /\ \A m \in 1..k : wire[m] = whole[m]
      BY <1>9, <3>1
    <3> QED
      BY <1>9, <2>2, <3>2
  <2> QED
    BY <2>1, <2>2
<1>14. ASSUME NEW k \in 0..n PROVE Starts(D[k], D[n])
  <2>1. k <= n
    OBVIOUS
  <2> QED
    BY <1>1, <1>4, <1>8, <2>1, GrowingStarts, Zenon
<1>15. body = D[n] /\ body \in Seq(Byte)
  BY <1>6, <1>8 DEF D
<1>16. Layout(n, cs, ls, at, D, whole)
  BY <1>1, <1>6, <1>7, <1>8, <1>9, <1>10, <1>11, <1>12, <1>13, <1>14, <1>15 DEF Layout
<1> QED
  BY <1>6, <1>16

------------------------------------------------------------------------------
(* What is at a place of the layout.                                        *)

LEMMA LayoutStays ==
  ASSUME NEW n, NEW cs, NEW ls, NEW at, NEW D, NEW whole,
         Layout(n, cs, ls, at, D, whole), UNCHANGED msgVars
  PROVE  Layout(n, cs, ls, at, D, whole)'
<1>1. wire' = wire /\ body' = body /\ fault' = fault
  BY DEF msgVars
<1>2. \A u, v : Starts(u, v)' <=> Starts(u, v)
  BY DEF Starts
<1> QED
  BY <1>1, <1>2 DEF Layout

LEMMA LayoutSizes ==
  ASSUME NEW n, NEW cs, NEW ls, NEW at, NEW D, NEW whole, Layout(n, cs, ls, at, D, whole)
  PROVE  /\ n \in Nat /\ Len(whole) \in Nat /\ Len(wire) \in Nat /\ wire \in Seq(Byte)
         /\ whole \in Seq(Byte) /\ body \in Seq(Byte) /\ Len(body) \in Nat
         /\ fault \in {"none", "cut"}
         /\ fault = "none" => Len(whole) <= Len(wire)
<1>1. /\ n \in Nat /\ wire \in Seq(Byte) /\ whole \in Seq(Byte) /\ body \in Seq(Byte)
      /\ fault \in {"none", "cut"}
      /\ fault = "none" => Len(wire) = Len(whole) + Len(NextRequest)
  BY Zenon DEF Layout
<1>2. Len(whole) \in Nat /\ Len(wire) \in Nat /\ Len(body) \in Nat /\ Len(NextRequest) \in Nat
  BY <1>1, ChunksTyped
<1> QED
  BY <1>1, <1>2

LEMMA LayoutWire ==
  ASSUME NEW n, NEW cs, NEW ls, NEW at, NEW D, NEW whole, Layout(n, cs, ls, at, D, whole),
         NEW i \in Int, 1 <= i, i <= Len(wire), i <= Len(whole)
  PROVE  wire[i] = whole[i]
<1>1. Len(wire) \in Nat /\ \A m \in 1..Len(wire) : m <= Len(whole) => wire[m] = whole[m]
  BY LayoutSizes DEF Layout
<1>2. i \in 1..Len(wire)
  BY <1>1
<1> QED
  BY <1>1, <1>2

LEMMA LayoutLine ==
  ASSUME NEW n, NEW cs, NEW ls, NEW at, NEW D, NEW whole, Layout(n, cs, ls, at, D, whole),
         NEW k \in 0..n
  PROVE  /\ at[k] \in Nat /\ ls[k + 1] \in Seq(Byte) /\ Len(ls[k + 1]) \in Nat
         /\ D[k] \in Seq(Byte) /\ Len(D[k]) \in Nat /\ Starts(D[k], body)
         /\ at[k] + Len(ls[k + 1]) + 4 <= Len(whole)
         /\ \A m \in 1..Len(ls[k + 1]) : whole[at[k] + m] = ls[k + 1][m] /\ ls[k + 1][m] # "CR"
         /\ whole[at[k] + Len(ls[k + 1]) + 1] = "CR" /\ whole[at[k] + Len(ls[k + 1]) + 2] = "LF"
         /\ at[0] = 0 /\ D[n] = body
<1>1. n \in Nat /\ k + 1 \in 1..(n + 1)
  BY LayoutSizes
<1>2. /\ at \in [0..n -> Nat] /\ D \in [0..n -> Seq(Byte)] /\ ls \in [1..(n + 1) -> Seq(Byte)]
      /\ Starts(D[k], body) /\ at[0] = 0 /\ D[n] = body
  BY Zenon DEF Layout
<1>3. at[k] \in Nat /\ D[k] \in Seq(Byte) /\ ls[k + 1] \in Seq(Byte)
  BY <1>1, <1>2
<1>4. Len(D[k]) \in Nat /\ Len(ls[k + 1]) \in Nat
  BY <1>3
<1>5. /\ at[k] + Len(ls[k + 1]) + 4 <= Len(whole)
      /\ \A m \in 1..Len(ls[k + 1]) : whole[at[k] + m] = ls[k + 1][m] /\ ls[k + 1][m] # "CR"
      /\ whole[at[k] + Len(ls[k + 1]) + 1] = "CR" /\ whole[at[k] + Len(ls[k + 1]) + 2] = "LF"
  BY Zenon DEF Layout
<1> QED
  BY <1>2, <1>3, <1>4, <1>5, Zenon

LEMMA ChunkPlace ==
  ASSUME NEW n, NEW cs, NEW ls, NEW at, NEW D, NEW whole, Layout(n, cs, ls, at, D, whole),
         NEW k \in 1..n
  PROVE  /\ at[k] \in Nat /\ at[k - 1] \in Nat /\ Len(ls[k]) \in Nat
         /\ cs[k] \in Seq(Byte) /\ Len(cs[k]) \in Nat /\ Len(cs[k]) > 0
         /\ at[k] = at[k - 1] + Len(ls[k]) + Len(cs[k]) + 4 /\ at[k] + 4 <= Len(whole)
<1>1. n \in Nat /\ k - 1 \in 0..n /\ k \in 0..n /\ (k - 1) + 1 = k
  BY LayoutSizes
<1>2. cs \in [1..n -> Seq(Byte)]
  BY DEF Layout
<1>3. cs[k] \in Seq(Byte) /\ Len(cs[k]) \in Nat
  BY <1>2
<1>4. at[k] = at[k - 1] + Len(ls[k]) + Len(cs[k]) + 4 /\ Len(cs[k]) > 0
  BY Zenon DEF Layout
<1>5. at[k] \in Nat /\ Len(ls[k + 1]) \in Nat /\ at[k] + Len(ls[k + 1]) + 4 <= Len(whole)
  BY <1>1, LayoutLine
<1>6. at[k - 1] \in Nat /\ Len(ls[k]) \in Nat
  <2>1. at[k - 1] \in Nat /\ Len(ls[(k - 1) + 1]) \in Nat
    BY <1>1, LayoutLine
  <2> QED
    BY <1>1, <2>1
<1>7. at[k] + 4 <= Len(whole)
  BY <1>5, LayoutSizes
<1> QED
  BY <1>3, <1>4, <1>5, <1>6, <1>7, Zenon

LEMMA ChunkData ==
  ASSUME NEW n, NEW cs, NEW ls, NEW at, NEW D, NEW whole, Layout(n, cs, ls, at, D, whole),
         NEW k \in 1..n
  PROVE  /\ D[k - 1] \in Seq(Byte) /\ D[k] \in Seq(Byte) /\ D[k] = D[k - 1] \o cs[k]
         /\ Len(D[k]) \in Nat /\ Starts(D[k], body)
<1>1. n \in Nat /\ k - 1 \in 0..n /\ k \in 0..n
  BY LayoutSizes
<1>2. D[k] = D[k - 1] \o cs[k]
  BY Zenon DEF Layout
<1>3. D[k] \in Seq(Byte) /\ Starts(D[k], body) /\ Len(D[k]) \in Nat
  BY <1>1, LayoutLine
<1>4. D[k - 1] \in Seq(Byte)
  BY <1>1, LayoutLine
<1> QED
  BY <1>2, <1>3, <1>4, Zenon

LEMMA ChunkBytes ==
  ASSUME NEW n, NEW cs, NEW ls, NEW at, NEW D, NEW whole, Layout(n, cs, ls, at, D, whole),
         NEW k \in 1..n
  PROVE  /\ \A m \in 1..Len(cs[k]) : whole[at[k] - 2 - Len(cs[k]) + m] = cs[k][m]
         /\ whole[at[k] - 1] = "CR" /\ whole[at[k]] = "LF" /\ Says(ls[k], Len(cs[k]))
  BY Zenon DEF Layout

LEMMA LayoutEnd ==
  ASSUME NEW n, NEW cs, NEW ls, NEW at, NEW D, NEW whole, Layout(n, cs, ls, at, D, whole)
  PROVE  /\ at[n] + Len(ls[n + 1]) + 4 = Len(whole) /\ Says(ls[n + 1], 0)
         /\ whole[Len(whole) - 1] = "CR" /\ whole[Len(whole)] = "LF"
  BY Zenon DEF Layout

------------------------------------------------------------------------------
(* A part of a chunk behind the chunks in front of it.                      *)

LEMMA PartIs ==
  ASSUME NEW c \in Seq(Byte), NEW x \in Int, 0 <= x, x <= Len(c)
  PROVE  /\ SubSeq(c, 1, x) \in Seq(Byte) /\ Len(SubSeq(c, 1, x)) = x
         /\ \A m \in 1..x : SubSeq(c, 1, x)[m] = c[m]
  OBVIOUS

LEMMA PartStarts ==
  ASSUME NEW d \in Seq(Byte), NEW c \in Seq(Byte), NEW x \in Int, 0 <= x, x <= Len(c)
  PROVE  d \o SubSeq(c, 1, x) \in Seq(Byte) /\ Starts(d \o SubSeq(c, 1, x), d \o c)
<1> DEFINE u == SubSeq(c, 1, x)
           v == d \o u
           w == d \o c
<1>1. u \in Seq(Byte) /\ Len(u) = x /\ \A m \in 1..x : u[m] = c[m]
  BY PartIs
<1> HIDE DEF u
<1>2. Joins(v, d, u) /\ Joins(w, d, c)
  BY <1>1, Joining
<1> HIDE DEF v, w
<1>3. v \in Seq(Byte) /\ Len(v) = Len(d) + x /\ Len(w) = Len(d) + Len(c) /\ Len(d) \in Nat
  BY <1>1, <1>2 DEF Joins
<1>4. ASSUME NEW m \in 1..Len(v) PROVE v[m] = w[m]
  <2>1. CASE m <= Len(d)
    BY <1>2, <1>3, <2>1 DEF Joins
  <2>2. CASE m > Len(d)
    <3>1. /\ m - Len(d) \in 1..Len(u) /\ m - Len(d) \in 1..Len(c) /\ m - Len(d) \in 1..x
          /\ Len(d) + (m - Len(d)) = m
      BY <1>1, <1>3, <2>2
    <3> QED
      BY <1>1, <1>2, <3>1 DEF Joins
  <2> QED
    BY <1>3, <2>1, <2>2
<1>5. Len(v) <= Len(w)
  BY <1>3
<1> QED
  BY <1>3, <1>4, <1>5 DEF Starts, v, w, u

LEMMA PartWhole ==
  ASSUME NEW d \in Seq(Byte), NEW c \in Seq(Byte)
  PROVE  d \o SubSeq(c, 1, Len(c)) = d \o c /\ d \o SubSeq(c, 1, 0) = d
<1>1. SubSeq(c, 1, Len(c)) = c
  OBVIOUS
<1>2. SubSeq(c, 1, 0) = <<>>
  OBVIOUS
<1> QED
  BY <1>1, <1>2

LEMMA PartGrows ==
  ASSUME NEW d \in Seq(Byte), NEW c \in Seq(Byte), NEW x \in Nat, NEW w \in Seq(Byte),
         x + Len(w) <= Len(c), \A m \in 1..Len(w) : w[m] = c[x + m]
  PROVE  (d \o SubSeq(c, 1, x)) \o w = d \o SubSeq(c, 1, x + Len(w))
<1> DEFINE j == Len(w)
           u == SubSeq(c, 1, x)
           t == SubSeq(c, 1, x + j)
           s == u \o w
<1>0. Len(c) \in Nat /\ j \in Nat
  OBVIOUS
<1>1. u \in Seq(Byte) /\ Len(u) = x /\ \A m \in 1..x : u[m] = c[m]
  BY <1>0, PartIs
<1>2. t \in Seq(Byte) /\ Len(t) = x + j /\ \A m \in 1..(x + j) : t[m] = c[m]
  BY PartIs
<1> HIDE DEF u, t
<1>3. Joins(s, u, w)
  BY <1>1, Joining
<1> HIDE DEF s
<1>4. s \in Seq(Byte) /\ Len(s) = x + j
  BY <1>1, <1>3 DEF Joins
<1>5. ASSUME NEW m \in 1..(x + j) PROVE s[m] = t[m]
  <2>1. CASE m <= x
    <3>1. m \in 1..x /\ m \in 1..Len(u)
      BY <1>1, <2>1
    <3>2. s[m] = u[m]
      BY <1>3, <3>1 DEF Joins
    <3> QED
      BY <1>1, <1>2, <3>1, <3>2
  <2>2. CASE m > x
    <3>1. m - x \in 1..j /\ x + (m - x) = m
      BY <2>2
    <3>2. s[x + (m - x)] = w[m - x]
      BY <1>1, <1>3, <3>1 DEF Joins
    <3>3. w[m - x] = c[x + (m - x)]
      BY <3>1
    <3> QED
      BY <1>2, <3>1, <3>2, <3>3
  <2> QED
    BY <2>1, <2>2
<1>6. s = t
  BY <1>2, <1>4, <1>5, SeqEqual
<1>7. (d \o u) \o w = d \o (u \o w)
  BY <1>1
<1> QED
  BY <1>6, <1>7 DEF s, t, u

------------------------------------------------------------------------------
(* Size lines.                                                              *)

(* What is in front of the first of some symbol.                            *)
LEMMA InFront ==
  ASSUME NEW l \in Seq(Byte), NEW c
  PROVE  \E k \in 0..Len(l) : (\A m \in 1..k : l[m] # c) /\ (k < Len(l) => l[k + 1] = c)
<1> DEFINE S == {m \in Nat : 1 <= m /\ m <= Len(l) /\ l[m] = c}
<1>1. Len(l) \in Nat
  OBVIOUS
<1>2. CASE S = {}
  <2>1. ASSUME NEW m \in 1..Len(l) PROVE l[m] # c
    <3>1. m \in Nat /\ 1 <= m /\ m <= Len(l) /\ m \notin S
      BY <1>1, <1>2
    <3> QED
      BY <3>1
  <2>2. Len(l) \in 0..Len(l) /\ ~(Len(l) < Len(l))
    BY <1>1
  <2> QED
    BY <2>1, <2>2
<1>3. CASE S # {}
  <2>1. PICK m \in S : \A y \in S : m <= y
    BY <1>3, LeastNumber
  <2>2. m \in Nat /\ 1 <= m /\ m <= Len(l) /\ l[m] = c
    OBVIOUS
  <2>3. m - 1 \in 0..Len(l) /\ (m - 1) + 1 = m
    BY <1>1, <2>2
  <2>4. ASSUME NEW i \in 1..(m - 1) PROVE l[i] # c
    <3>1. i \in Nat /\ 1 <= i /\ i <= Len(l) /\ ~(m <= i)
      BY <1>1, <2>2
    <3> QED
      BY <2>1, <3>1
  <2> QED
    BY <2>2, <2>3, <2>4
<1> QED
  BY <1>2, <1>3

(* What is read after a lost line end is not a size.                        *)
LEMMA BadLine ==
  ASSUME NEW l \in Seq(Byte), l = <<>> \/ (Len(l) >= 1 /\ l[1] = "LF")
  PROVE  ~ValidSize(SizeOf(l))
<1> DEFINE P(k) == /\ \A m \in 1..k : l[m] # ";"
                   /\ k < Len(l) => l[k + 1] = ";"
           K == CHOOSE k \in 0..Len(l) : P(k)
<1>1. Len(l) \in Nat
  OBVIOUS
<1>2. \E k \in 0..Len(l) : P(k)
  BY InFront, Zenon
<1>3. K \in 0..Len(l)
  <2> HIDE DEF P
  <2> QED
    BY <1>2, Zenon
<1>4. SizeOf(l) = SubSeq(l, 1, K)
  BY Zenon DEF SizeOf
<1> HIDE DEF K
<1>5. CASE K = 0
  <2>1. SubSeq(l, 1, 0) = <<>>
    OBVIOUS
  <2> QED
    BY <1>4, <1>5, <2>1, SMT DEF ValidSize
<1>6. CASE K # 0
  <2>1. l # <<>> /\ l[1] = "LF"
    BY <1>1, <1>3, <1>6
  <2>2. 1 \in 1..K /\ Len(SubSeq(l, 1, K)) = K /\ SubSeq(l, 1, K)[1] = "LF"
    BY <1>1, <1>3, <1>6, <2>1
  <2>3. \A d \in 1..16 : Digits[d] # "LF"
    BY DEF Digits
  <2> SUFFICES ASSUME ValidSize(SizeOf(l)) PROVE FALSE
    OBVIOUS
  <2> DEFINE s == SubSeq(l, 1, K)
  <2>4. \A k \in 1..Len(s) : \E d \in 1..16 : s[k] = Digits[d]
    <3>1. ValidSize(s)
      BY <1>4
    <3> HIDE DEF s
    <3> QED
      BY <3>1, SMT DEF ValidSize
  <2> HIDE DEF s
  <2>5. 1 \in 1..Len(s) /\ s[1] = "LF"
    BY <2>2 DEF s
  <2> QED
    BY <2>3, <2>4, <2>5, Zenon
<1> QED
  BY <1>5, <1>6

(* A line that is being read has not got beyond its end.                    *)
LEMMA LineBounds ==
  ASSUME NEW n, NEW cs, NEW ls, NEW at, NEW D, NEW whole, Layout(n, cs, ls, at, D, whole),
         NEW k, NEW p, LineStart(n, at, k, p),
         NEW l \in Seq(Byte), NoCR(l), p + Len(l) <= Len(wire),
         \A m \in 1..Len(l) : l[m] = wire[p + m]
  PROVE  /\ at[k] \in Nat /\ Len(ls[k + 1]) \in Nat /\ p \in Nat /\ k \in 0..n /\ Len(whole) \in Nat
         /\ p <= at[k] /\ p + Len(l) <= at[k] + Len(ls[k + 1])
         /\ at[k] + Len(ls[k + 1]) + 4 <= Len(whole)
         /\ whole[at[k] + Len(ls[k + 1]) + 1] = "CR" /\ whole[at[k] + Len(ls[k + 1]) + 2] = "LF"
<1> DEFINE q == at[k] + Len(ls[k + 1]) + 1
<1>1. k \in 0..n /\ p \in Nat /\ p <= at[k] /\ Len(l) \in Nat
  BY DEF LineStart
<1>2. /\ at[k] \in Nat /\ Len(ls[k + 1]) \in Nat /\ at[k] + Len(ls[k + 1]) + 4 <= Len(whole)
      /\ whole[at[k] + Len(ls[k + 1]) + 1] = "CR" /\ whole[at[k] + Len(ls[k + 1]) + 2] = "LF"
      /\ Len(whole) \in Nat /\ Len(wire) \in Nat
  <2>1. Len(whole) \in Nat /\ Len(wire) \in Nat
    BY LayoutSizes
  <2> QED
    BY <1>1, <2>1, LayoutLine
<1>3. q \in Nat /\ p < q /\ q <= Len(whole) /\ whole[q] = "CR"
  <2> DEFINE a == at[k]
             h == Len(ls[k + 1])
  <2>1. a \in Nat /\ h \in Nat /\ a + h + 4 <= Len(whole) /\ p <= a
    BY <1>1, <1>2
  <2>2. q = a + h + 1 /\ whole[q] = "CR"
    BY <1>2
  <2> HIDE DEF a, h, q
  <2> QED
    BY <1>1, <1>2, <2>1, <2>2, SMTT(40)
<1> HIDE DEF q
<1>4. p + Len(l) < q
  <2> SUFFICES ASSUME q <= p + Len(l) PROVE FALSE
    BY <1>1, <1>3
  <2>1. q - p \in 1..Len(l) /\ p + (q - p) = q /\ 1 <= q /\ q <= Len(wire)
    BY <1>1, <1>2, <1>3
  <2>2. wire[q] = "CR"
    BY <1>3, <2>1, LayoutWire
  <2> QED
    BY <2>1, <2>2 DEF NoCR
<1>5. p + Len(l) <= at[k] + Len(ls[k + 1])
  BY <1>1, <1>2, <1>4, SMTT(40) DEF q
<1> QED
  BY <1>1, <1>2, <1>5

(* A line that is complete is the sender's, or nothing that is a size.      *)
LEMMA LineIs ==
  ASSUME NEW n, NEW cs, NEW ls, NEW at, NEW D, NEW whole, Layout(n, cs, ls, at, D, whole),
         NEW k, NEW p, LineStart(n, at, k, p),
         NEW l \in Seq(Byte), NoCR(l), p + Len(l) + 1 <= Len(wire),
         \A m \in 1..Len(l) : l[m] = wire[p + m],
         wire[p + Len(l) + 1] = "CR"
  PROVE  /\ p = at[k] => l = ls[k + 1] /\ whole[p + Len(l) + 2] = "LF"
         /\ p # at[k] => ~ValidSize(SizeOf(l))
<1> DEFINE a == at[k]
           h == Len(ls[k + 1])
           r == p + Len(l) + 1
<1>0. Len(l) \in Nat /\ Len(wire) \in Nat /\ p \in Nat /\ a <= p + 2 /\ (k = 0 => p = 0)
  BY LayoutSizes DEF LineStart
<1>1. /\ a \in Nat /\ h \in Nat /\ p \in Nat /\ k \in 0..n /\ Len(whole) \in Nat
      /\ p <= a /\ p + Len(l) <= a + h /\ a + h + 4 <= Len(whole)
      /\ whole[a + h + 1] = "CR" /\ whole[a + h + 2] = "LF"
  <2>1. p + Len(l) <= Len(wire)
    BY <1>0
  <2> QED
    BY <2>1, LineBounds
<1>2. /\ ls[k + 1] \in Seq(Byte)
      /\ \A m \in 1..h : whole[a + m] = ls[k + 1][m] /\ ls[k + 1][m] # "CR"
  <2>1. k \in 0..n
    BY <1>1
  <2> QED
    BY <2>1, LayoutLine, SMTT(40)
<1> HIDE DEF a, h
<1>3. r \in Nat /\ 1 <= r /\ r <= Len(whole) /\ r <= Len(wire) /\ whole[r] = "CR"
  <2>1. r \in Nat /\ 1 <= r /\ r <= Len(whole) /\ r <= Len(wire)
    BY <1>0, <1>1
  <2> QED
    BY <2>1, LayoutWire
<1>4. \A m \in 1..Len(l) : l[m] = whole[p + m]
  <2> TAKE m \in 1..Len(l)
  <2>1. p + m \in Int /\ 1 <= p + m /\ p + m <= Len(wire) /\ p + m <= Len(whole)
    BY <1>0, <1>1
  <2> QED
    BY <2>1, LayoutWire
<1>5. CASE p = a
  <2>1. Len(l) = h
    <3> SUFFICES ASSUME Len(l) # h PROVE FALSE
      OBVIOUS
    <3>1. Len(l) + 1 \in 1..h /\ a + (Len(l) + 1) = r
      BY <1>0, <1>1, <1>5
    <3> QED
      BY <1>2, <1>3, <3>1
  <2>2. \A m \in 1..Len(l) : l[m] = ls[k + 1][m]
    BY <1>2, <1>4, <1>5, <2>1
  <2>3. l = ls[k + 1]
    BY <1>2, <2>1, <2>2, SeqEqual DEF h
  <2> QED
    BY <1>1, <1>5, <2>1, <2>3 DEF a
<1>6. CASE p # a
  <2>1. k # 0 /\ k \in 1..n
    <3>1. k = 0 => a = 0
      BY <1>1, LayoutLine DEF a
    <3> QED
      BY <1>0, <1>1, <1>6, <3>1, LayoutSizes
  <2>2. whole[a - 1] = "CR" /\ whole[a] = "LF"
    <3>1. whole[at[k] - 1] = "CR" /\ whole[at[k]] = "LF"
      BY <2>1, ChunkBytes
    <3> QED
      BY <3>1 DEF a
  <2>3. a = p + 1 \/ a = p + 2
    BY <1>0, <1>1, <1>6
  <2>4. CASE a = p + 2
    <3>1. whole[p + 1] = "CR"
      <4>1. a - 1 = p + 1
        BY <1>0, <2>4
      <4> QED
        BY <2>2, <4>1
    <3>2. Len(l) = 0
      <4> SUFFICES ASSUME Len(l) # 0 PROVE FALSE
        OBVIOUS
      <4>1. 1 \in 1..Len(l)
        BY <1>0
      <4>2. l[1] = "CR"
        BY <1>4, <3>1, <4>1
      <4> QED
        BY <4>1, <4>2 DEF NoCR
    <3>3. l = <<>>
      BY <3>2
    <3> QED
      BY <1>6, <3>3, BadLine DEF a
  <2>5. CASE a = p + 1
    <3>1. whole[p + 1] = "LF"
      BY <2>2, <2>5
    <3>2. Len(l) >= 1
      <4> SUFFICES ASSUME Len(l) = 0 PROVE FALSE
        BY <1>0
      <4>1. r = p + 1
        BY <1>0
      <4> QED
        BY <1>3, <3>1, <4>1
    <3>3. l[1] = "LF"
      <4>1. 1 \in 1..Len(l)
        BY <1>0, <3>2
      <4> QED
        BY <1>4, <3>1, <4>1
    <3> QED
      BY <1>6, <3>2, <3>3, BadLine DEF a
  <2> QED
    BY <2>3, <2>4, <2>5
<1> QED
  BY <1>5, <1>6

------------------------------------------------------------------------------
(* The end of a Read.                                                       *)

(* Wherever a Read is, it has delivered a beginning of the data and not     *)
(* gone beyond the message.                                                 *)
LEMMA OutStarts ==
  ASSUME NEW n, NEW cs, NEW ls, NEW at, NEW D, NEW whole, Chunked(n, cs, ls, at, D, whole)
  PROVE  Starts(out, body) /\ (fault = "none" => pos <= Len(whole))
<1>0. /\ Layout(n, cs, ls, at, D, whole) /\ Where(n, cs, at, D, whole)
      /\ pos \in Nat /\ pos <= Len(wire) /\ line \in Seq(Byte) /\ pair \in Seq(Byte)
      /\ bytesLeft \in Int /\ out \in Seq(Byte)
  BY DEF Chunked, Outcome
<1>00. Len(line) \in Nat /\ Len(pair) \in Nat /\ Len(whole) \in Nat /\ Len(wire) \in Nat
       /\ n \in Nat /\ n \in 0..n /\ body \in Seq(Byte) /\ Len(body) \in Nat /\ Len(out) \in Nat
  BY <1>0, LayoutSizes
<1>1. CASE AtIdle(n, at, D)
  <2>1. PICK k \in 0..n : LineStart(n, at, k, pos) /\ out = D[k]
    BY <1>1 DEF AtIdle
  <2>2. /\ Starts(D[k], body) /\ at[k] \in Nat /\ Len(ls[k + 1]) \in Nat
        /\ at[k] + Len(ls[k + 1]) + 4 <= Len(whole)
    BY <1>0, LayoutLine
  <2>3. pos <= at[k]
    BY <2>1 DEF LineStart
  <2>4. pos <= Len(whole)
    BY <1>0, <1>00, <2>2, <2>3, SMTT(40)
  <2> QED
    BY <2>1, <2>2, <2>4
<1>2. CASE InLine(n, at, D)
  <2>1. PICK k \in 0..n, p \in Nat :
          /\ LineStart(n, at, k, p) /\ out = D[k]
          /\ pos = p + Len(line) + Len(pair)
          /\ \A m \in 1..Len(line) : line[m] = wire[p + m]
    BY <1>2 DEF InLine
  <2>2. NoCR(line) /\ Len(pair) <= 2 /\ p + Len(line) <= Len(wire)
    BY <1>0, <1>00, <1>2, <2>1 DEF InLine
  <2>3. /\ at[k] \in Nat /\ Len(ls[k + 1]) \in Nat /\ p + Len(line) <= at[k] + Len(ls[k + 1])
        /\ at[k] + Len(ls[k + 1]) + 4 <= Len(whole)
    BY <1>0, <2>1, <2>2, LineBounds
  <2>4. pos <= Len(whole)
    BY <1>00, <2>1, <2>2, <2>3, SMTT(40)
  <2> QED
    BY <1>0, <2>1, <2>4, LayoutLine
<1>3. CASE InLF(n, at, D)
  <2>1. PICK k \in 0..n, p \in Nat :
          /\ LineStart(n, at, k, p) /\ out = D[k]
          /\ pos = p + Len(line) + Len(pair) + 1
          /\ \A m \in 1..Len(line) : line[m] = wire[p + m]
    BY <1>3 DEF InLF
  <2>2. NoCR(line) /\ Len(pair) <= 2 /\ p + Len(line) <= Len(wire)
    <3>1. NoCR(line) /\ Len(pair) <= 2
      BY <1>3 DEF InLF
    <3>2. pos = p + Len(line) + Len(pair) + 1 /\ pos <= Len(wire)
      BY <1>0, <2>1
    <3>3. p + Len(line) <= Len(wire)
      BY <1>00, <3>2
    <3> QED
      BY <3>1, <3>3
  <2>3. /\ at[k] \in Nat /\ Len(ls[k + 1]) \in Nat /\ p + Len(line) <= at[k] + Len(ls[k + 1])
        /\ at[k] + Len(ls[k + 1]) + 4 <= Len(whole)
    BY <1>0, <2>1, <2>2, LineBounds
  <2>4. pos <= Len(whole)
    BY <1>00, <2>1, <2>2, <2>3, SMTT(40)
  <2> QED
    BY <1>0, <2>1, <2>4, LayoutLine
<1>4. CASE InBody(n, cs, at, D)
  <2>1. PICK k \in 1..n :
          /\ bytesLeft <= Len(cs[k]) /\ pos = at[k] - 2 - bytesLeft
          /\ out = D[k - 1] \o SubSeq(cs[k], 1, Len(cs[k]) - bytesLeft)
    BY <1>4 DEF InBody
  <2>2. bytesLeft > 0
    BY <1>4 DEF InBody
  <2>3. /\ D[k - 1] \in Seq(Byte) /\ cs[k] \in Seq(Byte) /\ Len(cs[k]) \in Nat
        /\ D[k] = D[k - 1] \o cs[k] /\ D[k] \in Seq(Byte) /\ Starts(D[k], body)
        /\ at[k] \in Nat /\ at[k] + 4 <= Len(whole)
    <3>0. Layout(n, cs, ls, at, D, whole)
      BY <1>0
    <3>1. /\ D[k - 1] \in Seq(Byte) /\ D[k] \in Seq(Byte) /\ D[k] = D[k - 1] \o cs[k]
          /\ Starts(D[k], body)
      <4>1. D[k] = D[k - 1] \o cs[k]
        BY <3>0, Zenon DEF Layout
      <4>2. D[k - 1] \in Seq(Byte) /\ D[k] \in Seq(Byte) /\ Starts(D[k], body)
        BY <3>0, ChunkData
      <4> QED
        BY <4>1, <4>2
    <3>2. cs[k] \in Seq(Byte) /\ Len(cs[k]) \in Nat /\ at[k] \in Nat /\ at[k] + 4 <= Len(whole)
      BY <1>0, ChunkPlace
    <3> QED
      BY <3>1, <3>2
  <2>4. Len(cs[k]) - bytesLeft \in Int /\ 0 <= Len(cs[k]) - bytesLeft
        /\ Len(cs[k]) - bytesLeft <= Len(cs[k])
    BY <1>0, <2>1, <2>2, <2>3
  <2>5. Starts(out, D[k])
    BY <2>1, <2>3, <2>4, PartStarts
  <2>6. Starts(out, body)
    <3>1. Len(out) \in Nat /\ Len(D[k]) \in Nat /\ Len(body) \in Nat
      BY <1>0, <1>00, ChunkData
    <3> QED
      BY <2>3, <2>5, <3>1, StartsTrans
  <2> QED
    BY <1>0, <1>00, <2>1, <2>2, <2>3, <2>6, SMTT(40)
<1>5. CASE InCRLF(n, at, D)
  <2>1. PICK k \in 1..n : out = D[k] /\ pos = at[k] - 2 + Len(pair)
    BY <1>5 DEF InCRLF
  <2>2. Starts(D[k], body) /\ at[k] \in Nat /\ at[k] + 4 <= Len(whole)
    BY <1>0, ChunkPlace, ChunkData
  <2>3. Len(pair) <= 2
    BY <1>5 DEF InCRLF
  <2> QED
    BY <1>00, <2>1, <2>2, <2>3
<1>6. CASE InLast(whole)
  <2>1. out = body /\ pos = Len(whole) - 2 + Len(pair) /\ Len(pair) <= 2
    BY <1>6 DEF InLast
  <2>2. Starts(body, body)
    BY <1>00 DEF Starts
  <2> QED
    BY <1>00, <2>1, <2>2
<1>7. CASE AtEnd(whole)
  BY <1>7 DEF AtEnd
<1> QED
  BY <1>0, <1>1, <1>2, <1>3, <1>4, <1>5, <1>6, <1>7 DEF Where

LEMMA Returned ==
  ASSUME NEW e, Return(e), Outcome, fault' = fault, wire' = wire,
         pos' \in Nat, pos' <= Len(wire), stalls' \in Nat, bytesLeft' \in Int,
         out' \in Seq(Byte), closed' \in BOOLEAN,
         fault = "none" /\ stalls' = 0 /\ ~closed' => ~failed /\ e \in {"nil", "EOF"},
         fault = "none" /\ e = "EOF" /\ ~failed => bytesLeft' = -1
  PROVE  Outcome'
<1>1. /\ pc' = "idle" /\ result' = e /\ failed' = (failed \/ e \notin {"nil", "EOF"})
      /\ room' = 0 /\ pair' = <<>> /\ line' = <<>> /\ failed \in BOOLEAN
  BY DEF Return, Outcome
<1>2. failed' \in BOOLEAN /\ (fault = "none" /\ stalls' = 0 /\ ~closed' => ~failed')
  BY <1>1
<1>3. ~failed' => ~failed
  BY <1>1
<1>4. <<>> \in Seq(Byte)
  OBVIOUS
<1> QED
  BY <1>1, <1>2, <1>3, <1>4 DEF Outcome

(* Nothing more is read.                                                    *)
LEMMA Ended ==
  ASSUME NEW n, NEW cs, NEW ls, NEW at, NEW D, NEW whole, Layout(n, cs, ls, at, D, whole),
         NEW e, Return(e), UNCHANGED msgVars, bytesLeft' = -1, Starts(out', body), Outcome',
         fault = "none" => pos' <= Len(whole) /\ (~failed' => out' = body /\ pos' = Len(whole))
  PROVE  Chunked(n, cs, ls, at, D, whole)'
<1>1. body' = body /\ fault' = fault
  BY DEF msgVars
<1>2. pc' = "idle" /\ pair' = <<>> /\ line' = <<>>
  BY DEF Return
<1>3. AtEnd(whole)'
  BY <1>1, <1>2 DEF AtEnd, Quiet
<1>4. Layout(n, cs, ls, at, D, whole)'
  BY LayoutStays
<1> QED
  BY <1>3, <1>4 DEF Chunked, Where

(* A Read that gives up: a temporary error, or the stream was closed.       *)
LEMMA GivesUp ==
  ASSUME NEW n, NEW cs, NEW ls, NEW at, NEW D, NEW whole, Chunked(n, cs, ls, at, D, whole),
         NEW e, e \notin {"nil", "EOF"}, pc # "idle", Fail(e), UNCHANGED <<msgVars, pos, out>>,
         stalls' \in Nat, closed' \in BOOLEAN, stalls' # 0 \/ closed'
  PROVE  Chunked(n, cs, ls, at, D, whole)'
<1>1. /\ Layout(n, cs, ls, at, D, whole) /\ Where(n, cs, at, D, whole) /\ Outcome
      /\ Starts(out, body) /\ (fault = "none" => pos <= Len(whole))
  BY OutStarts DEF Chunked
<1>2. Return(e) /\ pos' = pos /\ out' = out /\ body' = body /\ wire' = wire /\ fault' = fault
      /\ failed' = TRUE /\ UNCHANGED msgVars
  BY DEF Fail, Return, msgVars
<1>3. bytesLeft' = IF pc = "crlf" THEN 0 ELSE -1
  BY DEF Fail
<1>4. Outcome'
  <2>1. pos' \in Nat /\ pos' <= Len(wire) /\ bytesLeft' \in Int /\ out' \in Seq(Byte)
    BY <1>1, <1>2, <1>3 DEF Outcome
  <2> QED
    BY <1>1, <1>2, <2>1, Returned
<1>5. CASE pc = "crlf"
  <2>1. InCRLF(n, at, D)
    BY <1>1, <1>5 DEF Where, AtIdle, InLine, InLF, InBody, InLast, AtEnd
  <2>2. PICK k \in 1..n : out = D[k] /\ pos = at[k] - 2 + Len(pair)
    BY <2>1 DEF InCRLF
  <2>3. Len(pair) \in Nat /\ Len(pair) <= 2 /\ pos \in Nat
    BY <1>1, <2>1 DEF InCRLF, Outcome
  <2>4. at[k] \in Nat /\ n \in Nat
    BY <1>1, ChunkPlace, LayoutSizes
  <2>5. k \in 0..n /\ pos' \in Nat /\ pos' <= at[k] /\ at[k] <= pos' + 2 /\ k # 0
    BY <1>2, <2>2, <2>3, <2>4
  <2>6. LineStart(n, at, k, pos)'
    BY <1>2, <2>5 DEF LineStart
  <2>7. AtIdle(n, at, D)'
    BY <1>2, <1>3, <1>5, <2>2, <2>5, <2>6 DEF AtIdle, Quiet, Return
  <2> QED
    BY <1>1, <1>2, <1>4, <2>7, LayoutStays DEF Chunked, Where
<1>6. CASE pc # "crlf"
  BY <1>1, <1>2, <1>3, <1>4, <1>6, Ended
<1> QED
  BY <1>5, <1>6

(* A line that is refused is not one of the sender's.                       *)
LEMMA LineRefused ==
  ASSUME NEW n, NEW cs, NEW ls, NEW at, NEW D, NEW whole, Chunked(n, cs, ls, at, D, whole),
         NEW k, NEW p, LineStart(n, at, k, p), p # at[k],
         NEW e, e \notin {"nil", "EOF"}, pc \in {"line", "lf"}, Fail(e),
         UNCHANGED <<msgVars, stalls, out, closed>>,
         pos' \in Nat, pos' <= Len(wire), pos' <= Len(whole)
  PROVE  Chunked(n, cs, ls, at, D, whole)'
<1>1. Layout(n, cs, ls, at, D, whole) /\ Outcome /\ Starts(out, body)
  BY OutStarts DEF Chunked
<1>2. /\ Return(e) /\ out' = out /\ stalls' = stalls /\ closed' = closed /\ fault' = fault
      /\ wire' = wire /\ bytesLeft' = -1 /\ failed' = TRUE /\ UNCHANGED msgVars
  BY DEF Fail, Return, msgVars
<1>3. fault = "none" => failed
  BY DEF LineStart
<1>4. Outcome'
  <2>1. /\ stalls' \in Nat /\ bytesLeft' \in Int /\ out' \in Seq(Byte) /\ closed' \in BOOLEAN
        /\ ~(fault = "none" /\ stalls' = 0 /\ ~closed')
    BY <1>1, <1>2, <1>3 DEF Outcome
  <2> QED
    BY <1>1, <1>2, <2>1, Returned
<1> QED
  BY <1>1, <1>2, <1>4, Ended

LEMMA LineSays ==
  ASSUME NEW n, NEW cs, NEW ls, NEW at, NEW D, NEW whole, Layout(n, cs, ls, at, D, whole),
         NEW k \in 0..n
  PROVE  /\ k = n => Says(ls[k + 1], 0)
         /\ k # n => k + 1 \in 1..n /\ Says(ls[k + 1], Len(cs[k + 1]))
<1>1. CASE k = n
  BY <1>1, LayoutEnd
<1>2. CASE k # n
  <2>1. k + 1 \in 1..n
    BY <1>2, LayoutSizes
  <2> QED
    BY <1>2, <2>1, ChunkBytes
<1> QED
  BY <1>1, <1>2

(* A complete line: its chunk, or the end, or no size.                      *)
LEMMA LineFinished ==
  ASSUME NEW n, NEW cs, NEW ls, NEW at, NEW D, NEW whole, Chunked(n, cs, ls, at, D, whole),
         NEW k, NEW p, LineStart(n, at, k, p), out = D[k],
         NEW l \in Seq(Byte), NoCR(l), \A m \in 1..Len(l) : l[m] = wire[p + m],
         wire[p + Len(l) + 1] = "CR", p + Len(l) + 2 <= Len(wire), pos' = p + Len(l) + 2,
         pc \in {"line", "lf"}, FinishLine(l), UNCHANGED <<msgVars, stalls, closed>>
  PROVE  Chunked(n, cs, ls, at, D, whole)'
<1> DEFINE s == SizeOf(l)
<1>0. Layout(n, cs, ls, at, D, whole) /\ Outcome
  BY DEF Chunked
<1>1. Len(l) \in Nat /\ p \in Nat /\ Len(wire) \in Nat /\ Len(whole) \in Nat /\ k \in 0..n
  BY <1>0, LayoutSizes DEF LineStart
<1>2. p + Len(l) + 1 <= Len(wire) /\ p + Len(l) <= Len(wire)
  BY <1>1
<1>3. /\ p = at[k] => l = ls[k + 1]
      /\ p # at[k] => ~ValidSize(s)
  BY <1>0, <1>2, LineIs
<1>4. pos' \in Nat /\ pos' <= Len(wire) /\ pos' <= Len(whole)
  <2>1. /\ at[k] \in Nat /\ Len(ls[k + 1]) \in Nat /\ p + Len(l) <= at[k] + Len(ls[k + 1])
        /\ at[k] + Len(ls[k + 1]) + 4 <= Len(whole)
    BY <1>0, <1>2, LineBounds
  <2> QED
    BY <1>1, <2>1, SMTT(40)
<1>5. CASE ~ValidSize(s)
  <2>1. Fail("syntax") /\ out' = out
    BY <1>5, Zenon DEF FinishLine
  <2>2. p # at[k]
    BY <1>0, <1>1, <1>3, <1>5, LineSays, SMTT(40) DEF Says
  <2>3. "syntax" \notin {"nil", "EOF"}
    OBVIOUS
  <2> QED
    BY <1>4, <2>1, <2>2, <2>3, LineRefused
<1>6. CASE ValidSize(s)
  <2>0. p = at[k] /\ l = ls[k + 1]
    BY <1>3, <1>6
  <2>1. /\ bytesLeft' = IF ParseUint(s) = 0 THEN -1 ELSE ParseUint(s)
        /\ pc' = IF ParseUint(s) = 0 THEN "lastcrlf" ELSE "body"
        /\ pair' = <<>> /\ line' = <<>> /\ room' = room /\ out' = out /\ result' = result
        /\ failed' = failed
    BY <1>6, Zenon DEF FinishLine
  <2>2. /\ wire' = wire /\ body' = body /\ fault' = fault /\ stalls' = stalls /\ closed' = closed
    BY DEF msgVars
  <2>3. result = "nil"
    BY <1>0 DEF Outcome
  <2>4. ASSUME bytesLeft' \in Int, pc' # "idle" PROVE Outcome'
    <3>1. <<>> \in Seq(Byte)
      OBVIOUS
    <3> QED
      BY <1>0, <1>4, <2>1, <2>2, <2>3, <2>4, <3>1 DEF Outcome
  <2>5. Layout(n, cs, ls, at, D, whole)'
    BY <1>0, LayoutStays
  <2>6. CASE k = n
    <3>1. ParseUint(s) = 0
      BY <1>0, <1>1, <2>0, <2>6, LineSays DEF Says
    <3>2. bytesLeft' = -1 /\ pc' = "lastcrlf"
      BY <2>1, <3>1
    <3>3. out = body
      BY <1>0, <1>1, <2>6, LayoutLine
    <3>4. pos' = Len(whole) - 2
      <4>1. at[k] + Len(l) + 4 = Len(whole)
        BY <1>0, <2>0, <2>6, LayoutEnd
      <4>2. p + Len(l) + 4 = Len(whole)
        BY <2>0, <4>1
      <4> QED
        BY <1>1, <4>2
    <3>5. Len(<<>>) = 0
      OBVIOUS
    <3>6. pos' = Len(whole) - 2 + Len(pair') /\ Len(pair') <= 2
      BY <1>1, <2>1, <3>4, <3>5
    <3>7. InLast(whole)'
      BY <2>1, <2>2, <3>2, <3>3, <3>5, <3>6 DEF InLast
    <3>8. bytesLeft' \in Int /\ pc' # "idle"
      BY <3>2
    <3> QED
      BY <2>4, <2>5, <3>7, <3>8 DEF Chunked, Where
  <2>7. CASE k # n
    <3>0. k + 1 \in 1..n /\ Says(ls[k + 1], Len(cs[k + 1])) /\ (k + 1) - 1 = k
      BY <1>0, <1>1, <2>7, LineSays
    <3> DEFINE c == cs[k + 1]
    <3>1. c \in Seq(Byte) /\ Len(c) \in Nat /\ Len(c) > 0
      BY <1>0, <3>0, ChunkPlace
    <3>2. ParseUint(s) = Len(c)
      BY <2>0, <3>0 DEF Says
    <3>3. bytesLeft' = Len(c) /\ pc' = "body"
      BY <2>1, <3>1, <3>2
    <3>4. pos' = at[k + 1] - 2 - bytesLeft'
      <4>1. at[k + 1] = at[k] + Len(ls[k + 1]) + Len(c) + 4 /\ at[k] \in Nat /\ at[k + 1] \in Nat
        <5>1. /\ at[k + 1] = at[(k + 1) - 1] + Len(ls[k + 1]) + Len(c) + 4
              /\ at[(k + 1) - 1] \in Nat /\ at[k + 1] \in Nat
          BY <1>0, <3>0, ChunkPlace, SMTT(40)
        <5> QED
          BY <3>0, <5>1
      <4> DEFINE q == at[k + 1]
                 h == Len(c)
      <4>2. q = p + Len(l) + h + 4 /\ q \in Nat /\ h \in Nat /\ bytesLeft' = h
        BY <2>0, <3>1, <3>3, <4>1
      <4> HIDE DEF q, h
      <4>3. pos' = q - 2 - bytesLeft'
        BY <1>1, <4>2
      <4> QED
        BY <4>3 DEF q
    <3>5. out' = D[(k + 1) - 1] \o SubSeq(c, 1, Len(c) - bytesLeft')
      <4>1. Len(c) - bytesLeft' = 0
        BY <3>1, <3>3
      <4>2. D[k] \in Seq(Byte)
        BY <1>0, <1>1, LayoutLine
      <4>3. D[k] \o SubSeq(c, 1, 0) = D[k]
        BY <3>1, <4>2, PartWhole
      <4> QED
        BY <2>1, <3>0, <4>1, <4>3
    <3>6. InBody(n, cs, at, D)'
      <4>1. bytesLeft' > 0 /\ bytesLeft' <= Len(c)
        BY <3>1, <3>3
      <4> QED
        BY <2>1, <3>0, <3>3, <3>4, <3>5, <4>1 DEF InBody, Quiet
    <3>7. bytesLeft' \in Int /\ pc' # "idle"
      BY <3>1, <3>3
    <3> QED
      BY <2>4, <2>5, <3>6, <3>7 DEF Chunked, Where
  <2> QED
    BY <2>6, <2>7
<1> QED
  BY <1>5, <1>6

(* No LF behind the CR.                                                     *)
LEMMA LineMalformed ==
  ASSUME NEW n, NEW cs, NEW ls, NEW at, NEW D, NEW whole, Chunked(n, cs, ls, at, D, whole),
         NEW k, NEW p, LineStart(n, at, k, p),
         NEW l \in Seq(Byte), NoCR(l), \A m \in 1..Len(l) : l[m] = wire[p + m],
         wire[p + Len(l) + 1] = "CR", wire[p + Len(l) + 2] # "LF",
         p + Len(l) + 2 <= Len(wire), pos' = p + Len(l) + 2,
         pc \in {"line", "lf"}, Fail("malformed"), UNCHANGED <<msgVars, stalls, out, closed>>
  PROVE  Chunked(n, cs, ls, at, D, whole)'
<1>0. Layout(n, cs, ls, at, D, whole)
  BY DEF Chunked
<1>1. Len(l) \in Nat /\ p \in Nat /\ Len(wire) \in Nat /\ Len(whole) \in Nat
  BY <1>0, LayoutSizes DEF LineStart
<1>2. p + Len(l) + 1 <= Len(wire) /\ p + Len(l) <= Len(wire)
  BY <1>1
<1>3. p = at[k] => whole[p + Len(l) + 2] = "LF"
  BY <1>0, <1>2, LineIs
<1>4. pos' \in Nat /\ pos' <= Len(wire) /\ pos' <= Len(whole)
  <2>1. /\ at[k] \in Nat /\ Len(ls[k + 1]) \in Nat /\ p + Len(l) <= at[k] + Len(ls[k + 1])
        /\ at[k] + Len(ls[k + 1]) + 4 <= Len(whole)
    BY <1>0, <1>2, LineBounds
  <2> QED
    BY <1>1, <2>1, SMTT(40)
<1>5. wire[p + Len(l) + 2] = whole[p + Len(l) + 2]
  <2> DEFINE i == p + Len(l) + 2
  <2>1. i \in Int /\ 1 <= i /\ i <= Len(wire) /\ i <= Len(whole)
    BY <1>1, <1>4
  <2> HIDE DEF i
  <2>2. wire[i] = whole[i]
    BY <1>0, <2>1, LayoutWire
  <2> QED
    BY <2>2 DEF i
<1>6. p # at[k] /\ "malformed" \notin {"nil", "EOF"}
  BY <1>3, <1>5
<1> QED
  BY <1>4, <1>6, LineRefused

------------------------------------------------------------------------------
(* The steps of a Read, one by one.                                         *)

(* What a Read has put aside, typed.                                        *)
LEMMA OutcomeTypes ==
  ASSUME NEW n, NEW cs, NEW ls, NEW at, NEW D, NEW whole, Chunked(n, cs, ls, at, D, whole)
  PROVE  /\ Layout(n, cs, ls, at, D, whole) /\ Where(n, cs, at, D, whole) /\ Outcome
         /\ pos \in Nat /\ pos <= Len(wire) /\ Len(wire) \in Nat /\ Len(whole) \in Nat
         /\ line \in Seq(Byte) /\ pair \in Seq(Byte) /\ out \in Seq(Byte) /\ wire \in Seq(Byte)
         /\ Len(line) \in Nat /\ Len(pair) \in Nat /\ n \in Nat /\ bytesLeft \in Int
         /\ body \in Seq(Byte)
<1>1. /\ Layout(n, cs, ls, at, D, whole) /\ Where(n, cs, at, D, whole) /\ Outcome
      /\ pos \in Nat /\ pos <= Len(wire) /\ bytesLeft \in Int
      /\ line \in Seq(Byte) /\ pair \in Seq(Byte) /\ out \in Seq(Byte)
  BY DEF Chunked, Outcome
<1>2. Len(line) \in Nat /\ Len(pair) \in Nat
  BY <1>1
<1> QED
  BY <1>1, <1>2, LayoutSizes

(* A step within a Read that neither fails nor delivers.                    *)
LEMMA OutcomeGoesOn ==
  ASSUME Outcome, pc # "idle", pc' # "idle", pos' \in Nat, pos' <= Len(wire),
         line' \in Seq(Byte), pair' \in Seq(Byte),
         UNCHANGED <<msgVars, stalls, bytesLeft, room, out, result, failed, closed>>
  PROVE  Outcome'
<1>1. /\ wire' = wire /\ fault' = fault /\ stalls' = stalls /\ bytesLeft' = bytesLeft
      /\ room' = room /\ out' = out /\ result' = result /\ failed' = failed /\ closed' = closed
  BY DEF msgVars
<1>2. result = "nil"
  BY DEF Outcome
<1> QED
  BY <1>1, <1>2 DEF Outcome

LEMMA CallReadKeeps ==
  ASSUME NEW n, NEW cs, NEW ls, NEW at, NEW D, NEW whole, Chunked(n, cs, ls, at, D, whole),
         CallRead, closed' = closed
  PROVE  Chunked(n, cs, ls, at, D, whole)'
<1>0. Layout(n, cs, ls, at, D, whole) /\ Where(n, cs, at, D, whole) /\ Outcome
      /\ pos \in Nat /\ pos <= Len(wire) /\ bytesLeft \in Int /\ out \in Seq(Byte)
  BY OutcomeTypes
<1>1. /\ wire' = wire /\ body' = body /\ fault' = fault /\ stalls' = stalls /\ pos' = pos
      /\ bytesLeft' = bytesLeft /\ out' = out /\ buffered' = buffered /\ UNCHANGED msgVars
      /\ pc = "idle"
  BY DEF CallRead, msgVars
<1>2. CASE bytesLeft < 0 /\ Return("EOF")
  <2>1. AtEnd(whole)
    <3>1. bytesLeft # 0 /\ ~(bytesLeft > 0)
      BY <1>0, <1>2
    <3> QED
      BY <1>0, <1>1, <3>1 DEF Where, AtIdle, InLine, InLF, InBody, InLast, InCRLF
  <2>2. bytesLeft = -1 /\ Starts(out, body)
        /\ (fault = "none" => pos <= Len(whole) /\ (~failed => out = body /\ pos = Len(whole)))
    BY <2>1 DEF AtEnd
  <2>3. Outcome'
    <3>1. stalls' \in Nat /\ closed' \in BOOLEAN
          /\ (fault = "none" /\ stalls' = 0 /\ ~closed' => ~failed)
      BY <1>0, <1>1 DEF Outcome
    <3>2. "EOF" \in {"nil", "EOF"}
      OBVIOUS
    <3> QED
      BY <1>0, <1>1, <1>2, <2>2, <3>1, <3>2, Returned
  <2>4. ~failed' => ~failed
    BY <1>2 DEF Return
  <2> QED
    BY <1>0, <1>1, <1>2, <2>2, <2>3, <2>4, Ended
<1>3. CASE /\ bytesLeft >= 0
           /\ \E l \in BufLens : room' = l
           /\ pc' = IF bytesLeft = 0 THEN "line" ELSE "body"
           /\ result' = "nil" /\ UNCHANGED <<pair, line, failed>>
  <2>1. Outcome'
    <3>1. room' \in Nat
      BY <1>3, ChunkedAssumption DEF ChunkedAssumption
    <3> QED
      BY <1>0, <1>1, <1>3, <3>1 DEF Outcome
  <2>2. CASE bytesLeft = 0
    <3>1. AtIdle(n, at, D)
      BY <1>0, <1>1, <2>2 DEF Where, AtEnd, InLine, InLF, InBody, InLast, InCRLF
    <3>2. PICK k \in 0..n : LineStart(n, at, k, pos) /\ out = D[k]
      BY <3>1 DEF AtIdle
    <3>3. pair' = <<>> /\ line' = <<>>
      BY <1>3, <3>1 DEF AtIdle, Quiet
    <3>4. Len(<<>>) = 0
      OBVIOUS
    <3>5. Len(line') = 0 /\ Len(pair') = 0 /\ pos' = pos + 0 + 0
      BY <1>0, <1>1, <3>3, <3>4
    <3>6. LineStart(n, at, k, pos)'
      BY <1>1, <1>3, <3>2 DEF LineStart
    <3>7. InLine(n, at, D)'
      <4>1. \A m \in 1..0 : FALSE
        OBVIOUS
      <4>2. /\ LineStart(n, at, k, pos') /\ fault' = fault /\ failed' = failed
            /\ out' = D[k] /\ pos' = pos' + Len(line') + Len(pair')
        BY <1>0, <1>1, <1>3, <3>2, <3>5
      <4>3. /\ pc' = "line" /\ bytesLeft' = 0 /\ Quiet' /\ Len(pair') <= 2
        BY <1>1, <1>3, <2>2, <3>3, <3>5 DEF Quiet
      <4> QED
        BY <1>0, <1>1, <3>5, <3>6, <4>1, <4>2, <4>3 DEF InLine, NoCR
    <3> QED
      BY <1>0, <1>1, <2>1, <3>7, LayoutStays DEF Chunked, Where
  <2>3. CASE bytesLeft # 0
    <3>1. InBody(n, cs, at, D)
      <4>1. bytesLeft # -1
        BY <1>3
      <4> QED
        BY <1>0, <1>1, <2>3, <4>1 DEF Where, AtEnd, InLine, InLF, AtIdle, InLast, InCRLF
    <3>2. InBody(n, cs, at, D)'
      BY <1>1, <1>3, <2>3, <3>1 DEF InBody, Quiet
    <3> QED
      BY <1>0, <1>1, <2>1, <3>2, LayoutStays DEF Chunked, Where
  <2> QED
    BY <2>2, <2>3
<1> QED
  BY <1>2, <1>3 DEF CallRead

(* Where a Read is.                                                         *)
LEMMA Place ==
  ASSUME NEW n, NEW cs, NEW ls, NEW at, NEW D, NEW whole, Chunked(n, cs, ls, at, D, whole)
  PROVE  /\ pc = "line" => InLine(n, at, D)
         /\ pc = "lf" => InLF(n, at, D)
         /\ pc = "body" => InBody(n, cs, at, D)
         /\ pc = "crlf" => InCRLF(n, at, D)
         /\ pc = "lastcrlf" => InLast(whole)
  BY DEF Chunked, Where, AtIdle, InLine, InLF, InBody, InCRLF, InLast, AtEnd

(* One byte or two have come.                                               *)
LEMMA Fetched ==
  ASSUME pair \in Seq(Byte), wire \in Seq(Byte), pos \in Nat, NEW j \in 1..(2 - Len(pair)),
         j <= Ahead, pair' = pair \o SubSeq(wire, pos + 1, pos + j), pos' = pos + j
  PROVE  /\ pair' \in Seq(Byte) /\ Len(pair') = Len(pair) + j /\ Len(pair') <= 2
         /\ pos' \in Nat /\ pos' <= Len(wire)
         /\ \A m \in 1..Len(pair) : pair'[m] = pair[m]
         /\ \A m \in 1..j : pair'[Len(pair) + m] = wire[pos + m]
<1> DEFINE w == SubSeq(wire, pos + 1, pos + j)
<1>0. /\ Len(pair) \in Nat /\ Len(wire) \in Nat /\ j \in Nat
      /\ Len(pair) + j <= 2 /\ pos + j <= Len(wire)
  BY DEF Ahead
<1>1. w \in Seq(Byte) /\ Len(w) = j /\ \A m \in 1..j : w[m] = wire[pos + m]
  BY <1>0
<1> HIDE DEF w
<1>2. Joins(pair \o w, pair, w)
  BY <1>1, Joining
<1>3. pair' = pair \o w
  BY DEF w
<1>4. Joins(pair', pair, w)
  BY <1>2, <1>3
<1>5. /\ pair' \in Seq(Byte) /\ Len(pair') = Len(pair) + j
      /\ \A m \in 1..Len(pair) : pair'[m] = pair[m]
  BY <1>1, <1>4 DEF Joins
<1>6. ASSUME NEW m \in 1..j PROVE pair'[Len(pair) + m] = wire[pos + m]
  BY <1>1, <1>4 DEF Joins
<1>7. Len(pair') <= 2 /\ pos' \in Nat /\ pos' <= Len(wire)
  BY <1>0, <1>5
<1> QED
  BY <1>5, <1>6, <1>7

LEMMA FetchedOn ==
  ASSUME NEW b \in Int, pair \in Seq(Byte), pos = b + Len(pair),
         \A m \in 1..Len(pair) : pair[m] = wire[b + m],
         NEW j \in Nat, pos' = pos + j, Len(pair') = Len(pair) + j,
         \A m \in 1..Len(pair) : pair'[m] = pair[m],
         \A m \in 1..j : pair'[Len(pair) + m] = wire[pos + m]
  PROVE  pos' = b + Len(pair') /\ \A m \in 1..Len(pair') : pair'[m] = wire[b + m]
<1>1. Len(pair) \in Nat
  OBVIOUS
<1>2. pos' = b + Len(pair')
  BY <1>1
<1>3. ASSUME NEW m \in 1..Len(pair') PROVE pair'[m] = wire[b + m]
  <2>1. CASE m <= Len(pair)
    BY <1>1, <2>1
  <2>2. CASE m > Len(pair)
    <3> DEFINE i == m - Len(pair)
    <3>1. i \in 1..j /\ Len(pair) + i = m /\ pos + i = b + m
      BY <1>1, <2>2
    <3> HIDE DEF i
    <3>2. pair'[Len(pair) + i] = wire[pos + i]
      BY <3>1
    <3> QED
      BY <3>1, <3>2
  <2> QED
    BY <1>1, <2>1, <2>2
<1> QED
  BY <1>2, <1>3

LEMMA FetchKeeps ==
  ASSUME NEW n, NEW cs, NEW ls, NEW at, NEW D, NEW whole, Chunked(n, cs, ls, at, D, whole),
         Fetch, closed' = closed
  PROVE  Chunked(n, cs, ls, at, D, whole)'
<1>0. /\ Layout(n, cs, ls, at, D, whole) /\ Outcome /\ pos \in Nat /\ Len(wire) \in Nat
      /\ pair \in Seq(Byte) /\ wire \in Seq(Byte) /\ line \in Seq(Byte)
      /\ Len(line) \in Nat /\ Len(pair) \in Nat /\ n \in Nat /\ Len(whole) \in Nat
  BY OutcomeTypes
<1>1. /\ wire' = wire /\ body' = body /\ fault' = fault /\ buffered' = buffered
      /\ bytesLeft' = bytesLeft /\ line' = line /\ pc' = pc /\ out' = out /\ failed' = failed
      /\ UNCHANGED msgVars /\ UNCHANGED <<stalls, room, result>> /\ Fetching
  BY DEF Fetch, msgVars
<1>2. PICK j \in 1..(2 - Len(pair)) : /\ j <= Ahead
                                      /\ pair' = pair \o SubSeq(wire, pos + 1, pos + j)
                                      /\ pos' = pos + j
  BY DEF Fetch
<1>3. /\ pair' \in Seq(Byte) /\ Len(pair') = Len(pair) + j /\ Len(pair') <= 2
      /\ pos' \in Nat /\ pos' <= Len(wire)
      /\ \A m \in 1..Len(pair) : pair'[m] = pair[m]
      /\ \A m \in 1..j : pair'[Len(pair) + m] = wire[pos + m]
  BY <1>0, <1>2, Fetched
<1>4. j \in Nat /\ Len(pair) + j <= 2 /\ j >= 1
  BY <1>0
<1>5. Outcome'
  <2>1. pc # "idle"
    BY <1>1 DEF Fetching
  <2> QED
    BY <1>0, <1>1, <1>3, <2>1, OutcomeGoesOn
<1>6. Layout(n, cs, ls, at, D, whole)'
  BY <1>0, <1>1, LayoutStays
<1>7. CASE pc = "line"
  <2>1. InLine(n, at, D) /\ ~buffered
    BY <1>1, <1>7, Place DEF Fetching
  <2>2. PICK k \in 0..n, p \in Nat :
          /\ LineStart(n, at, k, p) /\ out = D[k]
          /\ pos = p + Len(line) + Len(pair)
          /\ \A m \in 1..Len(line) : line[m] = wire[p + m]
          /\ \A m \in 1..Len(pair) : pair[m] = wire[p + Len(line) + m]
    BY <2>1 DEF InLine
  <2> DEFINE b == p + Len(line)
  <2>3. b \in Int /\ pos = b + Len(pair) /\ \A m \in 1..Len(pair) : pair[m] = wire[b + m]
    BY <1>0, <2>2
  <2> HIDE DEF b
  <2>4. pos' = b + Len(pair') /\ \A m \in 1..Len(pair') : pair'[m] = wire[b + m]
    BY <1>0, <1>2, <1>3, <1>4, <2>3, FetchedOn
  <2>5. LineStart(n, at, k, p)'
    BY <1>1, <2>2 DEF LineStart
  <2>6. NoCR(line)' /\ bytesLeft = 0
    BY <1>1, <2>1 DEF InLine, NoCR
  <2>7. InLine(n, at, D)'
    BY <1>1, <1>3, <1>7, <2>1, <2>2, <2>4, <2>5, <2>6 DEF InLine, b
  <2> QED
    BY <1>5, <1>6, <2>7 DEF Chunked, Where
<1>8. CASE pc = "lf"
  <2>1. InLF(n, at, D)
    BY <1>8, Place
  <2>2. PICK k \in 0..n, p \in Nat :
          /\ LineStart(n, at, k, p) /\ out = D[k]
          /\ pos = p + Len(line) + Len(pair) + 1
          /\ \A m \in 1..Len(line) : line[m] = wire[p + m]
          /\ wire[p + Len(line) + 1] = pair[1] /\ wire[p + Len(line) + 2] = "CR"
    BY <2>1 DEF InLF
  <2>3. 1 <= Len(pair) /\ bytesLeft = 0 /\ NoCR(line) /\ pair[1] # "CR"
    BY <2>1 DEF InLF
  <2>4. Len(pair) = 1 /\ j = 1 /\ Len(pair') = 2 /\ pos' = pos + 1
    <3> DEFINE x == Len(pair)
               y == Len(pair')
    <3>1. x \in Nat /\ 1 <= x /\ x + j <= 2 /\ y = x + j /\ pos' = pos + j
      BY <1>0, <1>2, <1>3, <1>4, <2>3
    <3> HIDE DEF x, y
    <3>2. x = 1 /\ j = 1 /\ y = 2
      BY <1>4, <3>1
    <3> QED
      BY <3>1, <3>2 DEF x, y
  <2>5. pair'[1] = pair[1] /\ pair'[2] = wire[pos']
    <3>1. 1 \in 1..Len(pair) /\ 1 \in 1..j /\ Len(pair) + 1 = 2
      BY <2>4
    <3> QED
      BY <1>3, <2>4, <3>1
  <2>6. pos' = p + Len(line) + Len(pair') + 1
    <3> DEFINE x == Len(pair)
               y == Len(pair')
    <3>1. x = 1 /\ y = 2 /\ pos' = pos + 1 /\ pos = p + Len(line) + x + 1
      BY <2>2, <2>4
    <3> HIDE DEF x, y
    <3>2. pos' = p + Len(line) + y + 1
      BY <1>0, <3>1
    <3> QED
      BY <3>2 DEF y
  <2>7. LineStart(n, at, k, p)'
    BY <1>1, <2>2 DEF LineStart
  <2>8. NoCR(line)'
    BY <1>1, <2>3 DEF NoCR
  <2>9. 1 <= Len(pair') /\ Len(pair') <= 2
    BY <2>4
  <2>10. InLF(n, at, D)'
    BY <1>1, <1>8, <2>2, <2>3, <2>5, <2>6, <2>7, <2>8, <2>9 DEF InLF
  <2> QED
    BY <1>5, <1>6, <2>10 DEF Chunked, Where
<1>9. CASE pc = "crlf"
  <2>1. InCRLF(n, at, D)
    BY <1>9, Place
  <2>2. PICK k \in 1..n : /\ out = D[k] /\ pos = at[k] - 2 + Len(pair)
                          /\ \A m \in 1..Len(pair) : pair[m] = wire[at[k] - 2 + m]
    BY <2>1 DEF InCRLF
  <2> DEFINE b == at[k] - 2
  <2>3. b \in Int /\ pos = b + Len(pair) /\ \A m \in 1..Len(pair) : pair[m] = wire[b + m]
    <3>1. at[k] \in Nat
      BY <1>0, ChunkPlace
    <3> QED
      BY <2>2, <3>1
  <2> HIDE DEF b
  <2>4. pos' = b + Len(pair') /\ \A m \in 1..Len(pair') : pair'[m] = wire[b + m]
    BY <1>0, <1>2, <1>3, <1>4, <2>3, FetchedOn
  <2>5. InCRLF(n, at, D)'
    BY <1>1, <1>3, <1>9, <2>1, <2>2, <2>4 DEF InCRLF, b
  <2> QED
    BY <1>5, <1>6, <2>5 DEF Chunked, Where
<1>10. CASE pc = "lastcrlf"
  <2>1. InLast(whole)
    BY <1>10, Place
  <2> DEFINE b == Len(whole) - 2
  <2>2. b \in Int /\ pos = b + Len(pair) /\ \A m \in 1..Len(pair) : pair[m] = wire[b + m]
    BY <1>0, <2>1 DEF InLast
  <2> HIDE DEF b
  <2>3. pos' = b + Len(pair') /\ \A m \in 1..Len(pair') : pair'[m] = wire[b + m]
    BY <1>0, <1>2, <1>3, <1>4, <2>2, FetchedOn
  <2>4. InLast(whole)'
    BY <1>1, <1>3, <1>10, <2>1, <2>3 DEF InLast, b
  <2> QED
    BY <1>5, <1>6, <2>4 DEF Chunked, Where
<1> QED
  BY <1>1, <1>7, <1>8, <1>9, <1>10 DEF Fetching

(* The end of the source within a message that was cut off.                 *)
LEMMA CutOff ==
  ASSUME NEW n, NEW cs, NEW ls, NEW at, NEW D, NEW whole, Chunked(n, cs, ls, at, D, whole),
         fault # "none", pc # "crlf", Fail("EOF"), UNCHANGED <<msgVars, stalls, closed>>,
         pos' \in Nat, pos' <= Len(wire), out' \in Seq(Byte), Starts(out', body)
  PROVE  Chunked(n, cs, ls, at, D, whole)'
<1>1. Layout(n, cs, ls, at, D, whole) /\ Outcome
  BY DEF Chunked
<1>2. /\ Return("EOF") /\ bytesLeft' = -1 /\ stalls' = stalls /\ closed' = closed
      /\ fault' = fault /\ wire' = wire /\ UNCHANGED msgVars
  BY DEF Fail, msgVars
<1>3. stalls' \in Nat /\ bytesLeft' \in Int /\ closed' \in BOOLEAN
  BY <1>1, <1>2 DEF Outcome
<1>4. Outcome'
  BY <1>1, <1>2, <1>3, Returned
<1> QED
  BY <1>1, <1>2, <1>4, Ended

LEMMA FetchFailsKeeps ==
  ASSUME NEW n, NEW cs, NEW ls, NEW at, NEW D, NEW whole, Chunked(n, cs, ls, at, D, whole),
         FetchFails, closed' = closed
  PROVE  Chunked(n, cs, ls, at, D, whole)'
<1>0. /\ Layout(n, cs, ls, at, D, whole) /\ Outcome /\ pos \in Nat /\ pos <= Len(wire)
      /\ Len(wire) \in Nat /\ Len(line) \in Nat /\ Len(pair) \in Nat /\ n \in Nat
      /\ Len(whole) \in Nat /\ line \in Seq(Byte) /\ out \in Seq(Byte) /\ body \in Seq(Byte)
  BY OutcomeTypes
<1>1. /\ wire' = wire /\ body' = body /\ fault' = fault /\ out' = out /\ UNCHANGED msgVars
      /\ Len(pair) < 2
  BY DEF FetchFails, msgVars
<1>2. fault \in {"none", "cut"} /\ (fault = "none" => Len(whole) <= Len(wire))
  BY <1>0, LayoutSizes
<1>3. CASE Fetching /\ Ahead <= 2 - Len(pair) /\ pos' = Len(wire) /\ Fail("EOF") /\ UNCHANGED stalls
  <2>1. Len(wire) - pos <= 2 - Len(pair) /\ pos' \in Nat /\ pos' <= Len(wire)
    BY <1>0, <1>3 DEF Ahead
  <2>2. Starts(out, body)
    BY OutStarts
  <2>3. CASE pc = "line"
    <3>1. InLine(n, at, D)
      BY <2>3, Place
    <3>2. PICK k \in 0..n, p \in Nat :
            /\ LineStart(n, at, k, p) /\ out = D[k]
            /\ pos = p + Len(line) + Len(pair)
            /\ \A m \in 1..Len(line) : line[m] = wire[p + m]
      BY <3>1 DEF InLine
    <3>3. NoCR(line) /\ p + Len(line) <= Len(wire)
      BY <1>0, <3>1, <3>2 DEF InLine
    <3>4. /\ at[k] \in Nat /\ Len(ls[k + 1]) \in Nat /\ p + Len(line) <= at[k] + Len(ls[k + 1])
          /\ at[k] + Len(ls[k + 1]) + 4 <= Len(whole)
      BY <1>0, <3>2, <3>3, LineBounds
    <3>5. fault # "none"
      <4> DEFINE e == at[k] + Len(ls[k + 1])
                 b == p + Len(line)
      <4>1. e \in Nat /\ b <= e /\ e + 4 <= Len(whole)
        BY <3>4
      <4>2. b \in Nat /\ pos = b + Len(pair)
        BY <1>0, <3>2
      <4> HIDE DEF e, b
      <4>3. Len(wire) < Len(whole)
        BY <1>0, <2>1, <4>1, <4>2
      <4> QED
        BY <1>0, <1>2, <4>3
    <3> QED
      BY <1>0, <1>1, <1>3, <2>1, <2>2, <2>3, <3>5, CutOff
  <2>4. CASE pc = "lf"
    <3>1. InLF(n, at, D)
      BY <2>4, Place
    <3>2. PICK k \in 0..n, p \in Nat :
            /\ LineStart(n, at, k, p) /\ out = D[k]
            /\ pos = p + Len(line) + Len(pair) + 1
            /\ \A m \in 1..Len(line) : line[m] = wire[p + m]
      BY <3>1 DEF InLF
    <3>3. NoCR(line) /\ p + Len(line) <= Len(wire)
      <4>1. p + Len(line) <= Len(wire)
        BY <1>0, <3>2
      <4> QED
        BY <3>1, <4>1 DEF InLF
    <3>4. /\ at[k] \in Nat /\ Len(ls[k + 1]) \in Nat /\ p + Len(line) <= at[k] + Len(ls[k + 1])
          /\ at[k] + Len(ls[k + 1]) + 4 <= Len(whole)
      BY <1>0, <3>2, <3>3, LineBounds
    <3>5. fault # "none"
      <4> DEFINE e == at[k] + Len(ls[k + 1])
                 b == p + Len(line)
      <4>1. e \in Nat /\ b <= e /\ e + 4 <= Len(whole)
        BY <3>4
      <4>2. b \in Nat /\ pos = b + Len(pair) + 1
        BY <1>0, <3>2
      <4> HIDE DEF e, b
      <4>3. Len(wire) < Len(whole)
        BY <1>0, <2>1, <4>1, <4>2
      <4> QED
        BY <1>0, <1>2, <4>3
    <3> QED
      BY <1>0, <1>1, <1>3, <2>1, <2>2, <2>4, <3>5, CutOff
  <2>5. CASE pc = "crlf"
    <3>1. InCRLF(n, at, D)
      BY <2>5, Place
    <3>2. PICK k \in 1..n : out = D[k] /\ pos = at[k] - 2 + Len(pair)
      BY <3>1 DEF InCRLF
    <3>3. at[k] \in Nat /\ at[k] + 4 <= Len(whole)
      BY <1>0, ChunkPlace
    <3>4. fault # "none"
      <4> DEFINE a == at[k]
      <4>1. a \in Nat /\ a + 4 <= Len(whole) /\ pos = a - 2 + Len(pair)
        BY <3>2, <3>3
      <4> HIDE DEF a
      <4>2. Len(wire) < Len(whole)
        BY <1>0, <2>1, <4>1
      <4> QED
        BY <1>0, <1>2, <4>2
    <3>5. /\ Return("EOF") /\ bytesLeft' = 0 /\ stalls' = stalls
      BY <1>3, <2>5 DEF Fail
    <3>6. Outcome'
      <4>1. stalls' \in Nat /\ bytesLeft' \in Int /\ closed' \in BOOLEAN /\ out' \in Seq(Byte)
        BY <1>0, <1>1, <3>5 DEF Outcome
      <4> QED
        BY <1>0, <1>1, <2>1, <3>4, <3>5, <4>1, Returned
    <3>7. k \in 0..n /\ k # 0 /\ pos' <= at[k] /\ at[k] <= pos' + 2
      <4> DEFINE a == at[k]
                 h == Len(pair)
      <4>1. a \in Nat /\ h \in Nat /\ pos = a - 2 + h /\ pos' = Len(wire)
        BY <1>0, <1>3, <3>2, <3>3
      <4>2. k \in 0..n /\ k # 0
        BY <1>0
      <4>3. Len(wire) - pos <= 2 - h
        BY <2>1
      <4> HIDE DEF a, h
      <4>4. pos' <= a /\ a <= pos' + 2
        BY <1>0, <4>1, <4>3
      <4> QED
        BY <4>2, <4>4 DEF a
    <3>8. LineStart(n, at, k, pos)'
      BY <1>1, <2>1, <3>4, <3>7 DEF LineStart
    <3>9. AtIdle(n, at, D)'
      BY <1>1, <3>2, <3>5, <3>7, <3>8 DEF AtIdle, Quiet, Return
    <3> QED
      BY <1>0, <1>1, <3>6, <3>9, LayoutStays DEF Chunked, Where
  <2>6. CASE pc = "lastcrlf"
    <3>1. out = body /\ pos = Len(whole) - 2 + Len(pair)
      BY <2>6, Place DEF InLast
    <3>2. fault = "none" => pos' = Len(whole)
      BY <1>0, <1>2, <1>3, <2>1, <3>1
    <3>3. Return("EOF") /\ bytesLeft' = -1 /\ stalls' = stalls
      BY <1>3, <2>6 DEF Fail
    <3>4. Outcome'
      <4>1. /\ stalls' \in Nat /\ bytesLeft' \in Int /\ closed' \in BOOLEAN /\ out' \in Seq(Byte)
            /\ (fault = "none" /\ stalls' = 0 /\ ~closed' => ~failed)
        BY <1>0, <1>1, <3>3 DEF Outcome
      <4>2. "EOF" \in {"nil", "EOF"}
        OBVIOUS
      <4> QED
        BY <1>0, <1>1, <2>1, <3>3, <4>1, <4>2, Returned
    <3>5. fault = "none" => pos' <= Len(whole) /\ out' = body
      BY <1>0, <1>1, <3>1, <3>2
    <3> QED
      BY <1>0, <1>1, <2>2, <3>2, <3>3, <3>4, <3>5, Ended
  <2> QED
    BY <1>3, <2>3, <2>4, <2>5, <2>6 DEF Fetching
<1>4. CASE (Fetching \/ pc = "line") /\ Stall /\ Fail("temporary") /\ UNCHANGED pos
  <2>1. stalls' \in Nat /\ stalls' # 0 /\ closed' \in BOOLEAN
    BY <1>0, <1>4 DEF Stall, Outcome
  <2>2. pc # "idle" /\ "temporary" \notin {"nil", "EOF"}
    BY <1>4 DEF Fetching
  <2> QED
    BY <1>1, <1>4, <2>1, <2>2, GivesUp
<1> QED
  BY <1>3, <1>4 DEF FetchFails

LEMMA ReadLineKeeps ==
  ASSUME NEW n, NEW cs, NEW ls, NEW at, NEW D, NEW whole, Chunked(n, cs, ls, at, D, whole),
         ReadLine, closed' = closed
  PROVE  Chunked(n, cs, ls, at, D, whole)'
<1>0. /\ Layout(n, cs, ls, at, D, whole) /\ Outcome /\ pos \in Nat /\ pos <= Len(wire)
      /\ Len(wire) \in Nat /\ Len(line) \in Nat /\ line \in Seq(Byte) /\ pair \in Seq(Byte)
  BY OutcomeTypes
<1>1. /\ wire' = wire /\ body' = body /\ fault' = fault /\ buffered' = buffered /\ stalls' = stalls
      /\ pos' = pos /\ UNCHANGED msgVars /\ pc = "line" /\ Len(pair) = 2
  BY DEF ReadLine, msgVars
<1>2. InLine(n, at, D)
  BY <1>1, Place
<1>3. PICK k \in 0..n, p \in Nat :
        /\ LineStart(n, at, k, p) /\ out = D[k]
        /\ pos = p + Len(line) + Len(pair)
        /\ \A m \in 1..Len(line) : line[m] = wire[p + m]
        /\ \A m \in 1..Len(pair) : pair[m] = wire[p + Len(line) + m]
  BY <1>2 DEF InLine
<1>4. NoCR(line) /\ bytesLeft = 0 /\ ~buffered
  <2>1. pair # <<>>
    BY <1>1
  <2> QED
    BY <1>2, <2>1 DEF InLine, Quiet
<1>5. pos' = p + Len(line) + 2 /\ p + Len(line) + 2 <= Len(wire) /\ pos = p + Len(line) + 2
  BY <1>0, <1>1, <1>3
<1>6. pair[1] = wire[p + Len(line) + 1] /\ pair[2] = wire[p + Len(line) + 2]
  <2>1. 1 \in 1..Len(pair) /\ 2 \in 1..Len(pair)
    BY <1>1
  <2> QED
    BY <1>3, <2>1
<1>7. CASE pair = CRLF /\ FinishLine(line)
  <2>1. wire[p + Len(line) + 1] = "CR"
    BY <1>6, <1>7, LineEndIs
  <2> QED
    BY <1>0, <1>1, <1>3, <1>4, <1>5, <1>7, <2>1, LineFinished, SMTT(40)
<1>8. CASE pair[1] = "CR" /\ pair[2] # "LF" /\ Fail("malformed") /\ UNCHANGED out
  BY <1>0, <1>1, <1>3, <1>4, <1>5, <1>6, <1>8, LineMalformed, SMTT(40)
<1>9. CASE /\ pair[1] # "CR" /\ pair[2] = "CR" /\ pc' = "lf" /\ pair' = <<pair[1]>>
           /\ UNCHANGED <<bytesLeft, line, room, out, result, failed>>
  <2>0. pair[1] \in Byte
    <3>1. 1 \in 1..Len(pair)
      BY <1>1
    <3> QED
      BY <1>0, <3>1
  <2>1. pair' \in Seq(Byte) /\ Len(pair') = 1 /\ pair'[1] = pair[1]
    <3>1. ASSUME NEW x \in Byte
          PROVE  <<x>> \in Seq(Byte) /\ Len(<<x>>) = 1 /\ <<x>>[1] = x
      OBVIOUS
    <3>2. pair' = <<pair[1]>>
      BY <1>9
    <3> QED
      BY <2>0, <3>1, <3>2, Zenon
  <2>2. Outcome'
    BY <1>0, <1>1, <1>9, <2>1, OutcomeGoesOn
  <2>3. LineStart(n, at, k, p)'
    BY <1>1, <1>3, <1>9 DEF LineStart
  <2>4. NoCR(line)'
    BY <1>4, <1>9 DEF NoCR
  <2>5. pos' = p + Len(line) + Len(pair') + 1 /\ 1 <= Len(pair') /\ Len(pair') <= 2
        /\ Len(pair') # 2
    <3> DEFINE y == Len(pair')
    <3>1. y = 1
      BY <2>1
    <3> HIDE DEF y
    <3>2. pos' = p + Len(line) + y + 1 /\ 1 <= y /\ y <= 2 /\ y # 2
      BY <1>0, <1>5, <3>1
    <3> QED
      BY <3>2 DEF y
  <2>6. InLF(n, at, D)'
    BY <1>1, <1>3, <1>4, <1>6, <1>9, <2>1, <2>3, <2>4, <2>5 DEF InLF
  <2> QED
    BY <1>0, <1>1, <2>2, <2>6, LayoutStays DEF Chunked, Where
<1>10. CASE /\ pair[1] # "CR" /\ pair[2] # "CR" /\ line' = line \o pair /\ pair' = <<>>
            /\ UNCHANGED <<bytesLeft, room, pc, out, result, failed>>
  <2>1. /\ line' \in Seq(Byte) /\ Len(line') = Len(line) + 2
        /\ \A m \in 1..Len(line) : line'[m] = line[m]
        /\ line'[Len(line) + 1] = pair[1] /\ line'[Len(line) + 2] = pair[2]
    <3>1. Joins(line', line, pair)
      BY <1>0, <1>10, Joining
    <3>2. 1 \in 1..Len(pair) /\ 2 \in 1..Len(pair)
      BY <1>1
    <3>3. line' \in Seq(Byte) /\ \A m \in 1..Len(line) : line'[m] = line[m]
      BY <3>1 DEF Joins
    <3>4. Len(line') = Len(line) + 2
      BY <1>1, <3>1 DEF Joins
    <3>5. line'[Len(line) + 1] = pair[1] /\ line'[Len(line) + 2] = pair[2]
      BY <3>1, <3>2 DEF Joins
    <3> QED
      BY <3>3, <3>4, <3>5
  <2>2. ASSUME NEW m \in 1..Len(line') PROVE line'[m] = wire[p + m] /\ line'[m] # "CR"
    <3>1. m \in 1..Len(line) \/ m = Len(line) + 1 \/ m = Len(line) + 2
      BY <1>0, <2>1
    <3>2. CASE m \in 1..Len(line)
      BY <1>3, <1>4, <2>1, <3>2 DEF NoCR
    <3>3. CASE m = Len(line) + 1
      <4>1. p + m = p + Len(line) + 1
        BY <1>0, <3>3
      <4> QED
        BY <1>6, <1>10, <2>1, <3>3, <4>1
    <3>4. CASE m = Len(line) + 2
      <4>1. p + m = p + Len(line) + 2
        BY <1>0, <3>4
      <4> QED
        BY <1>6, <1>10, <2>1, <3>4, <4>1
    <3> QED
      BY <3>1, <3>2, <3>3, <3>4
  <2>3. pair' \in Seq(Byte) /\ Len(pair') = 0
    BY <1>10, EmptyIs
  <2>4. Outcome'
    BY <1>0, <1>1, <1>10, <2>1, <2>3, OutcomeGoesOn
  <2>5. LineStart(n, at, k, p)'
    BY <1>1, <1>3, <1>10 DEF LineStart
  <2>6. NoCR(line)'
    BY <2>2 DEF NoCR
  <2>7. pos' = p + Len(line') + Len(pair') /\ Len(pair') <= 2 /\ \A m \in 1..Len(pair') : FALSE
    BY <1>0, <1>5, <2>1, <2>3
  <2>8. InLine(n, at, D)'
    BY <1>1, <1>3, <1>4, <1>10, <2>2, <2>5, <2>6, <2>7 DEF InLine
  <2> QED
    BY <1>0, <1>1, <2>4, <2>8, LayoutStays DEF Chunked, Where
<1> QED
  BY <1>7, <1>8, <1>9, <1>10 DEF ReadLine

LEMMA ReadLineLFKeeps ==
  ASSUME NEW n, NEW cs, NEW ls, NEW at, NEW D, NEW whole, Chunked(n, cs, ls, at, D, whole),
         ReadLineLF, closed' = closed
  PROVE  Chunked(n, cs, ls, at, D, whole)'
<1>0. /\ Layout(n, cs, ls, at, D, whole) /\ Outcome /\ pos \in Nat /\ pos <= Len(wire)
      /\ Len(wire) \in Nat /\ Len(line) \in Nat /\ line \in Seq(Byte) /\ pair \in Seq(Byte)
  BY OutcomeTypes
<1>1. /\ wire' = wire /\ body' = body /\ fault' = fault /\ stalls' = stalls
      /\ pos' = pos /\ UNCHANGED msgVars /\ pc = "lf" /\ Len(pair) = 2
  BY DEF ReadLineLF, msgVars
<1>2. InLF(n, at, D)
  BY <1>1, Place
<1>3. PICK k \in 0..n, p \in Nat :
        /\ LineStart(n, at, k, p) /\ out = D[k]
        /\ pos = p + Len(line) + Len(pair) + 1
        /\ \A m \in 1..Len(line) : line[m] = wire[p + m]
        /\ wire[p + Len(line) + 1] = pair[1] /\ wire[p + Len(line) + 2] = "CR"
        /\ Len(pair) = 2 => pair[2] = wire[pos]
  BY <1>2 DEF InLF
<1>4. NoCR(line) /\ pair[1] # "CR"
  BY <1>2 DEF InLF
<1> DEFINE l == Append(line, pair[1])
<1>5. pair[1] \in Byte
  <2>1. 1 \in 1..Len(pair)
    BY <1>1
  <2> QED
    BY <1>0, <2>1
<1>6. /\ l \in Seq(Byte) /\ Len(l) = Len(line) + 1
      /\ \A m \in 1..Len(line) : l[m] = line[m]
      /\ l[Len(line) + 1] = pair[1]
  <2>1. ASSUME NEW u \in Seq(Byte), NEW x \in Byte
        PROVE  /\ Append(u, x) \in Seq(Byte) /\ Len(Append(u, x)) = Len(u) + 1
               /\ \A m \in 1..Len(u) : Append(u, x)[m] = u[m]
               /\ Append(u, x)[Len(u) + 1] = x
    OBVIOUS
  <2> QED
    BY <1>0, <1>5, <2>1, Zenon
<1> HIDE DEF l
<1>7. ASSUME NEW m \in 1..Len(l) PROVE l[m] = wire[p + m] /\ l[m] # "CR"
  <2>1. m \in 1..Len(line) \/ m = Len(line) + 1
    BY <1>0, <1>6
  <2>2. CASE m \in 1..Len(line)
    BY <1>3, <1>4, <1>6, <2>2 DEF NoCR
  <2>3. CASE m = Len(line) + 1
    <3>1. p + m = p + Len(line) + 1
      BY <1>0, <2>3
    <3> QED
      BY <1>3, <1>4, <1>6, <2>3, <3>1
  <2> QED
    BY <2>1, <2>2, <2>3
<1>8. NoCR(l)
  BY <1>7 DEF NoCR
<1>9. pos' = p + Len(l) + 2 /\ p + Len(l) + 2 <= Len(wire) /\ pos = p + Len(l) + 2
  <2>1. pos = p + Len(line) + 2 + 1
    BY <1>1, <1>3
  <2> QED
    BY <1>0, <1>1, <1>6, <2>1
<1>10. wire[p + Len(l) + 1] = "CR" /\ wire[p + Len(l) + 2] = pair[2]
  <2>1. p + Len(l) + 1 = p + Len(line) + 2
    BY <1>0, <1>6
  <2> QED
    BY <1>1, <1>3, <1>9, <2>1
<1>11. CASE pair[2] = "LF" /\ FinishLine(Append(line, pair[1]))
  <2>1. FinishLine(l)
    BY <1>11 DEF l
  <2> QED
    BY <1>1, <1>3, <1>6, <1>7, <1>8, <1>9, <1>10, <2>1, LineFinished, SMTT(40)
<1>12. CASE pair[2] # "LF" /\ Fail("malformed") /\ UNCHANGED out
  BY <1>1, <1>3, <1>6, <1>7, <1>8, <1>9, <1>10, <1>12, LineMalformed, SMTT(40)
<1> QED
  BY <1>11, <1>12 DEF ReadLineLF

(* A bufio.Reader's line begins where the last Read has stopped.            *)
LEMMA BufferedLine ==
  ASSUME NEW n, NEW cs, NEW ls, NEW at, NEW D, NEW whole, Chunked(n, cs, ls, at, D, whole),
         pc = "line", buffered
  PROVE  \E k \in 0..n : LineStart(n, at, k, pos) /\ out = D[k]
<1>1. InLine(n, at, D) /\ line = <<>> /\ pair = <<>>
  BY Place DEF InLine, Quiet
<1>2. PICK k \in 0..n, p \in Nat :
        LineStart(n, at, k, p) /\ out = D[k] /\ pos = p + Len(line) + Len(pair)
  BY <1>1 DEF InLine
<1>3. Len(line) = 0 /\ Len(pair) = 0
  BY <1>1, EmptyIs
<1>4. pos = p
  BY <1>2, <1>3
<1> QED
  BY <1>2, <1>4

LEMMA ReadLineBufferedKeeps ==
  ASSUME NEW n, NEW cs, NEW ls, NEW at, NEW D, NEW whole, Chunked(n, cs, ls, at, D, whole),
         ReadLineBuffered, closed' = closed
  PROVE  Chunked(n, cs, ls, at, D, whole)'
<1>0. pos \in Nat /\ Len(wire) \in Nat /\ wire \in Seq(Byte)
  BY OutcomeTypes
<1>1. UNCHANGED msgVars /\ stalls' = stalls /\ pc = "line" /\ buffered
  BY DEF ReadLineBuffered
<1>2. PICK k \in 0..n : LineStart(n, at, k, pos) /\ out = D[k]
  BY <1>1, BufferedLine
<1>3. PICK r \in (pos + 1)..(Len(wire) - 1) :
        /\ wire[r] = "CR"
        /\ \A m \in (pos + 1)..(r - 1) : wire[m] # "CR"
        /\ pos' = r + 1
        /\ \/ wire[r + 1] = "LF" /\ FinishLine(SubSeq(wire, pos + 1, r - 1))
           \/ wire[r + 1] # "LF" /\ Fail("malformed") /\ UNCHANGED out
  BY DEF ReadLineBuffered
<1> DEFINE l == SubSeq(wire, pos + 1, r - 1)
<1>4. r \in Nat /\ pos + 1 <= r /\ r + 1 <= Len(wire)
  BY <1>0
<1>5. l \in Seq(Byte) /\ Len(l) = r - 1 - pos /\ \A m \in 1..(r - 1 - pos) : l[m] = wire[pos + m]
  <2>1. /\ pos + 1 \in Nat /\ r - 1 \in Nat /\ r - 1 <= Len(wire)
        /\ (r - 1) - (pos + 1) + 1 = r - 1 - pos
    BY <1>0, <1>4
  <2> QED
    BY <1>0, <1>4, <2>1
<1> HIDE DEF l
<1>6. /\ pos + Len(l) + 1 = r /\ pos + Len(l) + 2 = r + 1 /\ pos + Len(l) + 2 <= Len(wire)
      /\ pos' = pos + Len(l) + 2
  BY <1>0, <1>3, <1>4, <1>5
<1>7. ASSUME NEW m \in 1..Len(l) PROVE l[m] = wire[pos + m] /\ l[m] # "CR"
  <2>1. pos + m \in (pos + 1)..(r - 1) /\ m \in 1..(r - 1 - pos)
    BY <1>0, <1>4, <1>5
  <2> QED
    BY <1>3, <1>5, <2>1
<1>8. NoCR(l)
  BY <1>7 DEF NoCR
<1>9. CASE wire[r + 1] = "LF" /\ FinishLine(SubSeq(wire, pos + 1, r - 1))
  <2>1. FinishLine(l)
    BY <1>9 DEF l
  <2>2. wire[pos + Len(l) + 1] = "CR" /\ pc \in {"line", "lf"}
    BY <1>1, <1>3, <1>6
  <2> QED
    BY <1>1, <1>2, <1>5, <1>6, <1>7, <1>8, <2>1, <2>2, LineFinished
<1>10. CASE wire[r + 1] # "LF" /\ Fail("malformed") /\ UNCHANGED out
  <2>1. wire[pos + Len(l) + 1] = "CR" /\ wire[pos + Len(l) + 2] # "LF" /\ pc \in {"line", "lf"}
    BY <1>1, <1>3, <1>6, <1>10
  <2> QED
    BY <1>1, <1>2, <1>5, <1>6, <1>7, <1>8, <1>10, <2>1, LineMalformed
<1> QED
  BY <1>3, <1>9, <1>10

LEMMA ReadLineEndsKeeps ==
  ASSUME NEW n, NEW cs, NEW ls, NEW at, NEW D, NEW whole, Chunked(n, cs, ls, at, D, whole),
         ReadLineEnds, closed' = closed
  PROVE  Chunked(n, cs, ls, at, D, whole)'
<1>0. /\ Layout(n, cs, ls, at, D, whole) /\ pos \in Nat /\ pos <= Len(wire) /\ Len(wire) \in Nat
      /\ Len(whole) \in Nat /\ out \in Seq(Byte)
  BY OutcomeTypes
<1>1. /\ UNCHANGED msgVars /\ stalls' = stalls /\ out' = out /\ pc = "line" /\ buffered
      /\ pos' = Len(wire) /\ Fail("EOF")
      /\ \A m \in (pos + 1)..(Len(wire) - 1) : wire[m] # "CR"
  BY DEF ReadLineEnds
<1>2. PICK k \in 0..n : LineStart(n, at, k, pos) /\ out = D[k]
  BY <1>1, BufferedLine
<1>3. fault # "none"
  <2> SUFFICES ASSUME fault = "none" PROVE FALSE
    OBVIOUS
  <2> DEFINE q == at[k] + Len(ls[k + 1]) + 1
  <2>1. Len(whole) <= Len(wire)
    BY <1>0, LayoutSizes
  <2>2. /\ at[k] \in Nat /\ Len(ls[k + 1]) \in Nat /\ at[k] + Len(ls[k + 1]) + 4 <= Len(whole)
        /\ whole[q] = "CR"
    BY <1>0, LayoutLine
  <2>3. pos <= at[k]
    BY <1>2 DEF LineStart
  <2>4. q \in Nat /\ pos < q /\ q + 3 <= Len(whole)
    BY <1>0, <2>2, <2>3, SMTT(40)
  <2> HIDE DEF q
  <2>5. q \in Int /\ 1 <= q /\ q <= Len(wire) /\ q <= Len(whole) /\ q \in (pos + 1)..(Len(wire) - 1)
    BY <1>0, <2>1, <2>4
  <2>6. wire[q] = "CR"
    BY <1>0, <2>2, <2>5, LayoutWire
  <2> QED
    BY <1>1, <2>5, <2>6
<1>4. Starts(out', body) /\ out' \in Seq(Byte) /\ pos' \in Nat /\ pos' <= Len(wire)
  BY <1>0, <1>1, OutStarts
<1> QED
  BY <1>1, <1>3, <1>4, CutOff

LEMMA TakenIs ==
  ASSUME NEW u \in Seq(Byte), NEW x \in Nat, NEW y \in Nat, x + y <= Len(u)
  PROVE  /\ SubSeq(u, x + 1, x + y) \in Seq(Byte) /\ Len(SubSeq(u, x + 1, x + y)) = y
         /\ \A m \in 1..y : SubSeq(u, x + 1, x + y)[m] = u[x + m]
<1> DEFINE a == x + 1
           b == x + y
<1>0. Len(u) \in Nat
  OBVIOUS
<1>1. a \in 1..(Len(u) + 1) /\ b \in (a - 1)..Len(u) /\ b - a + 1 = y
      /\ \A m \in 1..y : a + m - 1 = x + m
  BY <1>0
<1> HIDE DEF a, b
<1>2. /\ SubSeq(u, a, b) \in Seq(Byte) /\ Len(SubSeq(u, a, b)) = b - a + 1
      /\ \A m \in 1..(b - a + 1) : SubSeq(u, a, b)[m] = u[a + m - 1]
  BY <1>1, SubSeqProperties
<1>3. /\ SubSeq(u, a, b) \in Seq(Byte) /\ Len(SubSeq(u, a, b)) = y
      /\ \A m \in 1..y : SubSeq(u, a, b)[m] = u[x + m]
  BY <1>1, <1>2
<1> QED
  BY <1>3 DEF a, b

(* A piece of the chunk is appended to what came before.                    *)
LEMMA PieceIs ==
  ASSUME NEW n, NEW cs, NEW ls, NEW at, NEW D, NEW whole, Chunked(n, cs, ls, at, D, whole),
         NEW k \in 1..n, 0 < bytesLeft, bytesLeft <= Len(cs[k]), pos = at[k] - 2 - bytesLeft,
         out = D[k - 1] \o SubSeq(cs[k], 1, Len(cs[k]) - bytesLeft),
         NEW j \in Nat, j <= bytesLeft, pos + j <= Len(wire),
         out' = out \o SubSeq(wire, pos + 1, pos + j)
  PROVE  out' = D[k - 1] \o SubSeq(cs[k], 1, Len(cs[k]) - (bytesLeft - j))
<1> DEFINE c == cs[k]
           h == Len(c)
           x == h - bytesLeft
           w == SubSeq(wire, pos + 1, pos + j)
<1>0. /\ Layout(n, cs, ls, at, D, whole) /\ pos \in Nat /\ Len(wire) \in Nat /\ wire \in Seq(Byte)
      /\ bytesLeft \in Int /\ Len(whole) \in Nat
  BY OutcomeTypes
<1>1. c \in Seq(Byte) /\ h \in Nat /\ at[k] \in Nat /\ at[k] + 4 <= Len(whole)
  BY <1>0, ChunkPlace
<1>2. D[k - 1] \in Seq(Byte)
  BY <1>0, ChunkData
<1>3. \A m \in 1..h : whole[at[k] - 2 - h + m] = c[m]
  BY <1>0, ChunkBytes
<1>4. x \in Nat /\ x + j <= h /\ h - (bytesLeft - j) = x + j
  <2> HIDE DEF h
  <2>1. bytesLeft <= h
    BY DEF h
  <2> QED
    BY <1>0, <1>1, <2>1
<1>5. w \in Seq(Byte) /\ Len(w) = j /\ \A m \in 1..j : w[m] = wire[pos + m]
  BY <1>0, TakenIs
<1> HIDE DEF w
<1>6. ASSUME NEW m \in 1..j PROVE w[m] = c[x + m]
  <2> DEFINE i == pos + m
             a == at[k]
  <2>1. /\ i \in Int /\ 1 <= i /\ i <= Len(wire) /\ i <= Len(whole) /\ x + m \in 1..h
        /\ i = a - 2 - h + (x + m)
    <3>1. a \in Nat /\ a + 4 <= Len(whole) /\ pos = a - 2 - bytesLeft /\ h \in Nat
      BY <1>1
    <3>2. x \in Nat /\ x = h - bytesLeft /\ x + j <= h
      BY <1>4
    <3> HIDE DEF a, h, x
    <3> QED
      BY <1>0, <3>1, <3>2, SMTT(40)
  <2> HIDE DEF i
  <2>2. wire[i] = whole[i]
    BY <1>0, <2>1, LayoutWire
  <2>3. whole[a - 2 - h + (x + m)] = c[x + m]
    BY <1>3, <2>1, Zenon
  <2>4. w[m] = wire[i]
    BY <1>5 DEF i
  <2> QED
    BY <2>1, <2>2, <2>3, <2>4, Zenon
<1>7. out' = (D[k - 1] \o SubSeq(c, 1, x)) \o w
  BY DEF w
<1> HIDE DEF c, x
<1> DEFINE d == D[k - 1]
<1>8. (d \o SubSeq(c, 1, x)) \o w = d \o SubSeq(c, 1, x + j)
  <2>1. x + Len(w) <= Len(c)
    BY <1>4, <1>5
  <2>2. \A m \in 1..Len(w) : w[m] = c[x + m]
    BY <1>5, <1>6
  <2>3. x \in Nat /\ c \in Seq(Byte) /\ w \in Seq(Byte) /\ Len(w) = j /\ d \in Seq(Byte)
    BY <1>1, <1>2, <1>4, <1>5
  <2> HIDE DEF d
  <2> QED
    <3>1. (d \o SubSeq(c, 1, x)) \o w = d \o SubSeq(c, 1, x + Len(w))
      BY <2>1, <2>2, <2>3, PartGrows, Zenon
    <3> QED
      BY <2>3, <3>1, Zenon
<1> QED
  BY <1>4, <1>7, <1>8 DEF c

LEMMA ReadBodyKeeps ==
  ASSUME NEW n, NEW cs, NEW ls, NEW at, NEW D, NEW whole, Chunked(n, cs, ls, at, D, whole),
         ReadBody, closed' = closed
  PROVE  Chunked(n, cs, ls, at, D, whole)'
<1>0. /\ Layout(n, cs, ls, at, D, whole) /\ Outcome /\ pos \in Nat /\ pos <= Len(wire)
      /\ Len(wire) \in Nat /\ bytesLeft \in Int /\ Len(whole) \in Nat /\ body \in Seq(Byte)
      /\ n \in Nat
  BY OutcomeTypes
<1>00. room \in Nat /\ stalls \in Nat /\ closed \in BOOLEAN
       /\ (fault = "none" /\ stalls = 0 /\ ~closed => ~failed)
  BY <1>0 DEF Outcome
<1>1. /\ wire' = wire /\ body' = body /\ fault' = fault /\ stalls' = stalls /\ UNCHANGED msgVars
      /\ pc = "body"
  BY DEF ReadBody, msgVars
<1>2. InBody(n, cs, at, D)
  BY <1>1, Place
<1>3. PICK k \in 1..n :
        /\ bytesLeft <= Len(cs[k]) /\ pos = at[k] - 2 - bytesLeft
        /\ out = D[k - 1] \o SubSeq(cs[k], 1, Len(cs[k]) - bytesLeft)
  BY <1>2 DEF InBody
<1>4. bytesLeft > 0 /\ Quiet
  BY <1>2 DEF InBody
<1>5. PICK j \in 1..BodyLimit :
        /\ out' = out \o SubSeq(wire, pos + 1, pos + j)
        /\ pos' = pos + j
        /\ \/ /\ bytesLeft' = bytesLeft - j
              /\ \/ bytesLeft' # 0 /\ Return("nil")
                 \/ /\ bytesLeft' = 0 /\ pc' = "crlf" /\ room' = room - j
                    /\ UNCHANGED <<pair, line, result, failed>>
           \/ j = Ahead /\ Fail("EOF")
  BY DEF ReadBody
<1>6. j \in Nat /\ j >= 1 /\ j <= bytesLeft /\ j <= room /\ pos + j <= Len(wire)
  BY <1>0, <1>00, <1>4 DEF BodyLimit, LeastOf, Ahead
<1> DEFINE h == Len(cs[k])
           a == at[k]
<1>7. cs[k] \in Seq(Byte) /\ h \in Nat /\ a \in Nat /\ a + 4 <= Len(whole)
  BY <1>0, ChunkPlace, SMTT(40)
<1>8. out' = D[k - 1] \o SubSeq(cs[k], 1, h - (bytesLeft - j))
  BY <1>3, <1>4, <1>6, <1>5, PieceIs
<1>9. /\ D[k - 1] \in Seq(Byte) /\ D[k] \in Seq(Byte) /\ D[k] = D[k - 1] \o cs[k]
      /\ Starts(D[k], body) /\ Len(D[k]) \in Nat
  <2>1. D[k] = D[k - 1] \o cs[k]
    BY <1>0, Zenon DEF Layout
  <2>2. D[k - 1] \in Seq(Byte) /\ D[k] \in Seq(Byte) /\ Starts(D[k], body) /\ Len(D[k]) \in Nat
    BY <1>0, ChunkData
  <2> QED
    BY <2>1, <2>2
<1>10. pos = a - 2 - bytesLeft /\ bytesLeft <= h
  BY <1>3
<1> HIDE DEF h, a
<1>11. /\ pos' \in Nat /\ pos' <= Len(wire) /\ pos' < Len(whole) /\ pos' = a - 2 - (bytesLeft - j)
       /\ h - (bytesLeft - j) \in Int /\ 0 <= h - (bytesLeft - j) /\ h - (bytesLeft - j) <= h
       /\ bytesLeft - j <= h /\ bytesLeft - j \in Int /\ bytesLeft - j >= 0
  BY <1>0, <1>4, <1>5, <1>6, <1>7, <1>10
<1>12. out' \in Seq(Byte) /\ Starts(out', body)
  <2>1. out' \in Seq(Byte) /\ Starts(out', D[k])
    BY <1>7, <1>8, <1>9, <1>11, PartStarts DEF h
  <2>2. Len(out') \in Nat /\ Len(body) \in Nat
    BY <1>0, <2>1
  <2> QED
    BY <1>9, <2>1, <2>2, StartsTrans
<1>13. CASE bytesLeft' = bytesLeft - j /\ bytesLeft' # 0 /\ Return("nil")
  <2>1. bytesLeft' > 0 /\ bytesLeft' <= h /\ bytesLeft' \in Int
    BY <1>11, <1>13
  <2>2. Outcome'
    <3>1. "nil" \in {"nil", "EOF"} /\ "nil" # "EOF"
      OBVIOUS
    <3> QED
      BY <1>0, <1>00, <1>1, <1>11, <1>12, <1>13, <2>1, <3>1, Returned
  <2>3. pos' = at[k] - 2 - bytesLeft' /\ bytesLeft' <= Len(cs[k])
        /\ out' = D[k - 1] \o SubSeq(cs[k], 1, Len(cs[k]) - bytesLeft')
    BY <1>8, <1>11, <1>13, <2>1 DEF h, a
  <2>4. pc' = "idle" /\ pair' = <<>> /\ line' = <<>>
    BY <1>13 DEF Return
  <2>5. InBody(n, cs, at, D)'
    BY <2>1, <2>3, <2>4 DEF InBody, Quiet
  <2> QED
    BY <1>0, <1>1, <2>2, <2>5, LayoutStays DEF Chunked, Where
<1>14. CASE /\ bytesLeft' = bytesLeft - j /\ bytesLeft' = 0 /\ pc' = "crlf" /\ room' = room - j
            /\ UNCHANGED <<pair, line, result, failed>>
  <2>1. out' = D[k]
    <3>1. h - (bytesLeft - j) = h
      BY <1>7, <1>14
    <3>2. D[k - 1] \o SubSeq(cs[k], 1, Len(cs[k])) = D[k - 1] \o cs[k]
      BY <1>7, <1>9, PartWhole
    <3> QED
      BY <1>8, <1>9, <3>1, <3>2 DEF h
  <2>2. line' = <<>> /\ pair' = <<>> /\ Len(pair') = 0
    BY <1>4, <1>14, EmptyIs DEF Quiet
  <2>3. pos' = at[k] - 2 + Len(pair') /\ Len(pair') <= 2 /\ \A m \in 1..Len(pair') : FALSE
    <3>1. pos' = a - 2
      BY <1>7, <1>11, <1>14
    <3>2. pos' = a - 2 + 0
      BY <1>7, <3>1
    <3>3. \A m \in 1..0 : FALSE
      OBVIOUS
    <3> QED
      BY <2>2, <3>2, <3>3 DEF a
  <2>4. Outcome'
    <3>1. room' \in Nat
      BY <1>00, <1>6, <1>14
    <3>2. line' \in Seq(Byte) /\ pair' \in Seq(Byte)
      BY <2>2, EmptyIs
    <3> QED
      BY <1>0, <1>00, <1>1, <1>11, <1>12, <1>14, <3>1, <3>2 DEF Outcome
  <2>5. InCRLF(n, at, D)'
    BY <1>14, <2>1, <2>2, <2>3 DEF InCRLF
  <2> QED
    BY <1>0, <1>1, <2>4, <2>5, LayoutStays DEF Chunked, Where
<1>15. CASE j = Ahead /\ Fail("EOF")
  <2>1. fault # "none"
    <3>1. pos' = Len(wire)
      BY <1>0, <1>5, <1>15 DEF Ahead
    <3>2. fault = "none" => Len(whole) <= Len(wire)
      BY <1>0, LayoutSizes
    <3> QED
      BY <1>0, <1>11, <3>1, <3>2
  <2> QED
    BY <1>1, <1>11, <1>12, <1>15, <2>1, CutOff
<1> QED
  BY <1>5, <1>13, <1>14, <1>15

LEMMA ReadBodyEmptyKeeps ==
  ASSUME NEW n, NEW cs, NEW ls, NEW at, NEW D, NEW whole, Chunked(n, cs, ls, at, D, whole),
         ReadBodyEmpty, closed' = closed
  PROVE  Chunked(n, cs, ls, at, D, whole)'
<1>0. /\ Layout(n, cs, ls, at, D, whole) /\ Outcome /\ pos \in Nat /\ pos <= Len(wire)
      /\ Len(wire) \in Nat /\ bytesLeft \in Int /\ Len(whole) \in Nat /\ out \in Seq(Byte)
  BY OutcomeTypes
<1>00. stalls \in Nat /\ closed \in BOOLEAN /\ (fault = "none" /\ stalls = 0 /\ ~closed => ~failed)
  BY <1>0 DEF Outcome
<1>1. /\ wire' = wire /\ body' = body /\ fault' = fault /\ out' = out /\ pos' = pos
      /\ UNCHANGED msgVars /\ pc = "body"
  BY DEF ReadBodyEmpty, msgVars
<1>2. InBody(n, cs, at, D)
  BY <1>1, Place
<1>3. CASE room > 0 /\ Ahead = 0 /\ Fail("EOF") /\ UNCHANGED stalls
  <2>1. PICK k \in 1..n : pos = at[k] - 2 - bytesLeft
    BY <1>2 DEF InBody
  <2>2. bytesLeft > 0
    BY <1>2 DEF InBody
  <2>3. at[k] \in Nat /\ at[k] + 4 <= Len(whole)
    BY <1>0, ChunkPlace
  <2>4. fault # "none"
    <3>1. pos = Len(wire)
      BY <1>0, <1>3 DEF Ahead
    <3>2. fault = "none" => Len(whole) <= Len(wire)
      BY <1>0, LayoutSizes
    <3>3. pos < Len(whole)
      BY <1>0, <2>1, <2>2, <2>3
    <3> QED
      BY <1>0, <3>1, <3>2, <3>3
  <2>5. Starts(out', body)
    BY <1>1, OutStarts
  <2> QED
    BY <1>0, <1>1, <1>3, <2>4, <2>5, CutOff
<1>4. CASE Stall /\ Fail("temporary")
  <2>1. stalls' \in Nat /\ stalls' # 0 /\ closed' \in BOOLEAN
    BY <1>00, <1>4 DEF Stall
  <2>2. pc # "idle" /\ "temporary" \notin {"nil", "EOF"}
    BY <1>1
  <2> QED
    BY <1>1, <1>4, <2>1, <2>2, GivesUp
<1>5. CASE /\ Return("nil") /\ bytesLeft' = bytesLeft
           /\ stalls' \in Nat /\ (stalls' = 0 => stalls = 0)
  <2>1. Outcome'
    <3>1. "nil" \in {"nil", "EOF"} /\ "nil" # "EOF"
      OBVIOUS
    <3> QED
      BY <1>0, <1>00, <1>1, <1>5, <3>1, Returned
  <2>2. InBody(n, cs, at, D)'
    BY <1>1, <1>2, <1>5 DEF InBody, Quiet, Return
  <2> QED
    BY <1>0, <1>1, <2>1, <2>2, LayoutStays DEF Chunked, Where
<1>6. Stall => stalls' \in Nat /\ (stalls' = 0 => stalls = 0)
  BY <1>00 DEF Stall
<1> QED
  BY <1>00, <1>3, <1>4, <1>5, <1>6 DEF ReadBodyEmpty

LEMMA ConsumeCRLFKeeps ==
  ASSUME NEW n, NEW cs, NEW ls, NEW at, NEW D, NEW whole, Chunked(n, cs, ls, at, D, whole),
         ConsumeCRLF, closed' = closed
  PROVE  Chunked(n, cs, ls, at, D, whole)'
<1>0. /\ Layout(n, cs, ls, at, D, whole) /\ Outcome /\ pos \in Nat /\ pos <= Len(wire)
      /\ Len(wire) \in Nat /\ bytesLeft \in Int /\ Len(whole) \in Nat /\ out \in Seq(Byte)
      /\ pair \in Seq(Byte) /\ line \in Seq(Byte) /\ n \in Nat /\ body \in Seq(Byte)
  BY OutcomeTypes
<1>00. stalls \in Nat /\ closed \in BOOLEAN /\ (fault = "none" /\ stalls = 0 /\ ~closed => ~failed)
  BY <1>0 DEF Outcome
<1>1. /\ wire' = wire /\ body' = body /\ fault' = fault /\ out' = out /\ pos' = pos
      /\ buffered' = buffered /\ stalls' = stalls /\ UNCHANGED msgVars
      /\ pc \in {"crlf", "lastcrlf"} /\ Len(pair) = 2
  BY DEF ConsumeCRLF, msgVars
<1>2. 1 \in 1..Len(pair) /\ 2 \in 1..Len(pair)
  BY <1>1
<1>3. (pair[1] = "CR" /\ pair[2] = "LF") => pair = CRLF
  <2> SUFFICES ASSUME pair[1] = "CR", pair[2] = "LF" PROVE pair = CRLF
    OBVIOUS
  <2>1. \A m \in 1..Len(pair) : m = 1 \/ m = 2
    BY <1>1
  <2>2. \A m \in 1..Len(pair) : pair[m] = CRLF[m]
    BY <2>1, LineEndIs
  <2> QED
    BY <1>0, <1>1, <2>2, LineEndIs, SeqEqual
<1>4. CASE pc = "lastcrlf"
  <2>1. InLast(whole)
    BY <1>4, Place
  <2>2. /\ out = body /\ bytesLeft = -1 /\ pos = Len(whole)
        /\ pair[1] = wire[Len(whole) - 1] /\ pair[2] = wire[Len(whole)]
    <3>1. /\ out = body /\ bytesLeft = -1 /\ pos = Len(whole) - 2 + 2
          /\ pair[1] = wire[Len(whole) - 2 + 1] /\ pair[2] = wire[Len(whole) - 2 + 2]
      BY <1>1, <1>2, <2>1 DEF InLast
    <3>2. Len(whole) - 2 + 1 = Len(whole) - 1 /\ Len(whole) - 2 + 2 = Len(whole)
      BY <1>0
    <3> QED
      BY <3>1, <3>2
  <2>3. pair = CRLF
    <3> DEFINE i == Len(whole)
    <3>1. whole[i - 1] = "CR" /\ whole[i] = "LF"
      BY <1>0, LayoutEnd
    <3>2. i >= 4
      <4>1. n \in 0..n
        BY <1>0
      <4>2. at[n] \in Nat /\ Len(ls[n + 1]) \in Nat /\ at[n] + Len(ls[n + 1]) + 4 <= Len(whole)
        BY <1>0, <4>1, LayoutLine
      <4> QED
        BY <1>0, <4>2, SMTT(40)
    <3>3. /\ i \in Int /\ 1 <= i /\ i <= Len(wire) /\ i <= Len(whole)
          /\ i - 1 \in Int /\ 1 <= i - 1 /\ i - 1 <= Len(wire) /\ i - 1 <= Len(whole)
      BY <1>0, <2>2, <3>2
    <3>4. wire[i] = whole[i]
      BY <1>0, <3>3, LayoutWire
    <3>5. wire[i - 1] = whole[i - 1]
      BY <1>0, <3>3, LayoutWire
    <3> QED
      BY <1>3, <2>2, <3>1, <3>4, <3>5
  <2>4. Return("EOF") /\ bytesLeft' = bytesLeft
    BY <1>4, <2>3 DEF ConsumeCRLF
  <2>5. Outcome'
    <3>1. "EOF" \in {"nil", "EOF"}
      OBVIOUS
    <3> QED
      BY <1>0, <1>00, <1>1, <2>2, <2>4, <3>1, Returned
  <2>6. /\ Starts(out', body)
        /\ fault = "none" => pos' <= Len(whole) /\ out' = body /\ pos' = Len(whole)
    BY <1>0, <1>1, <2>2, OutStarts
  <2> QED
    BY <1>0, <1>1, <2>2, <2>4, <2>5, <2>6, Ended
<1>5. CASE pc = "crlf"
  <2>1. InCRLF(n, at, D)
    BY <1>5, Place
  <2>2. PICK k \in 1..n : /\ out = D[k] /\ pos = at[k] - 2 + Len(pair)
                          /\ \A m \in 1..Len(pair) : pair[m] = wire[at[k] - 2 + m]
    BY <2>1 DEF InCRLF
  <2> DEFINE a == at[k]
  <2>3. /\ a \in Nat /\ a - 2 + 1 = a - 1 /\ a - 2 + 2 = a /\ a + 4 <= Len(whole) /\ a >= 4
    <3>1. /\ a \in Nat /\ at[k - 1] \in Nat /\ Len(ls[k]) \in Nat /\ Len(cs[k]) \in Nat
          /\ a = at[k - 1] + Len(ls[k]) + Len(cs[k]) + 4 /\ a + 4 <= Len(whole)
      BY <1>0, ChunkPlace
    <3> HIDE DEF a
    <3>2. a >= 4
      BY <3>1, SMTT(40)
    <3> QED
      BY <3>1, <3>2
  <2>4. pos = a /\ pair[1] = wire[a - 1] /\ pair[2] = wire[a]
    <3>1. pos = a - 2 + 2 /\ pair[1] = wire[a - 2 + 1] /\ pair[2] = wire[a - 2 + 2]
      BY <1>1, <1>2, <2>2
    <3> HIDE DEF a
    <3> QED
      BY <2>3, <3>1
  <2>5. pair = CRLF
    <3>1. whole[a - 1] = "CR" /\ whole[a] = "LF"
      BY <1>0, ChunkBytes
    <3> HIDE DEF a
    <3>3. /\ a \in Int /\ 1 <= a /\ a <= Len(wire) /\ a <= Len(whole)
          /\ a - 1 \in Int /\ 1 <= a - 1 /\ a - 1 <= Len(wire) /\ a - 1 <= Len(whole)
      BY <1>0, <2>3, <2>4
    <3>4. wire[a] = whole[a]
      BY <1>0, <3>3, LayoutWire
    <3>5. wire[a - 1] = whole[a - 1]
      BY <1>0, <3>3, LayoutWire
    <3> QED
      BY <1>3, <2>4, <3>1, <3>4, <3>5
  <2>6. /\ pc' = "line" /\ pair' = <<>>
        /\ UNCHANGED <<bytesLeft, line, room, result, failed>>
    BY <1>5, <2>5 DEF ConsumeCRLF
  <2>7. line = <<>> /\ bytesLeft = 0
    BY <2>1 DEF InCRLF
  <2>8. Outcome'
    <3>1. pair' \in Seq(Byte) /\ line' \in Seq(Byte)
      BY <1>0, <2>6, EmptyIs
    <3> QED
      BY <1>0, <1>1, <1>5, <2>6, <3>1, OutcomeGoesOn
  <2>9. LineStart(n, at, k, pos)'
    <3>1. k \in 0..n /\ k # 0 /\ pos' \in Nat /\ pos' = at[k] /\ pos' <= at[k] /\ at[k] <= pos' + 2
      <4>1. k \in 0..n /\ k # 0
        BY <1>0
      <4>2. pos' \in Nat /\ pos' = at[k]
        BY <1>1, <2>3, <2>4
      <4>3. pos' <= pos' /\ pos' <= pos' + 2
        BY <4>2
      <4> QED
        BY <4>1, <4>2, <4>3, Zenon
    <3> QED
      BY <3>1 DEF LineStart
  <2>10. /\ Len(line') = 0 /\ Len(pair') = 0 /\ pos' = pos' + Len(line') + Len(pair')
         /\ \A m \in 1..Len(line') : FALSE
         /\ \A m \in 1..Len(pair') : FALSE
    <3>1. Len(line') = 0 /\ Len(pair') = 0
      BY <2>6, <2>7, EmptyIs
    <3>2. pos' = pos' + 0 + 0 /\ \A m \in 1..0 : FALSE
      BY <1>0, <1>1
    <3> QED
      BY <3>1, <3>2
  <2>11. InLine(n, at, D)'
    <3>1. k \in 0..n /\ out' = D[k] /\ pos' \in Nat
      BY <1>0, <1>1, <2>2
    <3>2. pc' = "line" /\ bytesLeft' = 0 /\ Quiet' /\ Len(pair') <= 2 /\ NoCR(line)'
      BY <2>6, <2>7, <2>10 DEF Quiet, NoCR
    <3> QED
      BY <2>9, <2>10, <3>1, <3>2 DEF InLine
  <2> QED
    BY <1>0, <1>1, <2>8, <2>11, LayoutStays DEF Chunked, Where
<1> QED
  BY <1>1, <1>4, <1>5

(* A Read never loses its place in the message.                             *)
LEMMA ChunkedStepKeeps ==
  ASSUME NEW n, NEW cs, NEW ls, NEW at, NEW D, NEW whole, Chunked(n, cs, ls, at, D, whole),
         ChunkedStep, closed' = closed
  PROVE  Chunked(n, cs, ls, at, D, whole)'
<1>1. CASE CallRead
  BY <1>1, CallReadKeeps
<1>2. CASE Fetch
  BY <1>2, FetchKeeps
<1>3. CASE FetchFails
  BY <1>3, FetchFailsKeeps
<1>4. CASE ReadLine
  BY <1>4, ReadLineKeeps
<1>5. CASE ReadLineLF
  BY <1>5, ReadLineLFKeeps
<1>6. CASE ReadLineBuffered
  BY <1>6, ReadLineBufferedKeeps
<1>7. CASE ReadLineEnds
  BY <1>7, ReadLineEndsKeeps
<1>8. CASE ReadBody
  BY <1>8, ReadBodyKeeps
<1>9. CASE ReadBodyEmpty
  BY <1>9, ReadBodyEmptyKeeps
<1>10. CASE ConsumeCRLF
  BY <1>10, ConsumeCRLFKeeps
<1> QED
  BY <1>1, <1>2, <1>3, <1>4, <1>5, <1>6, <1>7, <1>8, <1>9, <1>10 DEF ChunkedStep

------------------------------------------------------------------------------
(* The body of a request, by how it is framed.                              *)

ChunkedForm == te = <<"chunked">> /\ lengths = <<>> /\ ~head /\ fault \in {"none", "cut"}
ChunkedInv ==
  /\ \E n, cs, ls, at, D, whole : Chunked(n, cs, ls, at, D, whole)
  /\ \/ reader = "nil" /\ result = "none"
     \/ reader = "chunked" /\ length = -1

LengthForm == te = <<>> /\ lengths = <<Len(body)>> /\ ~head /\ fault \in {"none", "cut"}
LengthInv ==
  /\ body \in Seq(Byte) /\ wire \in Seq(Byte) /\ out \in Seq(Byte) /\ pos \in Nat
  /\ failed \in BOOLEAN /\ pc = "idle"
  /\ fault = "none" => Len(wire) = Len(body) + Len(NextRequest)
  /\ \A m \in 1..Len(wire) : m <= Len(body) => wire[m] = body[m]
  /\ pos <= Len(wire) /\ Len(out) = pos /\ Starts(out, body)
  /\ \/ reader = "nil" /\ result = "none" /\ pos = 0
     \/ reader = "limit" /\ length = Len(body) /\ left = Len(body) - pos
  /\ fault = "none" /\ ~closed => ~failed
  /\ fault = "none" /\ result = "EOF" => pos = Len(body)

HeadForm == te = <<>> /\ head /\ fault = "none" /\ body = <<>> /\ wire = NextRequest
HeadInv ==
  /\ pos = 0 /\ out = <<>> /\ failed = FALSE /\ pc = "idle"
  /\ \/ reader = "nil" /\ result = "none"
     \/ reader = "eof" /\ length = 0

RawForm == te = <<>> /\ lengths = <<>> /\ ~head /\ body = <<>> /\ wire = NextRequest
RawInv ==
  \/ reader = "raw"
  \/ reader = "nil" /\ pos = 0 /\ out = <<>> /\ result = "none" /\ failed = FALSE /\ pc = "idle"

OddForm ==
  /\ fault = "header" /\ ~head /\ body = <<>>
  /\ \/ te = <<"chunked">> /\ lengths = <<1>>
     \/ te \in {<<"chunked", "gzip">>, <<"br">>, <<"gzip">>} /\ lengths = <<>>
     \/ te = <<>> /\ lengths \in {<<-1>>, <<1, 1>>}
OddInv == out = <<>> /\ reader \in {"nil", "broken"} /\ pc = "idle"

(* The inductive invariant.  Of a damaged message nothing is said.          *)
BodyIInv ==
  \/ fault = "damaged"
  \/ ChunkedForm /\ ChunkedInv
  \/ LengthForm /\ LengthInv
  \/ HeadForm /\ HeadInv
  \/ RawForm /\ RawInv
  \/ OddForm /\ OddInv

(* No action changes the request.                                           *)
LEMMA FormsStay ==
  ASSUME [Next]_vars
  PROVE  UNCHANGED <<msgVars, headers>>
<1>1. CASE Length
  BY <1>1 DEF Length, msgVars, headers
<1>2. CASE OpenBody
  BY <1>2 DEF OpenBody, msgVars, headers
<1>3. CASE ReadEOF
  BY <1>3 DEF ReadEOF, bodyVars, headers
<1>4. CASE ReadLimited
  BY <1>4 DEF ReadLimited
<1>5. CASE ReadChunked
  <2>1. UNCHANGED msgVars
    BY <1>5 DEF ReadChunked, ChunkedStep, CallRead, Fetch, FetchFails, ReadLine, ReadLineLF,
                ReadLineBuffered, ReadLineEnds, ReadBody, ReadBodyEmpty, ConsumeCRLF
  <2> QED
    BY <1>5, <2>1 DEF ReadChunked, bodyVars, headers
<1>6. CASE UseBroken
  BY <1>6 DEF UseBroken, Panic, chunkedVars, msgVars
<1>7. CASE ReadClosed
  BY <1>7 DEF ReadClosed, bodyVars, headers
<1>8. CASE Close
  BY <1>8 DEF Close, chunkedVars, msgVars
<1>9. CASE Crashed \/ UNCHANGED vars
  BY <1>9 DEF Crashed, vars, chunkedVars, bodyVars, msgVars, headers
<1> QED
  BY <1>1, <1>2, <1>3, <1>4, <1>5, <1>6, <1>7, <1>8, <1>9 DEF Next, Reading

(* What leaves a Read alone.                                                *)
LEMMA ChunkedStays ==
  ASSUME NEW n, NEW cs, NEW ls, NEW at, NEW D, NEW whole, Chunked(n, cs, ls, at, D, whole),
         UNCHANGED chunkedVars, closed' \in BOOLEAN, closed => closed'
  PROVE  Chunked(n, cs, ls, at, D, whole)'
<1>1. /\ wire' = wire /\ body' = body /\ fault' = fault /\ buffered' = buffered
      /\ stalls' = stalls /\ pos' = pos /\ bytesLeft' = bytesLeft /\ pair' = pair /\ line' = line
      /\ room' = room /\ pc' = pc /\ out' = out /\ result' = result /\ failed' = failed
      /\ UNCHANGED msgVars
  BY DEF chunkedVars, msgVars
<1>2. Layout(n, cs, ls, at, D, whole)'
  BY <1>1, LayoutStays DEF Chunked
<1>3. Outcome'
  BY <1>1 DEF Chunked, Outcome
<1>5. Where(n, cs, at, D, whole)
  BY DEF Chunked
<1>6. CASE AtIdle(n, at, D)
  BY <1>1, <1>2, <1>3, <1>6 DEF AtIdle, Quiet, LineStart, Where, Chunked
<1>7. CASE InLine(n, at, D)
  BY <1>1, <1>2, <1>3, <1>7, SMTT(40) DEF InLine, Quiet, LineStart, NoCR, Where, Chunked
<1>8. CASE InLF(n, at, D)
  BY <1>1, <1>2, <1>3, <1>8 DEF InLF, LineStart, NoCR, Where, Chunked
<1>9. CASE InBody(n, cs, at, D)
  BY <1>1, <1>2, <1>3, <1>9 DEF InBody, Quiet, Where, Chunked
<1>10. CASE InCRLF(n, at, D)
  BY <1>1, <1>2, <1>3, <1>10 DEF InCRLF, Where, Chunked
<1>11. CASE InLast(whole)
  BY <1>1, <1>2, <1>3, <1>11 DEF InLast, Where, Chunked
<1>12. CASE AtEnd(whole)
  BY <1>1, <1>2, <1>3, <1>12 DEF AtEnd, Quiet, Where, Chunked
<1> QED
  BY <1>5, <1>6, <1>7, <1>8, <1>9, <1>10, <1>11, <1>12 DEF Where

LEMMA ChunkedFormKeeps ==
  ASSUME ChunkedForm, ChunkedInv, [Next]_vars
  PROVE  (ChunkedForm /\ ChunkedInv)'
<1>0. ChunkedForm'
  BY FormsStay DEF ChunkedForm, msgVars, headers
<1>1. PICK n, cs, ls, at, D, whole : Chunked(n, cs, ls, at, D, whole)
  BY DEF ChunkedInv
<1>2. /\ closed \in BOOLEAN /\ failed \in BOOLEAN /\ stalls \in Nat
      /\ (pc # "idle" => result = "nil")
  BY <1>1 DEF Chunked, Outcome
<1>3. \/ reader = "nil" /\ result = "none"
      \/ reader = "chunked" /\ length = -1
  BY DEF ChunkedInv
<1>4. ~head /\ ~HeaderError
  <2>1. te = <<"chunked">> /\ lengths = <<>> /\ ~head
    BY DEF ChunkedForm
  <2>2. Len(te) = 1 /\ te[1] = "chunked"
    BY <2>1
  <2>3. ~ChunkedInFront
    <3>1. \A i \in 1..(Len(te) - 1) : FALSE
      BY <2>2
    <3> QED
      BY <3>1 DEF ChunkedInFront
  <2>4. ~Unsupported
    <3>1. \A i \in 1..Len(te) : i = 1
      BY <2>2
    <3> QED
      BY <2>2, <3>1 DEF Unsupported, Supported
  <2> QED
    BY <2>1, <2>3, <2>4 DEF HeaderError
<1>5. ASSUME NEW ok \in BOOLEAN, GetBody(ok)
      PROVE  ok = TRUE /\ reader' = "chunked" /\ length' = -1 /\ pos' = pos
  <2>1. te # <<"gzip">> /\ te # <<>>
    BY DEF ChunkedForm
  <2> QED
    BY <1>4, <1>5, <2>1 DEF GetBody
<1>6. CASE Length
  <2>1. PICK ok \in BOOLEAN : GetBody(ok)
    BY <1>6 DEF Length
  <2>2. reader' = "chunked" /\ length' = -1 /\ pos' = pos
    BY <1>5, <2>1
  <2>3. UNCHANGED chunkedVars /\ closed' = closed
    BY <1>6, <2>2 DEF Length, chunkedVars
  <2>4. Chunked(n, cs, ls, at, D, whole)'
    BY <1>1, <1>2, <2>3, ChunkedStays
  <2> QED
    BY <1>0, <2>2, <2>4 DEF ChunkedInv
<1>7. CASE OpenBody
  <2>1. CASE reader = "nil"
    <3>1. PICK ok \in BOOLEAN : /\ GetBody(ok)
                                /\ result' = IF ok THEN result ELSE "header"
                                /\ failed' = (failed \/ ~ok)
      BY <1>7, <2>1 DEF OpenBody
    <3>2. ok = TRUE /\ reader' = "chunked" /\ length' = -1 /\ pos' = pos
      BY <1>5, <3>1
    <3>3. result' = result /\ failed' = failed
      BY <1>2, <3>1, <3>2
    <3>4. UNCHANGED chunkedVars /\ closed' = closed
      BY <1>7, <3>2, <3>3 DEF OpenBody, chunkedVars
    <3>5. Chunked(n, cs, ls, at, D, whole)'
      BY <1>1, <1>2, <3>4, ChunkedStays
    <3> QED
      BY <1>0, <3>2, <3>5 DEF ChunkedInv
  <2>2. CASE reader # "nil"
    <3>1. UNCHANGED <<reader, length, pos, result, failed>>
      BY <1>7, <2>2 DEF OpenBody
    <3>2. UNCHANGED chunkedVars /\ closed' = closed
      BY <1>7, <3>1 DEF OpenBody, chunkedVars
    <3>3. Chunked(n, cs, ls, at, D, whole)'
      BY <1>1, <1>2, <3>2, ChunkedStays
    <3> QED
      BY <1>0, <1>3, <3>1, <3>3 DEF ChunkedInv
  <2> QED
    BY <2>1, <2>2
<1>8. CASE ReadChunked
  <2>1. ChunkedStep /\ UNCHANGED <<reader, length, closed>> /\ reader = "chunked"
    BY <1>8 DEF ReadChunked, bodyVars
  <2>2. Chunked(n, cs, ls, at, D, whole)'
    BY <1>1, <2>1, ChunkedStepKeeps
  <2> QED
    BY <1>0, <1>3, <2>1, <2>2 DEF ChunkedInv
<1>9. CASE ReadClosed
  <2>1. /\ pc # "idle" /\ Fail("closed") /\ UNCHANGED <<msgVars, stalls, pos, out>>
        /\ closed /\ UNCHANGED <<reader, length, closed>>
    BY <1>3, <1>9 DEF ReadClosed, Idle, bodyVars
  <2>2. "closed" \notin {"nil", "EOF"} /\ stalls' \in Nat /\ closed' \in BOOLEAN /\ closed'
    BY <1>2, <2>1
  <2>3. Chunked(n, cs, ls, at, D, whole)'
    BY <1>1, <2>1, <2>2, GivesUp
  <2>4. reader = "chunked"
    BY <1>2, <1>3, <2>1
  <2> QED
    BY <1>0, <1>3, <2>1, <2>3, <2>4 DEF ChunkedInv
<1>10. CASE Close
  <2>1. UNCHANGED chunkedVars /\ closed' = TRUE /\ UNCHANGED <<reader, length>> /\ result' = result
    BY <1>10 DEF Close, chunkedVars
  <2>2. Chunked(n, cs, ls, at, D, whole)'
    BY <1>1, <2>1, ChunkedStays
  <2> QED
    BY <1>0, <1>3, <2>1, <2>2 DEF ChunkedInv
<1>11. CASE Crashed \/ UNCHANGED vars
  <2>1. UNCHANGED chunkedVars /\ UNCHANGED <<closed, reader, length>> /\ result' = result
    BY <1>11 DEF Crashed, vars, chunkedVars, bodyVars
  <2>2. Chunked(n, cs, ls, at, D, whole)'
    BY <1>1, <1>2, <2>1, ChunkedStays
  <2> QED
    BY <1>0, <1>3, <2>1, <2>2 DEF ChunkedInv
<1>12. ~(ReadEOF \/ ReadLimited \/ UseBroken)
  BY <1>3 DEF ReadEOF, ReadLimited, UseBroken
<1> QED
  BY <1>6, <1>7, <1>8, <1>9, <1>10, <1>11, <1>12 DEF Next, Reading

LEMMA LengthFormKeeps ==
  ASSUME LengthForm, LengthInv, [Next]_vars
  PROVE  (LengthForm /\ LengthInv)'
<1>0. wire' = wire /\ body' = body /\ fault' = fault /\ LengthForm'
  BY FormsStay DEF LengthForm, msgVars, headers
<1>1. /\ te = <<>> /\ ~head /\ lengths = <<Len(body)>> /\ fault \in {"none", "cut"}
      /\ body \in Seq(Byte) /\ Len(body) \in Nat /\ wire \in Seq(Byte) /\ Len(wire) \in Nat
      /\ Len(NextRequest) \in Nat /\ pos \in Nat /\ failed \in BOOLEAN /\ pc = "idle"
      /\ pos <= Len(wire) /\ out \in Seq(Byte) /\ Len(out) = pos /\ Starts(out, body)
  BY ChunksTyped DEF LengthForm, LengthInv
<1>2. \/ reader = "nil" /\ result = "none" /\ pos = 0
      \/ reader = "limit" /\ length = Len(body) /\ left = Len(body) - pos
  BY DEF LengthInv
<1>3. Len(lengths) = 1 /\ lengths[1] = Len(body) /\ lengths # <<>>
  BY <1>1
<1>4. ~HeaderError
  <2>1. lengths # <<-1>>
    BY <1>1, <1>3
  <2> QED
    BY <1>1, <1>3, <2>1 DEF HeaderError
<1>5. ASSUME NEW ok \in BOOLEAN, GetBody(ok)
      PROVE  /\ ok = TRUE /\ reader' = "limit" /\ length' = Len(body) /\ left' = Len(body)
             /\ pos' = pos
  BY <1>1, <1>3, <1>4, <1>5 DEF GetBody
<1>6. CASE Length
  <2>1. PICK ok \in BOOLEAN : GetBody(ok)
    BY <1>6 DEF Length
  <2>2. /\ reader' = "limit" /\ length' = Len(body) /\ left' = Len(body) /\ pos' = pos
        /\ reader = "nil" /\ UNCHANGED <<pc, out, result, failed, closed>>
    BY <1>5, <1>6, <2>1 DEF Length
  <2>3. left' = Len(body) - pos'
    BY <1>1, <1>2, <2>2
  <2> QED
    BY <1>0, <2>2, <2>3 DEF LengthInv
<1>7. CASE OpenBody
  <2>1. CASE reader = "nil"
    <3>1. PICK ok \in BOOLEAN : /\ GetBody(ok)
                                /\ result' = IF ok THEN result ELSE "header"
                                /\ failed' = (failed \/ ~ok)
      BY <1>7, <2>1 DEF OpenBody
    <3>2. /\ ok = TRUE /\ reader' = "limit" /\ length' = Len(body) /\ left' = Len(body)
          /\ pos' = pos
      BY <1>5, <3>1
    <3>3. result' = result /\ failed' = failed /\ UNCHANGED <<pc, out, closed>>
      BY <1>1, <1>7, <3>1, <3>2 DEF OpenBody
    <3>4. left' = Len(body) - pos'
      BY <1>1, <1>2, <2>1, <3>2
    <3> QED
      BY <1>0, <3>2, <3>3, <3>4 DEF LengthInv
  <2>2. CASE reader # "nil"
    <3>1. UNCHANGED <<reader, length, left, pos, result, failed, pc, out, closed>>
      BY <1>7, <2>2 DEF OpenBody
    <3> QED
      BY <1>0, <3>1 DEF LengthInv
  <2> QED
    BY <2>1, <2>2
<1>8. CASE ReadLimited
  <2>1. reader = "limit" /\ ReadSome(left) /\ UNCHANGED <<reader, length, closed>>
    BY <1>2, <1>8 DEF ReadLimited
  <2>2. length = Len(body) /\ left = Len(body) - pos
    BY <1>2, <2>1
  <2>3. PICK l \in BufLens :
          \/ \E j \in 1..LeastOf(l, LeastOf(left, Ahead)) :
               /\ out' = out \o SubSeq(wire, pos + 1, pos + j) /\ pos' = pos + j
               /\ TakenFrom(j) /\ Return("nil")
          \/ (left = 0 \/ Ahead = 0) /\ Return("EOF") /\ UNCHANGED <<out, pos, left>>
    BY <2>1 DEF ReadSome
  <2>4. CASE \E j \in 1..LeastOf(l, LeastOf(left, Ahead)) :
               /\ out' = out \o SubSeq(wire, pos + 1, pos + j) /\ pos' = pos + j
               /\ TakenFrom(j) /\ Return("nil")
    <3>1. PICK j \in 1..LeastOf(l, LeastOf(left, Ahead)) :
            /\ out' = out \o SubSeq(wire, pos + 1, pos + j) /\ pos' = pos + j
            /\ TakenFrom(j) /\ Return("nil")
      BY <2>4
    <3>2. l \in Nat
      BY ChunkedAssumption DEF ChunkedAssumption
    <3>3. j \in Nat /\ pos + j <= Len(wire) /\ pos + j <= Len(body)
      BY <1>1, <2>2, <3>2 DEF LeastOf, Ahead
    <3> DEFINE w == SubSeq(wire, pos + 1, pos + j)
    <3>4. w \in Seq(Byte) /\ Len(w) = j /\ \A m \in 1..j : w[m] = wire[pos + m]
      BY <1>1, <3>3, TakenIs
    <3>5. out' = out \o w
      BY <3>1
    <3> HIDE DEF w
    <3>6. Joins(out', out, w)
      BY <1>1, <3>4, <3>5, Joining
    <3>7. out' \in Seq(Byte) /\ Len(out') = pos + j
      BY <1>1, <3>4, <3>6 DEF Joins
    <3>8. ASSUME NEW m \in 1..(pos + j) PROVE out'[m] = body[m]
      <4>1. CASE m \in 1..pos
        <5>1. out'[m] = out[m]
          BY <1>1, <3>6, <4>1 DEF Joins
        <5>2. out[m] = body[m]
          BY <1>1, <4>1 DEF Starts
        <5> QED
          BY <5>1, <5>2
      <4>2. CASE m > pos
        <5> DEFINE i == m - pos
        <5>1. i \in 1..j /\ pos + i = m /\ m \in 1..Len(wire) /\ m <= Len(body)
          BY <1>1, <3>3, <4>2
        <5> HIDE DEF i
        <5>2. out'[pos + i] = w[i]
          BY <1>1, <3>4, <3>6, <5>1 DEF Joins
        <5>3. w[i] = wire[pos + i]
          BY <3>4, <5>1
        <5>4. wire[m] = body[m]
          BY <5>1 DEF LengthInv
        <5> QED
          BY <5>1, <5>2, <5>3, <5>4
      <4> QED
        BY <1>1, <4>1, <4>2
    <3>9. Starts(out', body')
      BY <1>0, <3>3, <3>7, <3>8 DEF Starts
    <3>10. pos' \in Nat /\ pos' <= Len(wire) /\ left' = Len(body) - pos'
      BY <1>1, <2>2, <3>1, <3>3 DEF TakenFrom
    <3>11. /\ result' = "nil" /\ pc' = "idle" /\ failed' = failed
      BY <1>1, <3>1 DEF Return
    <3> QED
      BY <1>0, <2>1, <2>2, <3>1, <3>7, <3>9, <3>10, <3>11 DEF LengthInv
  <2>5. CASE (left = 0 \/ Ahead = 0) /\ Return("EOF") /\ UNCHANGED <<out, pos, left>>
    <3>1. pc' = "idle" /\ failed' = failed
      BY <1>1, <2>5 DEF Return
    <3>2. Len(out) <= Len(body)
      BY <1>1 DEF Starts
    <3>3. fault = "none" => pos = Len(body)
      <4> SUFFICES ASSUME fault = "none" PROVE pos = Len(body)
        OBVIOUS
      <4>1. Len(wire) = Len(body) + Len(NextRequest)
        BY DEF LengthInv
      <4>2. pos <= Len(body)
        BY <1>1, <3>2
      <4>3. CASE left = 0
        BY <1>1, <2>2, <4>3
      <4>4. CASE Ahead = 0
        BY <1>1, <4>1, <4>2, <4>4 DEF Ahead
      <4> QED
        BY <2>5, <4>3, <4>4
    <3> QED
      BY <1>0, <2>1, <2>2, <2>5, <3>1, <3>3 DEF LengthInv
  <2> QED
    BY <2>3, <2>4, <2>5
<1>9. CASE ReadClosed
  <2>1. /\ Return("closed") /\ closed /\ UNCHANGED <<pos, out, reader, length, left, closed>>
        /\ reader # "nil"
    BY <1>1, <1>9 DEF ReadClosed, bodyVars
  <2>2. pc' = "idle" /\ result' = "closed" /\ failed' = TRUE
    BY <2>1 DEF Return
  <2> QED
    BY <1>0, <2>1, <2>2 DEF LengthInv
<1>10. CASE Close
  <2>1. closed' = TRUE /\ UNCHANGED <<pc, pos, out, result, failed, reader, length, left>>
    BY <1>10 DEF Close, chunkedVars
  <2> QED
    BY <1>0, <2>1 DEF LengthInv
<1>11. CASE Crashed \/ UNCHANGED vars
  <2>1. UNCHANGED <<pc, pos, out, result, failed, reader, length, left, closed>>
    BY <1>11 DEF Crashed, vars, chunkedVars, bodyVars
  <2> QED
    BY <1>0, <2>1 DEF LengthInv
<1>12. ~(ReadEOF \/ ReadChunked \/ UseBroken)
  BY <1>2 DEF ReadEOF, ReadChunked, UseBroken
<1> QED
  BY <1>6, <1>7, <1>8, <1>9, <1>10, <1>11, <1>12 DEF Next, Reading

LEMMA HeadFormKeeps ==
  ASSUME HeadForm, HeadInv, [Next]_vars
  PROVE  (HeadForm /\ HeadInv)'
<1>0. HeadForm'
  BY FormsStay DEF HeadForm, msgVars, headers
<1>1. head /\ pos = 0 /\ out = <<>> /\ failed = FALSE /\ pc = "idle"
  BY DEF HeadForm, HeadInv
<1>2. \/ reader = "nil" /\ result = "none"
      \/ reader = "eof" /\ length = 0
  BY DEF HeadInv
<1>3. ASSUME NEW ok \in BOOLEAN, GetBody(ok)
      PROVE  ok = TRUE /\ reader' = "eof" /\ length' = 0 /\ pos' = pos
  BY <1>1, <1>3 DEF GetBody
<1>4. CASE Length
  <2>1. PICK ok \in BOOLEAN : GetBody(ok)
    BY <1>4 DEF Length
  <2>2. reader' = "eof" /\ length' = 0 /\ pos' = pos /\ UNCHANGED <<out, failed, pc>>
    BY <1>3, <1>4, <2>1 DEF Length
  <2> QED
    BY <1>0, <1>1, <2>2 DEF HeadInv
<1>5. CASE OpenBody
  <2>1. CASE reader = "nil"
    <3>1. PICK ok \in BOOLEAN : GetBody(ok) /\ failed' = (failed \/ ~ok)
      BY <1>5, <2>1 DEF OpenBody
    <3>2. ok = TRUE /\ reader' = "eof" /\ length' = 0 /\ pos' = pos
      BY <1>3, <3>1
    <3>3. failed' = FALSE /\ UNCHANGED <<out, pc>>
      BY <1>1, <1>5, <3>1, <3>2 DEF OpenBody
    <3> QED
      BY <1>0, <1>1, <3>2, <3>3 DEF HeadInv
  <2>2. CASE reader # "nil"
    <3>1. UNCHANGED <<reader, length, pos, result, failed, out, pc>>
      BY <1>5, <2>2 DEF OpenBody
    <3> QED
      BY <1>0, <3>1 DEF HeadInv
  <2> QED
    BY <2>1, <2>2
<1>6. CASE ReadEOF
  <2>1. Return("EOF") /\ UNCHANGED <<pos, out, reader, length>> /\ reader = "eof"
    BY <1>6 DEF ReadEOF, bodyVars
  <2>2. pc' = "idle" /\ failed' = FALSE
    BY <1>1, <2>1 DEF Return
  <2> QED
    BY <1>0, <1>1, <1>2, <2>1, <2>2 DEF HeadInv
<1>7. CASE Close \/ Crashed \/ UNCHANGED vars
  <2>1. UNCHANGED <<pc, pos, out, result, failed, reader, length>>
    BY <1>7 DEF Close, Crashed, vars, chunkedVars, bodyVars
  <2> QED
    BY <1>0, <2>1 DEF HeadInv
<1>8. ~(ReadLimited \/ ReadChunked \/ UseBroken \/ ReadClosed)
  BY <1>1, <1>2 DEF ReadLimited, ReadChunked, UseBroken, ReadClosed
<1> QED
  BY <1>4, <1>5, <1>6, <1>7, <1>8 DEF Next, Reading

LEMMA RawFormKeeps ==
  ASSUME RawForm, RawInv, [Next]_vars
  PROVE  (RawForm /\ RawInv)'
<1>0. RawForm'
  BY FormsStay DEF RawForm, msgVars, headers
<1>1. te = <<>> /\ lengths = <<>> /\ ~head
  BY DEF RawForm
<1>2. ~HeaderError
  <2>1. Len(lengths) = 0 /\ lengths # <<-1>>
    BY <1>1
  <2> QED
    BY <1>1, <2>1 DEF HeaderError
<1>3. ASSUME NEW ok \in BOOLEAN, GetBody(ok)
      PROVE  reader' = "raw"
  BY <1>1, <1>2, <1>3 DEF GetBody
<1>4. CASE reader = "raw"
  <2>1. reader' = reader
    <3>1. CASE OpenBody
      BY <1>4, <3>1 DEF OpenBody
    <3>2. CASE ReadEOF \/ ReadChunked \/ ReadClosed
      BY <3>2 DEF ReadEOF, ReadChunked, ReadClosed, bodyVars
    <3>3. CASE ReadLimited \/ UseBroken \/ Close
      BY <3>3 DEF ReadLimited, UseBroken, Panic, Close
    <3>4. CASE Crashed \/ UNCHANGED vars
      BY <3>4 DEF Crashed, vars, bodyVars
    <3>5. ~Length
      BY <1>4 DEF Length
    <3> QED
      BY <3>1, <3>2, <3>3, <3>4, <3>5 DEF Next, Reading
  <2> QED
    BY <1>0, <1>4, <2>1 DEF RawInv
<1>5. CASE /\ reader = "nil" /\ pos = 0 /\ out = <<>> /\ result = "none" /\ failed = FALSE
           /\ pc = "idle"
  <2>1. CASE Length
    BY <1>0, <1>3, <2>1 DEF Length, RawInv
  <2>2. CASE OpenBody
    BY <1>0, <1>3, <1>5, <2>2 DEF OpenBody, RawInv
  <2>3. CASE Close \/ Crashed \/ UNCHANGED vars
    <3>1. UNCHANGED <<pc, pos, out, result, failed, reader>>
      BY <2>3 DEF Close, Crashed, vars, chunkedVars, bodyVars
    <3> QED
      BY <1>0, <1>5, <3>1 DEF RawInv
  <2>4. ~(ReadEOF \/ ReadLimited \/ ReadChunked \/ UseBroken \/ ReadClosed)
    BY <1>5 DEF ReadEOF, ReadLimited, ReadChunked, UseBroken, ReadClosed
  <2> QED
    BY <2>1, <2>2, <2>3, <2>4 DEF Next, Reading
<1> QED
  BY <1>4, <1>5 DEF RawInv

LEMMA OddFormKeeps ==
  ASSUME OddForm, OddInv, [Next]_vars
  PROVE  (OddForm /\ OddInv)'
<1>0. OddForm'
  BY FormsStay DEF OddForm, msgVars, headers
<1>1. ~head /\ out = <<>> /\ pc = "idle" /\ reader \in {"nil", "broken"}
  BY DEF OddForm, OddInv
<1>2. te # <<"gzip">> => HeaderError
  <2>1. CASE te = <<"chunked">> /\ lengths = <<1>>
    <3>1. te # <<>> /\ lengths # <<>>
      BY <2>1
    <3> QED
      BY <3>1 DEF HeaderError
  <2>2. CASE te = <<"chunked", "gzip">> /\ lengths = <<>>
    <3>1. te # <<>> /\ Len(te) = 2 /\ te[1] = "chunked"
      BY <2>2
    <3>2. 1 \in 1..(Len(te) - 1)
      BY <3>1
    <3> QED
      BY <3>1, <3>2 DEF HeaderError, ChunkedInFront
  <2>3. CASE te = <<"br">> /\ lengths = <<>>
    <3>1. te # <<>> /\ Len(te) = 1 /\ te[1] = "br"
      BY <2>3
    <3>2. 1 \in 1..Len(te)
      BY <3>1
    <3> QED
      BY <3>1, <3>2 DEF HeaderError, Unsupported, Supported
  <2>4. CASE te = <<>> /\ lengths \in {<<-1>>, <<1, 1>>}
    <3>1. lengths = <<-1>> \/ Len(lengths) > 1
      BY <2>4
    <3> QED
      BY <2>4, <3>1 DEF HeaderError
  <2> QED
    BY <2>1, <2>2, <2>3, <2>4 DEF OddForm
<1>3. ASSUME NEW ok \in BOOLEAN, GetBody(ok)
      PROVE  reader' = reader \/ reader' = "broken"
  <2>1. CASE te = <<"gzip">>
    <3>1. te # <<"chunked">> /\ te # <<>>
      BY <2>1
    <3> QED
      BY <1>1, <1>3, <2>1, <3>1 DEF GetBody
  <2>2. CASE te # <<"gzip">>
    BY <1>1, <1>2, <1>3, <2>2 DEF GetBody
  <2> QED
    BY <2>1, <2>2
<1>4. CASE Length
  BY <1>0, <1>1, <1>3, <1>4 DEF Length, OddInv
<1>5. CASE OpenBody
  BY <1>0, <1>1, <1>3, <1>5 DEF OpenBody, OddInv
<1>6. CASE UseBroken \/ Close \/ Crashed \/ UNCHANGED vars
  <2>1. UNCHANGED <<pc, out, reader>>
    BY <1>6 DEF UseBroken, Panic, Close, Crashed, vars, chunkedVars, bodyVars
  <2> QED
    BY <1>0, <1>1, <2>1 DEF OddInv
<1>7. ~(ReadEOF \/ ReadLimited \/ ReadChunked \/ ReadClosed)
  BY <1>1 DEF ReadEOF, ReadLimited, ReadChunked, ReadClosed
<1> QED
  BY <1>4, <1>5, <1>6, <1>7 DEF Next, Reading

LEMMA BodyInvNext == BodyIInv /\ [Next]_vars => BodyIInv'
<1> SUFFICES ASSUME BodyIInv, [Next]_vars PROVE BodyIInv'
  OBVIOUS
<1>1. CASE fault = "damaged"
  BY <1>1, FormsStay DEF BodyIInv, msgVars
<1> QED
  BY <1>1, ChunkedFormKeeps, LengthFormKeeps, HeadFormKeeps, RawFormKeeps, OddFormKeeps
     DEF BodyIInv

------------------------------------------------------------------------------
(* The beginning.                                                           *)

LEMMA ChunkedInit ==
  ASSUME Init, ChunkedRequest, fault # "damaged"
  PROVE  ChunkedForm /\ ChunkedInv
<1>1. PICK n \in 0..MaxChunks : \E cs \in [1..n -> Chunks], ls \in [1..(n + 1) -> SizeLines] :
        /\ \A k \in 1..n : Says(ls[k], Len(cs[k]))
        /\ Says(ls[n + 1], 0)
        /\ body = Beginnings(cs, n)[n]
        /\ \/ wire = Encode(cs, ls, n) \o NextRequest /\ fault = "none"
           \/ /\ \E k \in 0..(Len(Encode(cs, ls, n)) - 1) : wire = SubSeq(Encode(cs, ls, n), 1, k)
              /\ fault = "cut"
  BY Zenon DEF ChunkedRequest, ChunkedSource
<1>2. PICK cs \in [1..n -> Chunks], ls \in [1..(n + 1) -> SizeLines] :
        /\ \A k \in 1..n : Says(ls[k], Len(cs[k]))
        /\ Says(ls[n + 1], 0)
        /\ body = Beginnings(cs, n)[n]
        /\ \/ wire = Encode(cs, ls, n) \o NextRequest /\ fault = "none"
           \/ /\ \E k \in 0..(Len(Encode(cs, ls, n)) - 1) : wire = SubSeq(Encode(cs, ls, n), 1, k)
              /\ fault = "cut"
  BY <1>1
<1> DEFINE whole == Encode(cs, ls, n)
<1>3. n \in Nat
  BY ChunkedAssumption DEF ChunkedAssumption
<1>4. PICK at, D : Layout(n, cs, ls, at, D, whole) /\ D[0] = <<>>
  <2> HIDE DEF whole
  <2>1. whole = Encode(cs, ls, n)
    BY DEF whole
  <2>2. \/ wire = whole \o NextRequest /\ fault = "none"
        \/ (\E k \in 0..(Len(whole) - 1) : wire = SubSeq(whole, 1, k)) /\ fault = "cut"
    BY <1>2, <2>1, Zenon
  <2> QED
    BY <1>2, <1>3, <2>1, <2>2, LaidOut
<1> HIDE DEF whole
<1>5. /\ stalls = 0 /\ pos = 0 /\ bytesLeft = 0 /\ pair = <<>> /\ line = <<>> /\ room = 0
      /\ pc = "idle" /\ out = <<>> /\ result = "none" /\ failed = FALSE /\ closed = FALSE
      /\ reader = "nil"
  BY DEF Init, ReaderInit
<1>6. 0 \in 0..n /\ at[0] = 0
  <2>1. 0 \in 0..n
    BY <1>3
  <2> QED
    BY <1>4, <2>1, LayoutLine
<1>7. AtIdle(n, at, D)
  <2>1. LineStart(n, at, 0, pos)
    BY <1>5, <1>6 DEF LineStart
  <2> QED
    BY <1>4, <1>5, <1>6, <2>1 DEF AtIdle, Quiet
<1>8. Outcome
  <2>1. Len(wire) \in Nat /\ <<>> \in Seq(Byte)
    BY <1>4, LayoutSizes
  <2>2. /\ pos \in Nat /\ pos <= Len(wire) /\ room \in Nat /\ stalls \in Nat
        /\ bytesLeft \in Int
    BY <1>5, <2>1
  <2>3. line \in Seq(Byte) /\ pair \in Seq(Byte) /\ out \in Seq(Byte)
    BY <1>5, <2>1, Zenon
  <2>4. failed = FALSE /\ closed = FALSE /\ pc = "idle" /\ result = "none"
    BY <1>5
  <2>5. result # "EOF"
    BY <2>4
  <2>6. ~failed /\ failed \in BOOLEAN /\ closed \in BOOLEAN
    BY <2>4
  <2> QED
    BY <2>2, <2>3, <2>4, <2>5, <2>6, Zenon DEF Outcome
<1>9. Chunked(n, cs, ls, at, D, whole)
  BY <1>4, <1>7, <1>8 DEF Chunked, Where
<1>10. fault \in {"none", "cut"}
  BY <1>4, LayoutSizes
<1> QED
  BY <1>5, <1>9, <1>10 DEF ChunkedForm, ChunkedInv, ChunkedRequest

LEMMA LengthInit ==
  ASSUME Init, LengthRequest
  PROVE  LengthForm /\ LengthInv
<1>1. /\ pos = 0 /\ pc = "idle" /\ out = <<>> /\ result = "none" /\ failed = FALSE
      /\ reader = "nil"
  BY DEF Init, ReaderInit
<1>2. body \in Seq(Byte) /\ Len(body) \in Nat
  <2>1. body \in Chunks \/ body = <<>>
    BY DEF LengthRequest
  <2> QED
    BY <2>1, ChunksTyped, EmptyIs
<1>3. LengthForm
  BY DEF LengthRequest, LengthForm
<1>4. /\ wire \in Seq(Byte) /\ Len(wire) \in Nat
      /\ \A m \in 1..Len(wire) : m <= Len(body) => wire[m] = body[m]
      /\ fault = "none" => Len(wire) = Len(body) + Len(NextRequest)
  <2>1. CASE wire = body \o NextRequest /\ fault = "none"
    <3>1. Joins(wire, body, NextRequest)
      BY <1>2, <2>1, Joining, ChunksTyped
    <3> QED
      BY <3>1 DEF Joins
  <2>2. CASE \E k \in 0..(Len(body) - 1) : wire = SubSeq(body, 1, k) /\ fault = "cut"
    <3>1. PICK k \in 0..(Len(body) - 1) : wire = SubSeq(body, 1, k) /\ fault = "cut"
      BY <2>2
    <3>2. k \in Int /\ 0 <= k /\ k <= Len(body)
      BY <1>2
    <3>3. wire \in Seq(Byte) /\ Len(wire) = k /\ \A m \in 1..k : wire[m] = body[m]
      BY <1>2, <3>1, <3>2, PartIs
    <3> QED
      BY <3>1, <3>2, <3>3
  <2> QED
    BY <2>1, <2>2 DEF LengthRequest
<1>5. out \in Seq(Byte) /\ Len(out) = pos /\ Starts(out, body)
  <2>1. out \in Seq(Byte) /\ Len(out) = 0
    BY <1>1, EmptyIs
  <2> QED
    BY <1>1, <1>2, <2>1 DEF Starts
<1>6. pos \in Nat /\ pos <= Len(wire)
  BY <1>1, <1>4
<1> QED
  BY <1>1, <1>2, <1>3, <1>4, <1>5, <1>6 DEF LengthInv

LEMMA BodyInvInit == Init => BodyIInv
<1> SUFFICES ASSUME Init PROVE BodyIInv
  OBVIOUS
<1>1. /\ pos = 0 /\ pc = "idle" /\ out = <<>> /\ result = "none" /\ failed = FALSE
      /\ reader = "nil"
  BY DEF Init, ReaderInit
<1>2. CASE ChunkedRequest
  BY <1>2, ChunkedInit DEF BodyIInv
<1>3. CASE LengthRequest
  BY <1>3, LengthInit DEF BodyIInv
<1>4. CASE NoBodyRequest
  <2>1. head \in BOOLEAN
    BY DEF Init
  <2>2. CASE head
    BY <1>1, <1>4, <2>2 DEF NoBodyRequest, HeadForm, HeadInv, BodyIInv
  <2>3. CASE ~head
    BY <1>1, <1>4, <2>3 DEF NoBodyRequest, RawForm, RawInv, BodyIInv
  <2> QED
    BY <2>1, <2>2, <2>3
<1>5. CASE OddRequest
  <2>1. OddForm
    BY <1>5 DEF OddRequest, OddForm
  <2> QED
    BY <1>1, <2>1 DEF OddInv, BodyIInv
<1> QED
  BY <1>2, <1>3, <1>4, <1>5 DEF Init

LEMMA BodyInvHolds == Spec => []BodyIInv
<1>1. BodyIInv /\ UNCHANGED vars => BodyIInv'
  BY BodyInvNext
<1> QED
  BY BodyInvInit, BodyInvNext, PTL DEF Spec

------------------------------------------------------------------------------
(* What it means for the handler.                                           *)

LEMMA StartsAll ==
  ASSUME NEW u \in Seq(Byte), NEW v \in Seq(Byte), Starts(u, v), Len(u) = Len(v)
  PROVE  u = v
  BY SeqEqual DEF Starts

LEMMA EmptyPrefix == IsPrefix(<<>>, <<>>)
<1>1. <<>> \in Seq(Byte) /\ Len(<<>>) = 0
  BY EmptyIs
<1>2. ASSUME NEW u \in Seq(Byte), Len(u) = 0 PROVE IsPrefix(u, u)
  <2>1. Starts(u, u)
    BY <1>2 DEF Starts
  <2> QED
    BY <1>2, <2>1, StartsIsPrefix
<1> QED
  BY <1>1, <1>2, Zenon

(* However a request's body is framed, cut into reads or cut off, Read      *)
(* delivers a beginning of its data, for every body, size line and buffer.  *)
THEOREM DeliveredIsPrefix == Spec => []DeliversPrefix
<1>1. BodyIInv => DeliversPrefix
  <2> SUFFICES ASSUME BodyIInv, fault # "damaged", reader # "raw" PROVE IsPrefix(out, body)
    BY DEF DeliversPrefix
  <2>1. CASE ChunkedInv
    <3>1. PICK n, cs, ls, at, D, whole : Chunked(n, cs, ls, at, D, whole)
      BY <2>1 DEF ChunkedInv
    <3>2. out \in Seq(Byte) /\ body \in Seq(Byte)
      BY <3>1, OutcomeTypes
    <3> QED
      BY <3>1, <3>2, OutStarts, StartsIsPrefix
  <2>2. CASE LengthInv
    BY <2>2, StartsIsPrefix DEF LengthInv
  <2>3. CASE (HeadForm /\ HeadInv) \/ (RawForm /\ RawInv) \/ (OddForm /\ OddInv)
    <3>1. out = <<>> /\ body = <<>>
      BY <2>3 DEF HeadForm, HeadInv, RawForm, RawInv, OddForm, OddInv
    <3> QED
      BY <3>1, EmptyPrefix
  <2> QED
    BY <2>1, <2>2, <2>3 DEF BodyIInv
<1> QED
  BY <1>1, BodyInvHolds, PTL

(* A chunked message that arrives whole and was read to its end.            *)
LEMMA ChunkedAtEnd ==
  ASSUME NEW n, NEW cs, NEW ls, NEW at, NEW D, NEW whole, Chunked(n, cs, ls, at, D, whole),
         fault = "none", result = "EOF", ~failed
  PROVE  out = body /\ pos = Len(whole)
<1>1. pc = "idle" /\ bytesLeft = -1
  BY DEF Chunked, Outcome
<1>2. AtEnd(whole)
  <2>1. ~(bytesLeft > 0) /\ bytesLeft # 0
    BY <1>1
  <2> QED
    BY <1>1, <2>1 DEF Chunked, Where, AtIdle, InLine, InLF, InBody, InCRLF, InLast
<1> QED
  BY <1>2 DEF AtEnd

(* A body that arrives whole is decoded: no Read of it fails unless the     *)
(* source stalls or is closed, and EOF comes with the last byte of the data *)
(* and not before.                                                          *)
THEOREM WholeBodiesDecode == Spec => []IntactDecodes
<1>1. BodyIInv => IntactDecodes
  <2> SUFFICES ASSUME BodyIInv, fault = "none", reader # "raw"
               PROVE  /\ stalls = 0 /\ ~closed => ~failed
                      /\ result = "EOF" /\ ~failed => out = body /\ length \in {-1, Len(out)}
    BY DEF IntactDecodes
  <2>1. CASE ChunkedInv
    <3>1. PICK n, cs, ls, at, D, whole : Chunked(n, cs, ls, at, D, whole)
      BY <2>1 DEF ChunkedInv
    <3>2. stalls = 0 /\ ~closed => ~failed
      BY <3>1 DEF Chunked, Outcome
    <3>3. ASSUME result = "EOF", ~failed PROVE out = body /\ length = -1
      BY <2>1, <3>1, <3>3, ChunkedAtEnd DEF ChunkedInv
    <3> QED
      BY <3>2, <3>3
  <2>2. CASE LengthInv
    <3>1. ~closed => ~failed
      BY <2>2 DEF LengthInv
    <3>2. ASSUME result = "EOF" PROVE out = body /\ length = Len(out)
      <4>1. /\ pos = Len(body) /\ Len(out) = pos /\ Starts(out, body) /\ length = Len(body)
            /\ out \in Seq(Byte) /\ body \in Seq(Byte)
        BY <2>2, <3>2 DEF LengthInv
      <4> QED
        BY <4>1, StartsAll
    <3> QED
      BY <3>1, <3>2
  <2>3. CASE (HeadForm /\ HeadInv) \/ (RawForm /\ RawInv)
    <3>1. out = <<>> /\ body = <<>> /\ ~failed
      BY <2>3 DEF HeadForm, HeadInv, RawForm, RawInv
    <3>2. result = "EOF" => length = 0
      BY <2>3 DEF HeadInv, RawInv
    <3>3. Len(out) = 0
      BY <3>1, EmptyIs
    <3> QED
      BY <3>1, <3>2, <3>3
  <2>4. ~OddForm
    BY DEF OddForm
  <2> QED
    BY <2>1, <2>2, <2>3, <2>4 DEF BodyIInv
<1> QED
  BY <1>1, BodyInvHolds, PTL

(* The reader of a body never takes a byte of the next request, and at EOF  *)
(* has left none of its own.                                                *)
THEOREM ReadersStopAtBoundary == Spec => []StopsAtBoundary
<1>1. BodyIInv => StopsAtBoundary
  <2> SUFFICES ASSUME BodyIInv, fault = "none", reader # "raw"
               PROVE  pos <= Boundary /\ (result = "EOF" /\ ~failed => pos = Boundary)
    BY DEF StopsAtBoundary
  <2>0. Len(NextRequest) \in Nat
    BY ChunksTyped
  <2>1. CASE ChunkedInv
    <3>1. PICK n, cs, ls, at, D, whole : Chunked(n, cs, ls, at, D, whole)
      BY <2>1 DEF ChunkedInv
    <3>2. Len(wire) = Len(whole) + Len(NextRequest) /\ Len(whole) \in Nat
      <4>1. Layout(n, cs, ls, at, D, whole)
        BY <3>1 DEF Chunked
      <4> QED
        BY <4>1, LayoutSizes DEF Layout
    <3>3. Boundary = Len(whole)
      BY <2>0, <3>2 DEF Boundary
    <3>4. pos <= Len(whole)
      BY <3>1, OutStarts
    <3> QED
      BY <3>1, <3>3, <3>4, ChunkedAtEnd
  <2>2. CASE LengthInv
    <3>1. /\ Len(wire) = Len(body) + Len(NextRequest) /\ body \in Seq(Byte) /\ Len(out) = pos
          /\ Starts(out, body) /\ (result = "EOF" => pos = Len(body))
      BY <2>2 DEF LengthInv
    <3>2. Boundary = Len(body)
      BY <2>0, <3>1 DEF Boundary
    <3>3. pos <= Len(body)
      BY <3>1 DEF Starts
    <3> QED
      BY <3>1, <3>2, <3>3
  <2>3. CASE (HeadForm /\ HeadInv) \/ (RawForm /\ RawInv)
    <3>1. wire = NextRequest /\ pos = 0
      BY <2>3 DEF HeadForm, HeadInv, RawForm, RawInv
    <3>2. Boundary = 0
      BY <2>0, <3>1 DEF Boundary
    <3> QED
      BY <3>1, <3>2
  <2>4. ~OddForm
    BY DEF OddForm
  <2> QED
    BY <2>1, <2>2, <2>3, <2>4 DEF BodyIInv
<1> QED
  BY <1>1, BodyInvHolds, PTL

==============================================================================
