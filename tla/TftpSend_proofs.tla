--------------------------- MODULE TftpSend_proofs ---------------------------
(***************************************************************************)
(* Proofs about TftpSend, for a file, a window, a wire and a network of    *)
(* any size, as long as the wire has more numbers than the largest window  *)
(* has blocks.                                                             *)
(*                                                                         *)
(* A number on the wire stands for every block that many numbers apart.    *)
(* What the receiver of it expects and what the sender meant are less than *)
(* that apart (BlocksKeepClose, AcksInOrder), so they are the same         *)
(* (WireTells).                                                            *)
(***************************************************************************)
EXTENDS TftpSend, SequenceTheorems, TLAPS

(* What is left of the sequence s when some of it is lost.                  *)
Thinned(t, s) ==
  \E f \in [1..Len(t) -> 1..Len(s)] :
    /\ \A i \in 1..Len(t) : t[i] = s[f[i]]
    /\ \A i, j \in 1..Len(t) : i < j => f[i] < f[j]

-----------------------------------------------------------------------------
(* Division with remainder.                                                 *)
LEMMA DivMod ==
  ASSUME NEW N \in Nat \ {0}, NEW a \in Nat
  PROVE  \E q \in Nat : a = N * q + (a % N) /\ (a % N) \in 0..(N - 1)
<1>1. a = N * (a \div N) + (a % N) /\ (a % N) \in 0..(N - 1) /\ a \div N \in Nat
  OBVIOUS
<1>. QED
  BY <1>1

(* A multiple of N that is smaller than N is zero.                          *)
LEMMA SmallMultiple ==
  ASSUME NEW N \in Nat \ {0}, NEW q \in Int, N * q < N, -N < N * q
  PROVE  q = 0
<1>1. q >= 1 => N * q >= N
  OBVIOUS
<1>2. q <= -1 => N * q <= -N
  OBVIOUS
<1>. QED
  BY <1>1, <1>2

(* Two blocks less than WireNumbers apart have different numbers.           *)
LEMMA WireTells ==
  ASSUME NEW a \in Nat, NEW b \in Nat, Wire(a) = Wire(b), a - b < WireNumbers, b - a < WireNumbers
  PROVE  a = b
<1>1. WireNumbers \in Nat \ {0}
  BY SendAssumption
<1>2. PICK q \in Nat : a = WireNumbers * q + (a % WireNumbers)
  BY <1>1, DivMod
<1>3. PICK r \in Nat : b = WireNumbers * r + (b % WireNumbers)
  BY <1>1, DivMod
<1>4. a % WireNumbers \in Int /\ a % WireNumbers = b % WireNumbers
  BY <1>1, DivMod DEF Wire
<1>5. WireNumbers * (q - r) = WireNumbers * q - WireNumbers * r
  BY <1>1
<1>6. WireNumbers * (q - r) = a - b
  BY <1>1, <1>2, <1>3, <1>4, <1>5
<1>7. q - r = 0
  BY <1>1, <1>6, SmallMultiple
<1>. QED
  BY <1>1, <1>6, <1>7

(* A number on the wire is one of those it has.                             *)
LEMMA WireType ==
  ASSUME NEW n \in Nat
  PROVE  Wire(n) \in 0..(WireNumbers - 1)
BY SendAssumption, DivMod DEF Wire

(* The two kinds of datagrams.                                              *)
LEMMA DatagramFields ==
  ASSUME NEW m \in Datagrams, totalBlocks \in Nat
  PROVE  IsData(m) => m.content \in 1..totalBlocks /\ m.wire = Wire(m.content)
BY DEF Datagrams, OACK, DATA, IsData

-----------------------------------------------------------------------------
(* Whatever the network does to what is on its way thins it: it may leave   *)
(* it as it is, deliver the first of it, or lose any of it.                 *)
LEMMA ThinnedSame ==
  ASSUME NEW S, NEW s \in Seq(S)
  PROVE  Thinned(s, s)
<1>. DEFINE f == [i \in 1..Len(s) |-> i]
<1>1. f \in [1..Len(s) -> 1..Len(s)]
  OBVIOUS
<1>. QED
  BY <1>1 DEF Thinned

LEMMA ThinnedTail ==
  ASSUME NEW S, NEW s \in Seq(S), s # <<>>
  PROVE  /\ Tail(s) \in Seq(S) /\ Len(Tail(s)) = Len(s) - 1 /\ Thinned(Tail(s), s)
         /\ \A i \in 1..Len(Tail(s)) : Tail(s)[i] = s[i + 1]
<1>1. /\ Tail(s) \in Seq(S) /\ Len(Tail(s)) = Len(s) - 1 /\ Len(s) \in Nat \ {0}
      /\ \A i \in 1..Len(Tail(s)) : Tail(s)[i] = s[i + 1]
  BY HeadTailProperties, EmptySeq
<1>. DEFINE f == [i \in 1..Len(Tail(s)) |-> i + 1]
<1>2. f \in [1..Len(Tail(s)) -> 1..Len(s)] /\ \A i \in 1..Len(Tail(s)) : f[i] = i + 1
  BY <1>1
<1>. HIDE DEF f
<1>3. \A i, j \in 1..Len(Tail(s)) : i < j => f[i] < f[j]
  BY <1>2
<1>4. \A i \in 1..Len(Tail(s)) : Tail(s)[i] = s[f[i]]
  BY <1>1, <1>2
<1>. QED
  BY <1>1, <1>2, <1>3, <1>4 DEF Thinned

LEMMA ThinnedRemoveAt ==
  ASSUME NEW S, NEW s \in Seq(S), NEW n \in 1..Len(s)
  PROVE  RemoveAt(s, n) \in Seq(S) /\ Len(RemoveAt(s, n)) = Len(s) - 1 /\ Thinned(RemoveAt(s, n), s)
<1>. DEFINE h == SubSeq(s, 1, n - 1)
            t == SubSeq(s, n + 1, Len(s))
            r == RemoveAt(s, n)
            f == [i \in 1..Len(r) |-> IF i < n THEN i ELSE i + 1]
<1>1. Len(s) \in Nat /\ \A i \in 1..Len(s) : s[i] \in S
  OBVIOUS
<1>2. h \in Seq(S) /\ Len(h) = n - 1 /\ \A i \in 1..(n - 1) : h[i] = s[i]
  BY <1>1, SubSeqProperties
<1>3. t \in Seq(S) /\ Len(t) = Len(s) - n /\ \A i \in 1..(Len(s) - n) : t[i] = s[n + i]
  BY <1>1, SubSeqProperties
<1>4. r = h \o t
  BY DEF RemoveAt
<1>. HIDE DEF h, t, r
<1>5. /\ r \in Seq(S) /\ Len(r) = Len(s) - 1
      /\ \A i \in 1..Len(r) : r[i] = IF i < n THEN h[i] ELSE t[i - (n - 1)]
  BY <1>1, <1>2, <1>3, <1>4, ConcatProperties
<1>6. f \in [1..Len(r) -> 1..Len(s)] /\ \A i \in 1..Len(r) : f[i] = IF i < n THEN i ELSE i + 1
  BY <1>1, <1>5
<1>. HIDE DEF f
<1>7. ASSUME NEW i \in 1..Len(r), NEW j \in 1..Len(r), i < j
      PROVE  f[i] < f[j]
  <2>1. i \in Int /\ j \in Int /\ n \in Int
    BY <1>1, <1>5
  <2>2. f[i] = (IF i < n THEN i ELSE i + 1) /\ f[j] = (IF j < n THEN j ELSE j + 1)
    BY <1>6
  <2>. QED
    BY <1>7, <2>1, <2>2
<1>8. ASSUME NEW i \in 1..Len(r)
      PROVE  r[i] = s[f[i]]
  <2>1. CASE i < n
    <3>1. i \in 1..(n - 1) /\ f[i] = i /\ r[i] = h[i]
      BY <1>1, <1>5, <1>6, <2>1
    <3>. QED
      BY <1>2, <3>1
  <2>2. CASE ~(i < n)
    <3>1. i - (n - 1) \in 1..(Len(s) - n) /\ f[i] = i + 1 /\ r[i] = t[i - (n - 1)]
      BY <1>1, <1>5, <1>6, <2>2
    <3>2. n + (i - (n - 1)) = i + 1
      BY <1>1, <1>5
    <3>. QED
      BY <1>3, <3>1, <3>2
  <2>. QED
    BY <2>1, <2>2
<1>9. Thinned(r, s)
  BY <1>6, <1>7, <1>8 DEF Thinned
<1>. QED
  BY <1>5, <1>9 DEF r
-----------------------------------------------------------------------------
(* A window is shorter than the wire has numbers.                           *)
LEMMA WindowFits ==
  ASSUME windowsize \in 1..MAX_WINDOW_SIZE
  PROVE  windowsize \in Nat \ {0} /\ windowsize < WireNumbers /\ WireNumbers \in Nat
BY SendAssumption

(* Acknowledgements in order stay so when some are lost,                    *)
LEMMA OrderedThinned ==
  ASSUME NEW s, NEW t, NEW b \in Nat, NEW l \in Nat, Len(t) \in Nat, Len(s) \in Nat,
         Ordered(s, b, l), Thinned(t, s)
  PROVE  Ordered(t, b, l)
<1>1. PICK f \in [1..Len(t) -> 1..Len(s)] :
        /\ \A i \in 1..Len(t) : t[i] = s[f[i]]
        /\ \A i, j \in 1..Len(t) : i < j => f[i] < f[j]
  BY DEF Thinned
<1>2. \A i \in 1..Len(t) : f[i] \in 1..Len(s)
  BY <1>1
<1>3. \A i \in 1..Len(t) : \E k \in b..l : t[i] = Wire(k)
  BY <1>1, <1>2 DEF Ordered
<1>4. ASSUME NEW i \in 1..Len(t), NEW j \in 1..Len(t), NEW k \in b..l, NEW m \in b..l,
             i < j, t[i] = Wire(k), t[j] = Wire(m)
      PROVE  k <= m
  <2>1. f[i] < f[j] /\ s[f[i]] = Wire(k) /\ s[f[j]] = Wire(m)
    BY <1>1, <1>4
  <2>. QED
    BY <1>2, <2>1 DEF Ordered
<1>. QED
  BY <1>3, <1>4 DEF Ordered

(* when the server goes on to the block that the first of them stands for,  *)
LEMMA OrderedBase ==
  ASSUME windowsize \in 1..MAX_WINDOW_SIZE,
         NEW s, NEW b \in Nat, NEW l \in Nat, NEW k \in b..l, Len(s) \in Nat \ {0},
         Ordered(s, b, l), s[1] = Wire(k), l <= b + windowsize
  PROVE  Ordered(s, k, l)
<1>1. ASSUME NEW i \in 1..Len(s)
      PROVE  \E m \in k..l : s[i] = Wire(m)
  <2>1. PICK m \in b..l : s[i] = Wire(m)
    BY DEF Ordered
  <2>2. CASE i = 1
    BY <2>2
  <2>3. CASE i # 1
    <3>1. 1 \in 1..Len(s) /\ 1 < i
      BY <2>3
    <3>2. k <= m
      BY <2>1, <3>1 DEF Ordered
    <3>. QED
      BY <2>1, <3>2
  <2>. QED
    BY <2>2, <2>3
<1>2. \A m \in k..l : m \in b..l
  OBVIOUS
<1>. QED
  BY <1>1, <1>2 DEF Ordered

(* when the client receives one more block,                                 *)
LEMMA OrderedFile ==
  ASSUME windowsize \in 1..MAX_WINDOW_SIZE,
         NEW s, NEW b \in Nat, NEW l \in Nat, Len(s) \in Nat,
         Ordered(s, b, l), l + 1 <= b + windowsize
  PROVE  Ordered(s, b, l + 1)
<1>1. windowsize \in Nat /\ windowsize < WireNumbers /\ WireNumbers \in Nat
  BY WindowFits
<1>2. ASSUME NEW i \in 1..Len(s), NEW k \in b..(l + 1), s[i] = Wire(k)
      PROVE  k \in b..l
  <2>1. PICK m \in b..l : s[i] = Wire(m)
    BY DEF Ordered
  <2>2. k \in Nat /\ m \in Nat /\ Wire(k) = Wire(m) /\ k - m < WireNumbers /\ m - k < WireNumbers
    BY <1>1, <1>2, <2>1
  <2>. QED
    BY <2>1, <2>2, WireTells
<1>3. \A i \in 1..Len(s) : \E k \in b..(l + 1) : s[i] = Wire(k)
  <2>1. \A k \in b..l : k \in b..(l + 1)
    OBVIOUS
  <2>. QED
    BY <2>1 DEF Ordered
<1>4. ASSUME NEW i \in 1..Len(s), NEW j \in 1..Len(s), NEW k \in b..(l + 1), NEW m \in b..(l + 1),
             i < j, s[i] = Wire(k), s[j] = Wire(m)
      PROVE  k <= m
  BY <1>2, <1>4 DEF Ordered
<1>. QED
  BY <1>3, <1>4 DEF Ordered

(* and when it acknowledges what it has.                                    *)
LEMMA OrderedSent ==
  ASSUME windowsize \in 1..MAX_WINDOW_SIZE,
         NEW s \in Seq(0..(WireNumbers - 1)), NEW b \in Nat, NEW l \in Nat,
         b <= l, l <= b + windowsize, Ordered(s, b, l)
  PROVE  Ordered(Append(s, Wire(l)), b, l)
<1>. DEFINE t == Append(s, Wire(l))
<1>1. windowsize \in Nat /\ windowsize < WireNumbers /\ WireNumbers \in Nat
  BY WindowFits
<1>2. /\ Len(t) = Len(s) + 1 /\ Len(s) \in Nat
      /\ \A i \in 1..Len(s) : t[i] = s[i]
      /\ t[Len(s) + 1] = Wire(l)
  <2>1. Wire(l) \in 0..(WireNumbers - 1)
    BY WireType
  <2>. QED
    BY <2>1, AppendProperties
<1>. HIDE DEF t
<1>3. \A k \in b..l : Wire(k) = Wire(l) => k = l
  <2>. SUFFICES ASSUME NEW k \in b..l, Wire(k) = Wire(l) PROVE k = l
    OBVIOUS
  <2>1. k \in Nat /\ k - l < WireNumbers /\ l - k < WireNumbers
    BY <1>1
  <2>. QED
    BY <2>1, WireTells
<1>4. \A i \in 1..Len(t) : \E k \in b..l : t[i] = Wire(k)
  <2>. SUFFICES ASSUME NEW i \in 1..Len(t) PROVE \E k \in b..l : t[i] = Wire(k)
    OBVIOUS
  <2>1. CASE i \in 1..Len(s)
    BY <1>2, <2>1 DEF Ordered
  <2>2. CASE i = Len(s) + 1
    <3>1. l \in b..l
      OBVIOUS
    <3>. QED
      BY <1>2, <2>2, <3>1
  <2>. QED
    BY <1>2, <2>1, <2>2
<1>5. ASSUME NEW i \in 1..Len(t), NEW j \in 1..Len(t), NEW k \in b..l, NEW m \in b..l,
             i < j, t[i] = Wire(k), t[j] = Wire(m)
      PROVE  k <= m
  <2>1. CASE j = Len(s) + 1
    BY <1>2, <1>3, <1>5, <2>1
  <2>2. CASE j # Len(s) + 1
    <3>1. i \in 1..Len(s) /\ j \in 1..Len(s)
      BY <1>2, <1>5, <2>2
    <3>. QED
      BY <1>2, <1>5, <3>1 DEF Ordered
  <2>. QED
    BY <2>1, <2>2
<1>6. Ordered(t, b, l)
  BY <1>4, <1>5 DEF Ordered
<1>. QED
  BY <1>6 DEF t

-----------------------------------------------------------------------------
(* Blocks that keep close stay so when some are lost,                       *)
LEMMA CloseThinned ==
  ASSUME NEW s, NEW t, NEW b \in Nat, NEW r \in Nat, NEW l \in Nat, Len(t) \in Nat, Len(s) \in Nat,
         Close(s, b, r, l), Thinned(t, s)
  PROVE  Close(t, b, r, l)
<1>1. PICK f \in [1..Len(t) -> 1..Len(s)] :
        /\ \A i \in 1..Len(t) : t[i] = s[f[i]]
        /\ \A i, j \in 1..Len(t) : i < j => f[i] < f[j]
  BY DEF Thinned
<1>2. \A i \in 1..Len(t) : f[i] \in 1..Len(s)
  BY <1>1
<1>. QED
  BY <1>1, <1>2 DEF Close

(* when the server goes on, to a later base or to reading another block,    *)
LEMMA CloseOn ==
  ASSUME windowsize \in 1..MAX_WINDOW_SIZE, totalBlocks \in Nat,
         NEW s \in Seq(Datagrams), NEW b \in Nat, NEW r \in Nat, NEW l \in Nat,
         NEW c \in Nat, NEW q \in Nat, b <= c, q = 0 \/ q = r \/ q > c,
         Close(s, b, r, l)
  PROVE  Close(s, c, q, l)
<1>1. windowsize \in Nat
  BY WindowFits
<1>2. \A i \in 1..Len(s) : IsData(s[i]) => s[i].content \in Nat
  BY DatagramFields
<1>3. l <= c + windowsize /\ (q # 0 => l < q + windowsize)
  BY <1>1 DEF Close
<1>4. \A i \in 1..Len(s) : IsData(s[i]) =>
        s[i].content <= c + windowsize /\ (q # 0 => s[i].content < q + windowsize)
  BY <1>1, <1>2 DEF Close
<1>. QED
  BY <1>3, <1>4 DEF Close

LEMMA CloseRead ==
  ASSUME windowsize \in 1..MAX_WINDOW_SIZE, totalBlocks \in Nat \ {0},
         NEW s \in Seq(Datagrams), NEW b \in Nat, NEW r \in Nat, NEW l \in Nat,
         NEW q \in 0..totalBlocks, q = 0 \/ q = r \/ q > b,
         Close(s, b, r, l)
  PROVE  Close(s, b, q, l)
<1>1. totalBlocks \in Nat /\ b <= b /\ q \in Nat
  OBVIOUS
<1>. QED
  BY <1>1, CloseOn

(* when a block is sent that is read after the base, or is the base itself, *)
LEMMA CloseSent ==
  ASSUME windowsize \in 1..MAX_WINDOW_SIZE, totalBlocks \in Nat,
         NEW s \in Seq(Datagrams), NEW b \in Nat, NEW r \in 1..totalBlocks, NEW l \in Nat,
         r <= b + windowsize, Close(s, b, r, l)
  PROVE  Close(Append(s, DATA(r)), b, r, l)
<1>. DEFINE t == Append(s, DATA(r))
<1>1. windowsize \in Nat \ {0}
  BY WindowFits
<1>2. \A i \in 1..Len(s) : IsData(s[i]) => s[i].content \in Nat
  BY DatagramFields
<1>3. DATA(r) \in Datagrams /\ DATA(r).content = r
  BY DEF Datagrams, DATA
<1>4. /\ Len(t) = Len(s) + 1 /\ Len(s) \in Nat
      /\ \A i \in 1..Len(s) : t[i] = s[i]
      /\ t[Len(s) + 1] = DATA(r)
  BY <1>3, AppendProperties
<1>. HIDE DEF t
<1>5. ASSUME NEW i \in 1..Len(t), IsData(t[i])
      PROVE  /\ t[i].content <= b + windowsize /\ (r # 0 => t[i].content < r + windowsize)
             /\ l < t[i].content + windowsize
             /\ \A j \in 1..Len(t) : IsData(t[j]) /\ i < j => t[i].content < t[j].content + windowsize
  <2>1. CASE i = Len(s) + 1
    <3>1. t[i].content = r /\ \A j \in 1..Len(t) : ~(i < j)
      BY <1>3, <1>4, <2>1
    <3>2. l < r + windowsize
      BY DEF Close
    <3>. QED
      BY <1>1, <3>1, <3>2
  <2>2. CASE i # Len(s) + 1
    <3>1. i \in 1..Len(s) /\ t[i] = s[i] /\ t[i].content \in Nat
      BY <1>2, <1>4, <1>5, <2>2
    <3>2. /\ s[i].content <= b + windowsize /\ (r # 0 => s[i].content < r + windowsize)
          /\ l < s[i].content + windowsize
          /\ \A j \in 1..Len(s) : IsData(s[j]) /\ i < j => s[i].content < s[j].content + windowsize
      <4>1. IsData(s[i])
        BY <1>5, <3>1
      <4>. QED
        BY <3>1, <4>1, Zenon DEF Close
    <3>4. r # 0
      OBVIOUS
    <3>3. \A j \in 1..Len(t) : j \in 1..Len(s) \/ j = Len(s) + 1
      BY <1>4
    <3>. QED
      BY <1>3, <1>4, <3>1, <3>2, <3>3, <3>4
  <2>. QED
    BY <2>1, <2>2
<1>6. l <= b + windowsize /\ (r # 0 => l < r + windowsize)
  BY DEF Close
<1>7. Close(t, b, r, l)
  BY <1>5, <1>6 DEF Close
<1>. QED
  BY <1>7 DEF t

(* when options are offered again,                                          *)
LEMMA CloseOffered ==
  ASSUME NEW s \in Seq(Datagrams), NEW b \in Nat, NEW r \in Nat, NEW l \in Nat,
         Close(s, b, r, l)
  PROVE  Close(Append(s, OACK), b, r, l)
<1>. DEFINE t == Append(s, OACK)
<1>1. OACK \in Datagrams /\ ~IsData(OACK)
  BY DEF Datagrams, OACK, IsData
<1>2. /\ Len(t) = Len(s) + 1 /\ Len(s) \in Nat
      /\ \A i \in 1..Len(s) : t[i] = s[i]
      /\ t[Len(s) + 1] = OACK
  BY <1>1, AppendProperties
<1>. HIDE DEF t
<1>3. \A i \in 1..Len(t) : IsData(t[i]) => i \in 1..Len(s) /\ t[i] = s[i]
  BY <1>1, <1>2
<1>4. Close(t, b, r, l)
  BY <1>3 DEF Close
<1>. QED
  BY <1>4 DEF t

(* and when the client takes the first of them.                             *)
LEMMA CloseReceived ==
  ASSUME windowsize \in 1..MAX_WINDOW_SIZE, totalBlocks \in Nat,
         NEW s \in Seq(Datagrams), NEW b \in Nat, NEW r \in Nat, NEW l \in Nat,
         Len(s) \in Nat \ {0}, IsData(s[1]), s[1].content = l + 1, Close(s, b, r, l)
  PROVE  Close(s, b, r, l + 1)
<1>1. windowsize \in Nat \ {0}
  BY WindowFits
<1>2. \A i \in 1..Len(s) : IsData(s[i]) => s[i].content \in Nat
  BY DatagramFields
<1>3. 1 \in 1..Len(s)
  OBVIOUS
<1>4. l + 1 <= b + windowsize /\ (r # 0 => l + 1 < r + windowsize)
  BY <1>3 DEF Close
<1>5. ASSUME NEW i \in 1..Len(s), IsData(s[i])
      PROVE  l + 1 < s[i].content + windowsize
  <2>1. CASE i = 1
    BY <1>1, <2>1
  <2>2. CASE i # 1
    BY <1>3, <1>5, <2>2 DEF Close
  <2>. QED
    BY <2>1, <2>2
<1>. QED
  BY <1>4, <1>5 DEF Close

(* A block the client takes for the next one is the next one.               *)
LEMMA WireTellsClient ==
  ASSUME windowsize \in 1..MAX_WINDOW_SIZE, totalBlocks \in Nat,
         NEW s \in Seq(Datagrams), NEW b \in Nat, NEW r \in Nat, NEW l \in Nat, b <= l,
         Len(s) \in Nat \ {0}, IsData(s[1]), s[1].wire = Wire(l + 1), Close(s, b, r, l)
  PROVE  s[1].content = l + 1
<1>1. windowsize \in Nat \ {0} /\ windowsize < WireNumbers /\ WireNumbers \in Nat
  BY WindowFits
<1>2. s[1] \in Datagrams /\ 1 \in 1..Len(s)
  OBVIOUS
<1>3. s[1].content \in Nat /\ s[1].wire = Wire(s[1].content)
  BY <1>2, DatagramFields
<1>4. s[1].content <= b + windowsize /\ l < s[1].content + windowsize
  BY <1>2 DEF Close
<1>5. l + 1 \in Nat /\ s[1].content - (l + 1) < WireNumbers /\ (l + 1) - s[1].content < WireNumbers
  BY <1>1, <1>3, <1>4
<1>. QED
  BY <1>3, <1>5, WireTells
-----------------------------------------------------------------------------
(* The inductive invariant: the server goes by what the client acknowledges *)
(* and the client acknowledges what it has.                                 *)
TransferInv == SendInv /\ AckedIsReceived

(* The types of the numbers, one by one.                                    *)
LEMMA Numbers ==
  ASSUME TransferInv
  PROVE  /\ totalBlocks \in Nat \ {0} /\ windowsize \in 1..MAX_WINDOW_SIZE /\ windowsize \in Nat \ {0}
         /\ base \in Nat /\ nextToSend \in Nat /\ reading \in Nat /\ retries \in Nat
         /\ Len(file) \in Nat /\ Len(toClient) \in Nat /\ Len(toServer) \in Nat
         /\ base <= Len(file)
<1>1. totalBlocks \in 1..MaxBlocks /\ windowsize \in 1..MAX_WINDOW_SIZE /\ MaxBlocks \in Nat
  BY SendAssumption DEF TransferInv, SendInv, SendTypeOK
<1>2. totalBlocks \in Nat \ {0} /\ windowsize \in Nat \ {0}
  BY <1>1, WindowFits
<1>3. base \in 0..totalBlocks /\ nextToSend \in (base + 1)..(totalBlocks + 1) /\ reading \in 0..totalBlocks
  BY DEF TransferInv, SendInv, SendTypeOK
<1>4. retries \in Nat
  BY SendAssumption DEF TransferInv, SendInv, SendTypeOK
<1>5. Len(file) \in Nat /\ Len(toClient) \in Nat /\ Len(toServer) \in Nat
  BY DEF TransferInv, SendInv, SendTypeOK
<1>. QED
  BY <1>1, <1>2, <1>3, <1>4, <1>5 DEF TransferInv, AckedIsReceived

(* The client never has more than the file.                                 *)
LEMMA FileFits ==
  ASSUME TransferInv
  PROVE  Len(file) <= totalBlocks
<1>1. file \in Seq(1..totalBlocks) /\ \A i \in DOMAIN file : file[i] = i
  BY DEF TransferInv, SendInv, SendTypeOK, ClientFileIsTrue
<1>2. CASE Len(file) = 0
  BY <1>2, Numbers
<1>3. CASE Len(file) # 0
  <2>1. Len(file) \in 1..Len(file) /\ DOMAIN file = 1..Len(file)
    BY <1>1, <1>3
  <2>2. file[Len(file)] \in 1..totalBlocks
    BY <1>1, <2>1, ElementOfSeq
  <2>3. file[Len(file)] = Len(file)
    BY <1>1, <2>1
  <2>. QED
    BY <2>2, <2>3, Numbers
<1>. QED
  BY <1>2, <1>3

(* pump(), or the step of it when a block has been read, from base b with   *)
(* n to be sent next: it stays in the window, and the block it reads is     *)
(* beyond the base unless it was being read already.                        *)
LEMMA PumpInWindow ==
  ASSUME TransferInv, NEW b \in base..totalBlocks, NEW n \in (b + 1)..(totalBlocks + 1),
         n <= b + windowsize + 1, NEW armed \in BOOLEAN,
         \/ pump(b, n, armed) /\ (reading # 0 => b <= reading /\ n <= reading + 1)
         \/ Step(b, n) /\ timer' \in BOOLEAN
  PROVE  /\ nextToSend' \in (b + 1)..(totalBlocks + 1) /\ nextToSend' <= b + windowsize + 1
         /\ reading' \in 0..totalBlocks /\ timer' \in BOOLEAN
         /\ reading' # 0 => reading' \in b..(b + windowsize) /\ nextToSend' <= reading' + 1
         /\ reading' = 0 \/ reading' = reading \/ reading' > b
<1>1. /\ totalBlocks \in Nat /\ windowsize \in Nat \ {0} /\ base \in Nat /\ reading \in Nat
      /\ reading \in 0..totalBlocks
      /\ reading # 0 => reading \in base..(base + windowsize)
  BY Numbers DEF TransferInv, SendInv, SendTypeOK, ReadsInWindow
<1>2. ASSUME Step(b, n)
      PROVE  /\ nextToSend' \in (b + 1)..(totalBlocks + 1) /\ nextToSend' <= b + windowsize + 1
             /\ reading' \in 0..totalBlocks
             /\ reading' # 0 => reading' \in b..(b + windowsize) /\ nextToSend' <= reading' + 1
             /\ reading' = 0 \/ reading' > b
  BY <1>1, <1>2 DEF Step, InWindow
<1>3. CASE pump(b, n, armed) /\ (reading # 0 => b <= reading /\ n <= reading + 1)
  <2>1. CASE reading # 0
    <3>1. nextToSend' = n /\ reading' = reading /\ timer' = armed
      BY <1>3, <2>1 DEF pump
    <3>. QED
      BY <1>1, <1>3, <2>1, <3>1
  <2>2. CASE reading = 0
    <3>1. Step(b, n) /\ timer' = TRUE
      BY <1>3, <2>2 DEF pump
    <3>. QED
      BY <1>2, <3>1
  <2>. QED
    BY <2>1, <2>2
<1>4. CASE Step(b, n) /\ timer' \in BOOLEAN
  BY <1>2, <1>4
<1>. QED
  BY <1>3, <1>4
-----------------------------------------------------------------------------
(* A step of the server that leaves the network's acknowledgements and the  *)
(* client alone, seen by what it changes.                                   *)
LEMMA ServerKeeps ==
  ASSUME TransferInv,
         UNCHANGED <<totalBlocks, windowsize, file, contacted, toServer>>,
         base' = base, nextToSend' \in (base + 1)..(totalBlocks + 1), nextToSend' <= base + windowsize + 1,
         reading' \in 0..totalBlocks,
         reading' # 0 => reading' \in base..(base + windowsize) /\ nextToSend' <= reading' + 1,
         retries' \in 0..(MAX_RETRIES + 1), outcome' = "running" => retries' <= MAX_RETRIES,
         outcome' \in {"running", "sent", "timed-out", "read-error", "crashed"},
         outcome' = "sent" => outcome = "sent",
         oackPending' \in BOOLEAN, timer' \in BOOLEAN, socketOpen' \in BOOLEAN,
         toClient' \in Seq(Datagrams), Len(toClient') <= Capacity,
         Close(toClient', base, reading', Len(file))
  PROVE  TransferInv'
<1>1. contacted' \in BOOLEAN
  BY Zenon DEF TransferInv, SendInv, SendTypeOK
<1>2. {oackPending', timer', socketOpen', contacted'} \subseteq BOOLEAN
  BY <1>1
<1>3. Datagrams' = Datagrams
  BY DEF Datagrams, OACK, DATA, Wire
<1>4. SendTypeOK'
  BY <1>2, <1>3 DEF TransferInv, SendInv, SendTypeOK
<1>5. ReadsInWindow'
  BY DEF ReadsInWindow
<1>6. BlocksKeepClose'
  BY DEF BlocksKeepClose, Close
<1>7. AcksInOrder'
  BY DEF TransferInv, SendInv, AcksInOrder, Ordered
<1>8. ClientFileIsTrue' /\ AckedIsReceived'
  BY DEF TransferInv, SendInv, ClientFileIsTrue, AckedIsReceived
<1>. QED
  BY <1>4, <1>5, <1>6, <1>7, <1>8 DEF TransferInv, SendInv

(* The server gives up.                                                     *)
LEMMA FinishKeeps ==
  ASSUME TransferInv, NEW result \in {"timed-out", "read-error", "crashed"}, finish(result),
         UNCHANGED <<totalBlocks, windowsize, client, toClient, toServer>>,
         retries' \in 0..(MAX_RETRIES + 1)
  PROVE  TransferInv'
<1>1. /\ outcome' = result /\ timer' = FALSE /\ reading' = 0 /\ socketOpen' = FALSE
      /\ UNCHANGED <<oackPending, base, nextToSend, totalBlocks, windowsize, file, contacted, toClient, toServer>>
  BY DEF finish, client
<1>2. Close(toClient', base, reading', Len(file))
  <2>1. toClient \in Seq(Datagrams) /\ Close(toClient, base, reading, Len(file))
    BY DEF TransferInv, SendInv, SendTypeOK, BlocksKeepClose
  <2>2. Close(toClient, base, 0, Len(file))
    BY <2>1, Numbers, CloseRead
  <2>. QED
    BY <1>1, <2>2
<1>3. oackPending' \in BOOLEAN
  <2>1. oackPending \in BOOLEAN
    BY Zenon DEF TransferInv, SendInv, SendTypeOK
  <2>. QED
    BY <1>1, <2>1
<1>4. /\ nextToSend \in (base + 1)..(totalBlocks + 1) /\ nextToSend <= base + windowsize + 1
      /\ 0 \in 0..totalBlocks /\ toClient \in Seq(Datagrams) /\ Len(toClient) <= Capacity
  BY Numbers DEF TransferInv, SendInv, SendTypeOK
<1>. QED
  BY <1>1, <1>2, <1>3, <1>4, ServerKeeps

(* What was sent is among what is on its way, if there was room for it.     *)
LEMMA SentKeeps ==
  ASSUME NEW m \in Datagrams, toClient \in Seq(Datagrams), Len(toClient) <= Capacity
  PROVE  /\ Sent(toClient, m) \in Seq(Datagrams) /\ Len(Sent(toClient, m)) <= Capacity
         /\ Sent(toClient, m) \in {toClient, Append(toClient, m)}
<1>1. Append(toClient, m) \in Seq(Datagrams) /\ Len(Append(toClient, m)) = Len(toClient) + 1
  BY AppendProperties
<1>2. Len(toClient) \in Nat /\ Capacity \in Nat
  BY SendAssumption
<1>. QED
  BY <1>1, <1>2 DEF Sent

-----------------------------------------------------------------------------
(* The disk answers.                                                        *)
LEMMA ReadDoneKeeps ==
  ASSUME TransferInv, ReadDone
  PROVE  TransferInv'
<1>1. /\ outcome = "running" /\ reading \in 1..totalBlocks /\ reading \in base..(base + windowsize)
      /\ nextToSend \in (base + 1)..(totalBlocks + 1) /\ nextToSend <= base + windowsize + 1
      /\ toClient \in Seq(Datagrams) /\ Len(toClient) <= Capacity
      /\ Close(toClient, base, reading, Len(file))
      /\ retries \in 0..(MAX_RETRIES + 1) /\ retries <= MAX_RETRIES
      /\ UNCHANGED <<totalBlocks, windowsize, retries, file, contacted, toServer>>
  BY Numbers DEF ReadDone, TransferInv, SendInv, SendTypeOK, ReadsInWindow, BlocksKeepClose, client
<1>2. oackPending \in BOOLEAN /\ timer \in BOOLEAN /\ socketOpen \in BOOLEAN
  BY Zenon DEF TransferInv, SendInv, SendTypeOK
<1>3. CASE socketOpen
  <2>1. /\ toClient' = Sent(toClient, DATA(reading)) /\ Step(base, nextToSend)
        /\ UNCHANGED <<oackPending, base, timer, outcome, socketOpen>>
    BY <1>3 DEF ReadDone
  <2>2. DATA(reading) \in Datagrams
    BY <1>1 DEF Datagrams
  <2>3. /\ nextToSend' \in (base + 1)..(totalBlocks + 1) /\ nextToSend' <= base + windowsize + 1
        /\ reading' \in 0..totalBlocks
        /\ reading' # 0 => reading' \in base..(base + windowsize) /\ nextToSend' <= reading' + 1
        /\ reading' = 0 \/ reading' = reading \/ reading' > base
    <3>1. base \in base..totalBlocks /\ timer' \in BOOLEAN
      BY <1>1, <1>2, <2>1, Numbers DEF TransferInv, SendInv, SendTypeOK
    <3>. QED
      BY <1>1, <2>1, <3>1, PumpInWindow
  <2>4. /\ toClient' \in Seq(Datagrams) /\ Len(toClient') <= Capacity
        /\ toClient' \in {toClient, Append(toClient, DATA(reading))}
    BY <1>1, <2>1, <2>2, SentKeeps
  <2>5. Close(toClient', base, reading, Len(file))
    <3>1. Close(Append(toClient, DATA(reading)), base, reading, Len(file))
      BY <1>1, Numbers, CloseSent
    <3>. QED
      BY <1>1, <2>4, <3>1
  <2>6. Close(toClient', base, reading', Len(file))
    BY <2>3, <2>4, <2>5, Numbers, CloseRead
  <2>. QED
    BY <1>1, <1>2, <2>1, <2>3, <2>4, <2>6, ServerKeeps
<1>4. CASE ~socketOpen
  <2>1. finish("crashed") /\ UNCHANGED <<totalBlocks, windowsize, client, toClient, toServer>>
    BY <1>4 DEF ReadDone
  <2>. QED
    BY <1>1, <2>1, FinishKeeps
<1>. QED
  BY <1>2, <1>3, <1>4

LEMMA ReadFailedKeeps ==
  ASSUME TransferInv, ReadFailed
  PROVE  TransferInv'
<1>1. /\ finish(IF socketOpen THEN "read-error" ELSE "crashed")
      /\ UNCHANGED <<totalBlocks, windowsize, client, toClient, toServer>>
      /\ retries' \in 0..(MAX_RETRIES + 1)
  BY DEF ReadFailed, TransferInv, SendInv, SendTypeOK
<1>2. (IF socketOpen THEN "read-error" ELSE "crashed") \in {"timed-out", "read-error", "crashed"}
  OBVIOUS
<1>. QED
  BY <1>1, <1>2, FinishKeeps

(* The timer fires: the server gives up, offers its options again, or goes  *)
(* back to the block after the last acknowledged one.                       *)
LEMMA TimeoutKeeps ==
  ASSUME TransferInv, onTimeout
  PROVE  TransferInv'
<1>1. /\ outcome = "running" /\ retries' = retries + 1 /\ retries \in Nat
      /\ retries' \in 0..(MAX_RETRIES + 1) /\ MAX_RETRIES \in Nat
      /\ base \in 0..totalBlocks /\ reading \in 0..totalBlocks
      /\ reading # 0 => reading \in base..(base + windowsize) /\ nextToSend <= reading + 1
      /\ nextToSend \in (base + 1)..(totalBlocks + 1) /\ nextToSend <= base + windowsize + 1
      /\ toClient \in Seq(Datagrams) /\ Len(toClient) <= Capacity
      /\ Close(toClient, base, reading, Len(file))
      /\ UNCHANGED <<totalBlocks, windowsize, client, toServer>>
  BY Numbers, SendAssumption
  DEF onTimeout, Retried, TransferInv, SendInv, SendTypeOK, ReadsInWindow, BlocksKeepClose
<1>2. oackPending \in BOOLEAN /\ timer \in BOOLEAN /\ socketOpen \in BOOLEAN
  BY Zenon DEF TransferInv, SendInv, SendTypeOK
<1>3. CASE finish("timed-out") /\ UNCHANGED toClient
  BY <1>1, <1>3, FinishKeeps
<1>4. CASE finish("crashed") /\ UNCHANGED toClient
  BY <1>1, <1>4, FinishKeeps
<1>5. CASE /\ retries' <= MAX_RETRIES
           /\ toClient' = Sent(toClient, OACK)
           /\ UNCHANGED <<oackPending, base, nextToSend, timer, reading, outcome, socketOpen>>
  <2>1. /\ toClient' = Sent(toClient, OACK)
        /\ UNCHANGED <<oackPending, base, nextToSend, timer, reading, outcome, socketOpen>>
    BY <1>5
  <2>2. OACK \in Datagrams
    BY DEF Datagrams
  <2>3. /\ toClient' \in Seq(Datagrams) /\ Len(toClient') <= Capacity
        /\ toClient' \in {toClient, Append(toClient, OACK)}
    BY <1>1, <2>1, <2>2, SentKeeps
  <2>4. Close(toClient', base, reading', Len(file))
    <3>1. Close(Append(toClient, OACK), base, reading, Len(file))
      BY <1>1, Numbers, CloseOffered
    <3>. QED
      BY <1>1, <2>1, <2>3, <3>1
  <2>. QED
    BY <1>1, <1>2, <1>5, <2>1, <2>3, <2>4, ServerKeeps DEF client
<1>6. CASE /\ retries' <= MAX_RETRIES
           /\ pump(base, base + 1, FALSE) /\ UNCHANGED <<oackPending, base, outcome, socketOpen, toClient>>
  <2>1. pump(base, base + 1, FALSE) /\ UNCHANGED <<oackPending, base, outcome, socketOpen, toClient>>
    BY <1>6
  <2>2. /\ nextToSend' \in (base + 1)..(totalBlocks + 1) /\ nextToSend' <= base + windowsize + 1
        /\ reading' \in 0..totalBlocks /\ timer' \in BOOLEAN
        /\ reading' # 0 => reading' \in base..(base + windowsize) /\ nextToSend' <= reading' + 1
        /\ reading' = 0 \/ reading' = reading \/ reading' > base
    <3>1. /\ base \in base..totalBlocks /\ base + 1 \in (base + 1)..(totalBlocks + 1)
          /\ base + 1 <= base + windowsize + 1 /\ FALSE \in BOOLEAN
          /\ reading # 0 => base <= reading /\ base + 1 <= reading + 1
      BY <1>1, Numbers
    <3>. QED
      BY <2>1, <3>1, PumpInWindow
  <2>3. Close(toClient', base, reading', Len(file))
    <3>1. Close(toClient, base, reading', Len(file))
      BY <1>1, <2>2, Numbers, CloseRead
    <3>. QED
      BY <2>1, <3>1
  <2>. QED
    BY <1>1, <1>2, <1>6, <2>1, <2>2, <2>3, ServerKeeps DEF client
<1>. QED
  BY <1>3, <1>4, <1>5, <1>6, Zenon DEF onTimeout
LEMMA SocketErrorKeeps ==
  ASSUME TransferInv, SocketError
  PROVE  TransferInv'
<1>1. /\ nextToSend \in (base + 1)..(totalBlocks + 1) /\ nextToSend <= base + windowsize + 1
      /\ reading \in 0..totalBlocks /\ retries \in 0..(MAX_RETRIES + 1)
      /\ reading # 0 => reading \in base..(base + windowsize) /\ nextToSend <= reading + 1
      /\ outcome \in {"running", "sent", "timed-out", "read-error", "crashed"}
      /\ outcome = "running" => retries <= MAX_RETRIES
      /\ toClient \in Seq(Datagrams) /\ Len(toClient) <= Capacity
      /\ Close(toClient, base, reading, Len(file))
      /\ socketOpen' = FALSE
      /\ UNCHANGED <<totalBlocks, windowsize, oackPending, base, nextToSend, retries, timer, reading, outcome,
                     file, contacted, toClient, toServer>>
  BY DEF SocketError, TransferInv, SendInv, SendTypeOK, ReadsInWindow, BlocksKeepClose, client
<1>2. oackPending \in BOOLEAN /\ timer \in BOOLEAN
  BY Zenon DEF TransferInv, SendInv, SendTypeOK
<1>. QED
  BY <1>1, <1>2, ServerKeeps

-----------------------------------------------------------------------------
(* A step that takes the server from base to b, by what the client has      *)
(* acknowledged, with the acknowledgement still on its way or not.          *)
LEMMA AcknowledgedKeeps ==
  ASSUME TransferInv, NEW b \in base..totalBlocks, b <= Len(file),
         UNCHANGED <<totalBlocks, windowsize, file, contacted, toClient>>,
         base' = b, nextToSend' \in (b + 1)..(totalBlocks + 1), nextToSend' <= b + windowsize + 1,
         reading' \in 0..totalBlocks,
         reading' # 0 => reading' \in b..(b + windowsize) /\ nextToSend' <= reading' + 1,
         reading' = 0 \/ reading' = reading \/ reading' > b,
         retries' \in 0..MAX_RETRIES,
         outcome' \in {"running", "sent"}, outcome' = "sent" => b = totalBlocks,
         oackPending' \in BOOLEAN, timer' \in BOOLEAN, socketOpen' \in BOOLEAN,
         toServer' \in {toServer, Tail(toServer)}, toServer # <<>>,
         Ordered(toServer, b, Len(file))
  PROVE  TransferInv'
<1>1. contacted' \in BOOLEAN
  BY Zenon DEF TransferInv, SendInv, SendTypeOK
<1>2. {oackPending', timer', socketOpen', contacted'} \subseteq BOOLEAN
  BY <1>1
<1>3. /\ Datagrams' = Datagrams /\ b \in Nat /\ MAX_RETRIES \in Nat
      /\ toClient \in Seq(Datagrams) /\ toServer \in Seq(0..(WireNumbers - 1))
      /\ Len(toServer) <= Capacity /\ Capacity \in Nat
  BY Numbers, SendAssumption DEF Datagrams, OACK, DATA, Wire, TransferInv, SendInv, SendTypeOK
<1>4. /\ toServer' \in Seq(0..(WireNumbers - 1)) /\ Len(toServer') <= Capacity
      /\ Thinned(toServer', toServer) /\ Len(toServer') \in Nat
  <2>1. /\ Tail(toServer) \in Seq(0..(WireNumbers - 1)) /\ Len(Tail(toServer)) = Len(toServer) - 1
        /\ Thinned(Tail(toServer), toServer) /\ Len(Tail(toServer)) \in Nat
    <3>1. /\ Tail(toServer) \in Seq(0..(WireNumbers - 1)) /\ Len(Tail(toServer)) = Len(toServer) - 1
          /\ Thinned(Tail(toServer), toServer)
      BY <1>3, ThinnedTail
    <3>. QED
      BY <3>1
  <2>2. Thinned(toServer, toServer)
    BY <1>3, ThinnedSame
  <2>3. CASE toServer' = toServer
    BY <1>3, <2>2, <2>3, Numbers
  <2>4. CASE toServer' = Tail(toServer)
    BY <1>3, <2>1, <2>4, Numbers
  <2>. QED
    BY <2>3, <2>4
<1>5. SendTypeOK'
  BY <1>2, <1>3, <1>4 DEF TransferInv, SendInv, SendTypeOK
<1>6. ReadsInWindow'
  BY DEF ReadsInWindow
<1>7. Close(toClient, b, reading', Len(file))
  <2>1. base \in Nat /\ base <= b /\ reading' \in Nat /\ totalBlocks \in Nat
    BY Numbers
  <2>2. Close(toClient, base, reading, Len(file))
    BY DEF TransferInv, SendInv, BlocksKeepClose
  <2>. QED
    BY <1>3, <2>1, <2>2, Numbers, CloseOn
<1>8. BlocksKeepClose'
  BY <1>7 DEF BlocksKeepClose, Close
<1>9. Ordered(toServer', b, Len(file))
  BY <1>3, <1>4, Numbers, OrderedThinned
<1>10. AcksInOrder'
  BY <1>9 DEF AcksInOrder, Ordered, Wire
<1>11. ClientFileIsTrue'
  BY DEF TransferInv, SendInv, ClientFileIsTrue
<1>12. AckedIsReceived'
  BY <1>3, FileFits, Numbers DEF AckedIsReceived
<1>. QED
  BY <1>5, <1>6, <1>8, <1>10, <1>11, <1>12 DEF TransferInv, SendInv

(* A block in flight that a number stands for is the one the client meant.  *)
LEMMA WireTellsServer ==
  ASSUME TransferInv, toServer # <<>>, NEW a \in InFlight, Wire(a) = Head(toServer)
  PROVE  a \in base..Len(file) /\ Ordered(toServer, a, Len(file))
<1>1. /\ base \in Nat /\ Len(file) \in Nat /\ windowsize \in 1..MAX_WINDOW_SIZE
      /\ windowsize \in Nat /\ windowsize < WireNumbers /\ WireNumbers \in Nat
  BY Numbers, WindowFits
<1>2. /\ Len(toServer) \in Nat \ {0} /\ Head(toServer) = toServer[1]
      /\ toServer \in Seq(0..(WireNumbers - 1))
  BY EmptySeq DEF TransferInv, SendInv, SendTypeOK
<1>3. Ordered(toServer, base, Len(file)) /\ Len(file) <= base + windowsize
  BY DEF TransferInv, SendInv, AcksInOrder, BlocksKeepClose, Close
<1>4. PICK k \in base..Len(file) : toServer[1] = Wire(k)
  BY <1>2, <1>3 DEF Ordered
<1>5. a \in Nat /\ a > base /\ a <= base + windowsize
  <2>1. nextToSend \in Nat /\ nextToSend <= base + windowsize + 1
    BY Numbers DEF TransferInv, SendInv, SendTypeOK
  <2>2. a \in (base + 1)..(nextToSend - 1)
    BY DEF InFlight
  <2>. QED
    BY <1>1, <2>1, <2>2
<1>6. a = k
  <2>1. k \in Nat /\ a - k < WireNumbers /\ k - a < WireNumbers /\ Wire(a) = Wire(k)
    BY <1>1, <1>2, <1>3, <1>4, <1>5
  <2>. QED
    BY <1>5, <2>1, WireTells
<1>7. Ordered(toServer, k, Len(file))
  BY <1>1, <1>2, <1>3, <1>4, OrderedBase
<1>. QED
  BY <1>4, <1>6, <1>7

(* An acknowledgement arrives.                                              *)
LEMMA MessageKeeps ==
  ASSUME TransferInv, onMessage
  PROVE  TransferInv'
<1>1. /\ base \in 0..totalBlocks /\ reading \in 0..totalBlocks /\ outcome = "running" /\ socketOpen
      /\ reading # 0 => reading \in base..(base + windowsize) /\ nextToSend <= reading + 1
      /\ nextToSend \in (base + 1)..(totalBlocks + 1) /\ nextToSend <= base + windowsize + 1
      /\ retries \in 0..MAX_RETRIES /\ 0 \in 0..MAX_RETRIES
      /\ Ordered(toServer, base, Len(file))
      /\ toServer # <<>> /\ toServer' \in {toServer, Tail(toServer)}
      /\ UNCHANGED <<totalBlocks, windowsize, file, contacted, toClient>>
      /\ Received(Head(toServer))
  BY Numbers, SendAssumption
  DEF onMessage, TransferInv, SendInv, SendTypeOK, ReadsInWindow, AcksInOrder, client
<1>2. oackPending \in BOOLEAN /\ timer \in BOOLEAN /\ socketOpen \in BOOLEAN
  BY Zenon DEF TransferInv, SendInv, SendTypeOK
<1>3. base \in base..totalBlocks
  BY <1>1
<1>4. CASE /\ oackPending' = FALSE /\ retries' = 0
           /\ pump(base, nextToSend, timer)
           /\ UNCHANGED <<base, outcome, socketOpen>>
  <2>1. reading # 0 => base <= reading /\ nextToSend <= reading + 1
    BY <1>1
  <2>2. /\ nextToSend' \in (base + 1)..(totalBlocks + 1) /\ nextToSend' <= base + windowsize + 1
        /\ reading' \in 0..totalBlocks /\ timer' \in BOOLEAN
        /\ reading' # 0 => reading' \in base..(base + windowsize) /\ nextToSend' <= reading' + 1
        /\ reading' = 0 \/ reading' = reading \/ reading' > base
    BY <1>1, <1>2, <1>3, <1>4, <2>1, PumpInWindow
  <2>. QED
    BY <1>1, <1>2, <1>3, <1>4, <2>2, Numbers, AcknowledgedKeeps
<1>5. CASE \E acked \in InFlight :
             /\ Means(Head(toServer), acked)
             /\ base' = acked /\ retries' = 0
             /\ IF acked >= totalBlocks
                THEN /\ outcome' = "sent" /\ timer' = FALSE /\ reading' = 0 /\ socketOpen' = FALSE
                     /\ UNCHANGED nextToSend
                ELSE pump(acked, nextToSend, timer) /\ UNCHANGED <<outcome, socketOpen>>
             /\ UNCHANGED oackPending
  <2>1. PICK acked \in InFlight :
             /\ Means(Head(toServer), acked)
             /\ base' = acked /\ retries' = 0
             /\ IF acked >= totalBlocks
                THEN /\ outcome' = "sent" /\ timer' = FALSE /\ reading' = 0 /\ socketOpen' = FALSE
                     /\ UNCHANGED nextToSend
                ELSE pump(acked, nextToSend, timer) /\ UNCHANGED <<outcome, socketOpen>>
             /\ UNCHANGED oackPending
    BY <1>5
  <2>2. acked \in base..Len(file) /\ Ordered(toServer, acked, Len(file))
    BY <1>1, <2>1, WireTellsServer DEF Means
  <2>3. /\ acked \in base..totalBlocks /\ acked <= Len(file)
        /\ nextToSend \in (acked + 1)..(totalBlocks + 1) /\ nextToSend <= acked + windowsize + 1
        /\ reading # 0 => acked <= reading /\ nextToSend <= reading + 1
    <3>1. acked \in (base + 1)..(nextToSend - 1)
      BY <2>1 DEF InFlight
    <3>2. Len(file) <= totalBlocks
      BY FileFits
    <3>3. /\ base \in Nat /\ totalBlocks \in Nat /\ Len(file) \in Nat /\ nextToSend \in Nat /\ windowsize \in Nat
          /\ reading \in Nat /\ nextToSend <= totalBlocks + 1 /\ nextToSend <= base + windowsize + 1
          /\ reading # 0 => nextToSend <= reading + 1
      BY <1>1, Numbers
    <3>4. acked \in Nat /\ base < acked /\ acked < nextToSend /\ acked <= Len(file)
      BY <2>2, <3>1, <3>3
    <3>. QED
      BY <3>2, <3>3, <3>4
  <2>4. CASE acked >= totalBlocks
    <3>1. /\ outcome' = "sent" /\ timer' = FALSE /\ reading' = 0 /\ socketOpen' = FALSE /\ nextToSend' = nextToSend
          /\ acked = totalBlocks /\ 0 \in 0..totalBlocks
      BY <2>1, <2>3, <2>4, Numbers
    <3>. QED
      BY <1>1, <1>2, <2>1, <2>2, <2>3, <3>1, AcknowledgedKeeps
  <2>5. CASE ~(acked >= totalBlocks)
    <3>1. pump(acked, nextToSend, timer) /\ UNCHANGED <<outcome, socketOpen>>
      BY <2>1, <2>5
    <3>2. /\ nextToSend' \in (acked + 1)..(totalBlocks + 1) /\ nextToSend' <= acked + windowsize + 1
          /\ reading' \in 0..totalBlocks /\ timer' \in BOOLEAN
          /\ reading' # 0 => reading' \in acked..(acked + windowsize) /\ nextToSend' <= reading' + 1
          /\ reading' = 0 \/ reading' = reading \/ reading' > acked
      BY <1>2, <2>3, <3>1, PumpInWindow
    <3>. QED
      BY <1>1, <1>2, <2>1, <2>2, <2>3, <3>1, <3>2, AcknowledgedKeeps
  <2>. QED
    BY <2>4, <2>5
<1>6. CASE UNCHANGED server
  <2>1. UNCHANGED <<oackPending, base, nextToSend, retries, timer, reading, outcome, socketOpen>>
    BY <1>6 DEF server
  <2>. QED
    BY <1>1, <1>2, <1>3, <2>1, Numbers, AcknowledgedKeeps
<1>. QED
  BY <1>1, <1>4, <1>5, <1>6, Zenon DEF Received

-----------------------------------------------------------------------------
(* The client and the network, by what they change.                         *)
LEMMA OutsideKeeps ==
  ASSUME TransferInv, UNCHANGED <<totalBlocks, windowsize, server>>,
         contacted' \in BOOLEAN, file' \in Seq(1..totalBlocks), base <= Len(file'),
         \A i \in DOMAIN file' : file'[i] = i,
         outcome = "sent" => Len(file') = totalBlocks,
         toClient' \in Seq(Datagrams), Len(toClient') <= Capacity,
         toServer' \in Seq(0..(WireNumbers - 1)), Len(toServer') <= Capacity,
         Close(toClient', base, reading, Len(file')), Ordered(toServer', base, Len(file'))
  PROVE  TransferInv'
<1>1. UNCHANGED <<oackPending, base, nextToSend, retries, timer, reading, outcome, socketOpen>>
  BY DEF server
<1>2. {oackPending', timer', socketOpen', contacted'} \subseteq BOOLEAN
  <2>1. oackPending \in BOOLEAN /\ timer \in BOOLEAN /\ socketOpen \in BOOLEAN
    BY Zenon DEF TransferInv, SendInv, SendTypeOK
  <2>. QED
    BY <1>1, <2>1
<1>3. Datagrams' = Datagrams
  BY DEF Datagrams, OACK, DATA, Wire
<1>4. SendTypeOK'
  BY <1>1, <1>2, <1>3 DEF TransferInv, SendInv, SendTypeOK
<1>5. ReadsInWindow'
  BY <1>1 DEF TransferInv, SendInv, ReadsInWindow
<1>6. BlocksKeepClose'
  BY <1>1 DEF BlocksKeepClose, Close
<1>7. AcksInOrder'
  BY <1>1 DEF AcksInOrder, Ordered, Wire
<1>8. ClientFileIsTrue' /\ AckedIsReceived'
  BY <1>1 DEF ClientFileIsTrue, AckedIsReceived
<1>. QED
  BY <1>4, <1>5, <1>6, <1>7, <1>8 DEF TransferInv, SendInv

(* What the invariant says of the client and the network.                   *)
LEMMA OutsideNow ==
  ASSUME TransferInv
  PROVE  /\ file \in Seq(1..totalBlocks) /\ \A i \in DOMAIN file : file[i] = i
         /\ outcome = "sent" => Len(file) = totalBlocks
         /\ toClient \in Seq(Datagrams) /\ Len(toClient) <= Capacity
         /\ toServer \in Seq(0..(WireNumbers - 1)) /\ Len(toServer) <= Capacity
         /\ Close(toClient, base, reading, Len(file)) /\ Ordered(toServer, base, Len(file))
         /\ Len(file) <= base + windowsize /\ Capacity \in Nat
BY SendAssumption
DEF TransferInv, SendInv, SendTypeOK, ClientFileIsTrue, AckedIsReceived, BlocksKeepClose, AcksInOrder, Close

LEMMA ContactedType ==
  ASSUME TransferInv
  PROVE  contacted \in BOOLEAN
BY Zenon DEF TransferInv, SendInv, SendTypeOK

(* The client takes what comes, and keeps a block only if it is the next.   *)
LEMMA ReceivesKeeps ==
  ASSUME TransferInv, ClientReceives
  PROVE  TransferInv'
<1>. DEFINE m == Head(toClient)
            l == Len(file)
<1>1. /\ toClient # <<>> /\ contacted' = TRUE
      /\ file' = (IF m.op = "DATA" /\ ~Complete /\ m.wire = Wire(l + 1) THEN Append(file, m.content) ELSE file)
      /\ toClient' \in {toClient, Tail(toClient)}
      /\ UNCHANGED <<totalBlocks, windowsize, server, toServer>>
  BY DEF ClientReceives
<1>2. Len(toClient) \in Nat \ {0} /\ m = toClient[1] /\ m \in Datagrams
  BY <1>1, OutsideNow, EmptySeq
<1>3. /\ toClient' \in Seq(Datagrams) /\ Len(toClient') <= Capacity /\ Len(toClient') \in Nat
      /\ Thinned(toClient', toClient)
  <2>1. /\ Tail(toClient) \in Seq(Datagrams) /\ Len(Tail(toClient)) = Len(toClient) - 1
        /\ Thinned(Tail(toClient), toClient)
    BY <1>1, OutsideNow, ThinnedTail
  <2>2. Thinned(toClient, toClient)
    BY OutsideNow, ThinnedSame
  <2>3. CASE toClient' = toClient
    BY <1>2, <2>2, <2>3, OutsideNow
  <2>4. CASE toClient' = Tail(toClient)
    BY <1>2, <2>1, <2>4, OutsideNow
  <2>. QED
    BY <1>1, <2>3, <2>4
<1>4. CASE m.op = "DATA" /\ ~Complete /\ m.wire = Wire(l + 1)
  <2>1. IsData(toClient[1]) /\ toClient[1].wire = Wire(l + 1)
    BY <1>2, <1>4 DEF IsData
  <2>2. totalBlocks \in Nat /\ base \in Nat /\ reading \in Nat /\ l \in Nat /\ base <= l
    BY Numbers
  <2>3. toClient[1].content = l + 1
    BY <1>2, <2>1, <2>2, Numbers, OutsideNow, WireTellsClient
  <2>4. l + 1 \in 1..totalBlocks
    BY <1>2, <2>1, <2>2, <2>3, DatagramFields
  <2>5. file' = Append(file, l + 1)
    BY <1>1, <1>2, <1>4, <2>3
  <2>6. /\ file' \in Seq(1..totalBlocks) /\ Len(file') = l + 1
        /\ \A i \in 1..l : file'[i] = file[i]
        /\ file'[l + 1] = l + 1
    BY <2>4, <2>5, OutsideNow, AppendProperties
  <2>7. \A i \in DOMAIN file' : file'[i] = i
    <3>1. DOMAIN file' = 1..(l + 1) /\ DOMAIN file = 1..l
      BY <2>6, OutsideNow
    <3>2. \A i \in 1..l : file'[i] = i
      BY <2>6, <3>1, OutsideNow
    <3>3. \A i \in 1..(l + 1) : i \in 1..l \/ i = l + 1
      BY <2>2
    <3>. SUFFICES ASSUME NEW i \in 1..(l + 1) PROVE file'[i] = i
      BY <3>1
    <3>4. CASE i \in 1..l
      BY <3>2, <3>4
    <3>5. CASE i = l + 1
      BY <2>6, <3>5
    <3>. QED
      BY <3>3, <3>4, <3>5
  <2>8. Close(toClient', base, reading, l + 1)
    <3>1. Close(toClient, base, reading, l + 1)
      BY <1>2, <2>1, <2>2, <2>3, Numbers, OutsideNow, CloseReceived
    <3>. QED
      BY <1>2, <1>3, <2>2, <3>1, CloseThinned
  <2>9. Ordered(toServer', base, l + 1)
    <3>1. l + 1 <= base + windowsize
      <4>1. 1 \in 1..Len(toClient)
        BY <1>2
      <4>2. toClient[1].content <= base + windowsize
        BY <2>1, <4>1, OutsideNow DEF Close
      <4>. QED
        BY <2>3, <4>2
    <3>. QED
      BY <1>1, <2>2, <3>1, Numbers, OutsideNow, OrderedFile
  <2>10. outcome # "sent"
    BY <2>2, <2>4, OutsideNow
  <2>11. /\ base <= Len(file') /\ contacted' \in BOOLEAN
         /\ toServer' \in Seq(0..(WireNumbers - 1)) /\ Len(toServer') <= Capacity
    BY <1>1, <2>2, <2>6, OutsideNow
  <2>. QED
    BY <1>1, <1>3, <2>6, <2>7, <2>8, <2>9, <2>10, <2>11, OutsideKeeps
<1>5. CASE ~(m.op = "DATA" /\ ~Complete /\ m.wire = Wire(l + 1))
  <2>1. file' = file /\ toServer' = toServer /\ contacted' \in BOOLEAN
    BY <1>1, <1>5
  <2>2. Close(toClient', base, reading, l)
    BY <1>2, <1>3, Numbers, OutsideNow, CloseThinned
  <2>. QED
    BY <1>1, <1>3, <2>1, <2>2, Numbers, OutsideNow, OutsideKeeps
<1>. QED
  BY <1>4, <1>5

LEMMA AcksKeeps ==
  ASSUME TransferInv, ClientAcks
  PROVE  TransferInv'
<1>1. /\ Len(toServer) < Capacity /\ toServer' = Append(toServer, Wire(Len(file)))
      /\ UNCHANGED <<totalBlocks, windowsize, server, file, contacted, toClient>>
  BY DEF ClientAcks, client
<1>2. toServer' \in Seq(0..(WireNumbers - 1)) /\ Len(toServer') <= Capacity
  <2>1. Wire(Len(file)) \in 0..(WireNumbers - 1)
    BY Numbers, WireType
  <2>2. toServer' \in Seq(0..(WireNumbers - 1)) /\ Len(toServer') = Len(toServer) + 1
    BY <1>1, <2>1, OutsideNow, AppendProperties
  <2>. QED
    BY <1>1, <2>2, Numbers, OutsideNow
<1>3. Ordered(toServer', base, Len(file))
  BY <1>1, Numbers, OutsideNow, OrderedSent
<1>. QED
  BY <1>1, <1>2, <1>3, ContactedType, Numbers, OutsideNow, OutsideKeeps

LEMMA LoseKeeps ==
  ASSUME TransferInv, Lose
  PROVE  TransferInv'
<1>1. UNCHANGED <<totalBlocks, windowsize, server, file, contacted>>
  BY DEF Lose, client
<1>2. DOMAIN toClient = 1..Len(toClient) /\ DOMAIN toServer = 1..Len(toServer)
  BY OutsideNow
<1>3. ASSUME NEW i \in 1..Len(toClient), toClient' = RemoveAt(toClient, i), UNCHANGED toServer
      PROVE  TransferInv'
  <2>1. /\ toClient' \in Seq(Datagrams) /\ Len(toClient') = Len(toClient) - 1
        /\ Thinned(toClient', toClient)
    BY <1>3, OutsideNow, ThinnedRemoveAt
  <2>2. Len(toClient') \in Nat /\ Len(toClient') <= Capacity
    BY <2>1, Numbers, OutsideNow
  <2>3. Close(toClient', base, reading, Len(file))
    BY <2>1, <2>2, Numbers, OutsideNow, CloseThinned
  <2>. QED
    BY <1>1, <1>3, <2>1, <2>2, <2>3, ContactedType, Numbers, OutsideNow, OutsideKeeps
<1>4. ASSUME NEW i \in 1..Len(toServer), toServer' = RemoveAt(toServer, i), UNCHANGED toClient
      PROVE  TransferInv'
  <2>1. /\ toServer' \in Seq(0..(WireNumbers - 1)) /\ Len(toServer') = Len(toServer) - 1
        /\ Thinned(toServer', toServer)
    BY <1>4, OutsideNow, ThinnedRemoveAt
  <2>2. Len(toServer') \in Nat /\ Len(toServer') <= Capacity
    BY <2>1, Numbers, OutsideNow
  <2>3. Ordered(toServer', base, Len(file))
    BY <2>1, <2>2, Numbers, OutsideNow, OrderedThinned
  <2>. QED
    BY <1>1, <1>4, <2>1, <2>2, <2>3, ContactedType, Numbers, OutsideNow, OutsideKeeps
<1>. QED
  BY <1>2, <1>3, <1>4 DEF Lose

-----------------------------------------------------------------------------
(* A transfer begins with nothing sent, or with the first block being read. *)
LEMMA SendInitInv == SendInit => TransferInv
<1>. SUFFICES ASSUME SendInit PROVE TransferInv
  OBVIOUS
<1>1. /\ totalBlocks \in 1..MaxBlocks /\ windowsize \in 1..MAX_WINDOW_SIZE
      /\ base = 0 /\ retries = 0 /\ timer = TRUE /\ outcome = "running" /\ socketOpen = TRUE
      /\ file = <<>> /\ contacted = FALSE /\ toServer = <<>>
      /\ reading = (IF oackPending THEN 0 ELSE 1) /\ nextToSend = (IF oackPending THEN 1 ELSE 2)
      /\ toClient = (IF oackPending THEN <<OACK>> ELSE <<>>)
  BY DEF SendInit
<1>2. /\ totalBlocks \in Nat \ {0} /\ windowsize \in Nat \ {0} /\ MAX_RETRIES \in Nat /\ Capacity \in Nat \ {0}
  BY <1>1, SendAssumption, WindowFits
<1>3. {oackPending, timer, socketOpen, contacted} \subseteq BOOLEAN
  <2>1. oackPending \in BOOLEAN
    BY Zenon DEF SendInit
  <2>. QED
    BY <1>1, <2>1
<1>4. toClient \in Seq(Datagrams) /\ Len(toClient) \in {0, 1} /\ \A i \in 1..Len(toClient) : ~IsData(toClient[i])
  <2>1. OACK \in Datagrams /\ ~IsData(OACK)
    BY DEF Datagrams, OACK, IsData
  <2>2. CASE oackPending
    BY <1>1, <2>1, <2>2
  <2>3. CASE ~oackPending
    BY <1>1, <2>3
  <2>. QED
    BY <2>2, <2>3
<1>5. file \in Seq(1..totalBlocks) /\ Len(file) = 0 /\ toServer \in Seq(0..(WireNumbers - 1)) /\ Len(toServer) = 0
  BY <1>1
<1>6. reading \in 0..1 /\ nextToSend = reading + 1
  BY <1>1
<1>7. SendTypeOK
  BY <1>1, <1>2, <1>3, <1>4, <1>5, <1>6 DEF SendTypeOK
<1>8. ReadsInWindow
  BY <1>1, <1>2, <1>6 DEF ReadsInWindow
<1>9. BlocksKeepClose
  BY <1>1, <1>2, <1>4, <1>5, <1>6 DEF BlocksKeepClose, Close
<1>10. AcksInOrder
  BY <1>5 DEF AcksInOrder, Ordered
<1>11. ClientFileIsTrue /\ AckedIsReceived
  BY <1>1, <1>5 DEF ClientFileIsTrue, AckedIsReceived
<1>. QED
  BY <1>7, <1>8, <1>9, <1>10, <1>11 DEF TransferInv, SendInv

LEMMA SendStepInv == TransferInv /\ [SendNext]_sendVars => TransferInv'
<1>1. ASSUME TransferInv, UNCHANGED sendVars
      PROVE  TransferInv'
  <2>1. UNCHANGED <<totalBlocks, windowsize, server, file, contacted, toClient, toServer>>
    BY <1>1 DEF sendVars, client
  <2>. QED
    BY <1>1, <2>1, ContactedType, Numbers, OutsideNow, OutsideKeeps
<1>. QED
  BY <1>1, ReadDoneKeeps, ReadFailedKeeps, TimeoutKeeps, MessageKeeps, SocketErrorKeeps,
     ReceivesKeeps, AcksKeeps, LoseKeeps DEF SendNext

LEMMA TransferAlways == SendSpec => []TransferInv
BY SendInitInv, SendStepInv, PTL DEF SendSpec

(* What the client has is the beginning of the file, whatever is lost,      *)
(* repeated or resent and however often the numbers come round.             *)
THEOREM ACopyIsTrue == SendSpec => []SendInv
<1>1. TransferInv => SendInv
  BY DEF TransferInv
<1>. QED
  BY <1>1, TransferAlways, PTL

(* The server takes nothing for acknowledged that the client does not have, *)
(* and what it reports as sent was received in full.                        *)
THEOREM SentIsReceived == SendSpec => []AckedIsReceived
<1>1. TransferInv => AckedIsReceived
  BY DEF TransferInv
<1>. QED
  BY <1>1, TransferAlways, PTL
=============================================================================
