--------------------------- MODULE LvSplitProofs ---------------------------
(***************************************************************************)
(* Proofs about LvSplit, for any size of pages and of logical track groups *)
(* and any request: lv_workmask names the pages a request touches, the     *)
(* pieces of a request fit one logical track group, and lv_collect returns *)
(* the caller's buf at most once, when both halves are through, with what  *)
(* they have to say.                                                       *)
(***************************************************************************)
EXTENDS LvSplit, TLAPS

-----------------------------------------------------------------------------
(* Division of blocks into pages and tracks.                               *)

\* Quotient and remainder.
LEMMA DivMod ==
  ASSUME NEW a \in Int, NEW m \in Nat \ {0}
  PROVE  \E q \in Int, r \in 0 .. m - 1 : /\ q = a \div m /\ r = a % m
                                        /\ a = m * q + r
<1>1. PICK q \in Int, r \in Int : /\ q = a \div m /\ r = a % m
                                  /\ a = m * q + r /\ 0 <= r /\ r < m
  OBVIOUS
<1>2. r \in 0 .. m - 1
  BY <1>1
<1> QED
  BY <1>1, <1>2

\* There is only one of each.
LEMMA DivModUnique ==
  ASSUME NEW a \in Int, NEW m \in Nat \ {0}, NEW q \in Int, NEW r \in 0 .. m - 1,
         a = m * q + r
  PROVE  a \div m = q /\ a % m = r
<1>1. PICK d \in Int, s \in 0 .. m - 1 : d = a \div m /\ s = a % m /\ a = m * d + s
  BY DivMod
<1>2. ~(d > q)
  <2> SUFFICES ASSUME d > q PROVE FALSE
    OBVIOUS
  <2>1. PICK k \in Nat : d = q + 1 + k
    <3>1. d - (q + 1) \in Nat
      BY <1>1
    <3> QED
      BY <1>1, <3>1
  <2>2. m * d = m * q + m + m * k /\ m * k >= 0
    BY <2>1
  <2> QED
    BY <1>1, <2>2
<1>3. ~(d < q)
  <2> SUFFICES ASSUME d < q PROVE FALSE
    OBVIOUS
  <2>1. PICK k \in Nat : q = d + 1 + k
    <3>1. q - (d + 1) \in Nat
      BY <1>1
    <3> QED
      BY <1>1, <3>1
  <2>2. m * q = m * d + m + m * k /\ m * k >= 0
    BY <1>1, <2>1
  <2> QED
    BY <1>1, <2>2
<1>4. d = q
  BY <1>1, <1>2, <1>3
<1> QED
  BY <1>1, <1>4

\* Division keeps order.
LEMMA DivMonotone ==
  ASSUME NEW a \in Int, NEW b \in Int, NEW m \in Nat \ {0}, a <= b
  PROVE  a \div m <= b \div m
<1>1. PICK d \in Int, r \in 0 .. m - 1 : d = a \div m /\ a = m * d + r
  BY DivMod
<1>2. PICK e \in Int, s \in 0 .. m - 1 : e = b \div m /\ b = m * e + s
  BY DivMod
<1>3. ASSUME d > e PROVE FALSE
  <2>1. PICK k \in Nat : d = e + 1 + k
    <3>1. d - (e + 1) \in Nat
      BY <1>3
    <3> QED
      BY <3>1
  <2>2. m * d = m * e + m + m * k /\ m * k >= 0
    BY <2>1
  <2> QED
    BY <1>1, <1>2, <2>2
<1> QED
  BY <1>1, <1>2, <1>3

\* The page g of block b and its place o there, the track T of the page and its
\* place w there.
Place(b, g, o, T, w) ==
    /\ g = b \div BPPG /\ o = b % BPPG /\ b = BPPG * g + o
    /\ T = g \div PGPTRK /\ w = g % PGPTRK /\ g = PGPTRK * T + w
    /\ T = b \div BLKPTRK /\ b % BLKPTRK = BPPG * w + o

LEMMA Sizes ==
  /\ BPPG \in Nat \ {0} /\ PGPTRK \in Nat \ {0} /\ BLKPTRK \in Nat \ {0}
  /\ BLKPTRK = PGPTRK * BPPG
<1>1. BPPG \in Nat \ {0} /\ PGPTRK \in Nat \ {0} /\ BLKPTRK = PGPTRK * BPPG
  BY SplitAssumption DEF BLKPTRK
<1>2. PICK i \in Nat, j \in Nat : BPPG = i + 1 /\ PGPTRK = j + 1
  <2>1. BPPG - 1 \in Nat /\ PGPTRK - 1 \in Nat
    BY <1>1
  <2> QED
    BY <1>1, <2>1
<1>3. (j + 1) * (i + 1) = j * i + j + i + 1 /\ j * i \in Nat
  OBVIOUS
<1> QED
  BY <1>1, <1>2, <1>3

\* The quotient of a natural number is natural.
LEMMA DivNat ==
  ASSUME NEW m \in Nat \ {0}, NEW q \in Int, NEW r \in 0 .. m - 1, m * q + r \in Nat
  PROVE  q \in Nat
<1>1. ASSUME q < 0 PROVE FALSE
  <2>1. PICK k \in Nat : q = -1 - k
    <3>1. -1 - q \in Nat
      BY <1>1
    <3> QED
      BY <3>1
  <2>2. m * q = - m - m * k /\ m * k \in Nat
    BY <2>1
  <2> QED
    BY <2>2
<1> QED
  BY <1>1

LEMMA Places ==
  ASSUME NEW b \in Nat
  PROVE  \E g \in Nat, o \in 0 .. BPPG - 1, T \in Nat, w \in 0 .. PGPTRK - 1 :
            Place(b, g, o, T, w)
<1>1. BPPG \in Nat \ {0} /\ PGPTRK \in Nat \ {0} /\ BLKPTRK \in Nat \ {0}
      /\ BLKPTRK = PGPTRK * BPPG
  BY Sizes
<1>2. PICK g \in Int, o \in 0 .. BPPG - 1 :
         g = b \div BPPG /\ o = b % BPPG /\ b = BPPG * g + o
  BY <1>1, DivMod
<1>3. PICK T \in Int, w \in 0 .. PGPTRK - 1 :
         T = g \div PGPTRK /\ w = g % PGPTRK /\ g = PGPTRK * T + w
  BY <1>1, DivMod
<1>4. b = BLKPTRK * T + (BPPG * w + o)
  <2>1. BPPG * (PGPTRK * T + w) = (PGPTRK * BPPG) * T + BPPG * w
    BY <1>1
  <2>2. b = (PGPTRK * BPPG) * T + BPPG * w + o
    BY <1>2, <1>3, <2>1
  <2>3. (PGPTRK * BPPG) * T \in Int /\ BPPG * w \in Int
    BY <1>1
  <2> QED
    BY <1>1, <2>2, <2>3
<1>5. BPPG * w + o \in 0 .. BLKPTRK - 1
  <2>1. PICK k \in Nat : PGPTRK = w + 1 + k
    <3>1. PGPTRK - (w + 1) \in Nat
      BY <1>1
    <3> QED
      BY <1>1, <3>1
  <2>2. PGPTRK * BPPG = BPPG * w + BPPG + BPPG * k /\ BPPG * k \in Nat /\ BPPG * w \in Nat
    BY <1>1, <2>1
  <2> QED
    BY <1>1, <2>2
<1>6. b \div BLKPTRK = T /\ b % BLKPTRK = BPPG * w + o
  BY <1>1, <1>4, <1>5, DivModUnique
<1>7. g \in Nat
  BY <1>1, <1>2, DivNat
<1>8. T \in Nat
  BY <1>1, <1>3, <1>7, DivNat
<1> QED
  BY <1>2, <1>3, <1>6, <1>7, <1>8 DEF Place

-----------------------------------------------------------------------------
(* Words.                                                                  *)

\* Small numbers fit a word.
LEMMA SmallWord ==
  ASSUME NEW a \in Nat, Word \in Int, a < Word
  PROVE  Unsigned(a) = a
<1>1. Word \in Nat \ {0} /\ a = Word * 0 + a /\ a \in 0 .. Word - 1
  OBVIOUS
<1> QED
  BY <1>1, DivModUnique DEF Unsigned

\* A quotient is no larger than what is divided.
LEMMA DivSmaller ==
  ASSUME NEW a \in Nat, NEW m \in Nat \ {0}
  PROVE  a \div m \in Nat /\ a \div m <= a
<1>1. PICK q \in Int, r \in 0 .. m - 1 : q = a \div m /\ a = m * q + r
  BY DivMod
<1>2. q \in Nat
  BY <1>1, DivNat
<1>3. PICK k \in Nat : m = k + 1
  <2>1. m - 1 \in Nat
    OBVIOUS
  <2> QED
    BY <2>1
<1>4. (k + 1) * q = k * q + q /\ k * q \in Nat
  BY <1>2
<1> QED
  BY <1>1, <1>2, <1>3, <1>4

LEMMA BlocksOfBytes ==
  ASSUME NEW m \in Nat, Word \in Int, m < Word
  PROVE  BYTE2BLK(m) \in Nat /\ BYTE2BLK(m) = m \div 2
<1>1. BYTE2BLK(m) = m \div 2
  BY SmallWord DEF BYTE2BLK, DEV_BSIZE
<1> QED
  BY <1>1, DivSmaller

LEMMA PageOfBlock ==
  ASSUME NEW c \in Nat, Word \in Int, c < Word
  PROVE  BLK2PG(c) = c \div BPPG /\ BLK2PG(c) \in Nat /\ BLK2PG(c) <= c
<1>1. BLK2PG(c) = c \div BPPG
  BY SmallWord DEF BLK2PG
<1> QED
  BY <1>1, DivSmaller, Sizes

-----------------------------------------------------------------------------
(* Requests of n blocks from b on, as far as words reach.                  *)

Reaches(b, n) == b \in Nat /\ n \in Nat \ {0} /\ Word \in Int /\ b + n < Word

\* Pages are counted right, from that of the first block to that of the last.
LEMMA PageCount ==
  ASSUME NEW b, NEW n, Reaches(b, n)
  PROVE  /\ PageInTrk(b) = (b \div BPPG) % PGPTRK
         /\ PagesSpanned(BlkInPage(b), n) = (b + n - 1) \div BPPG - b \div BPPG + 1
<1> USE DEF Reaches
<1>1. PICK g \in Nat, o \in 0 .. BPPG - 1, T \in Nat, w \in 0 .. PGPTRK - 1 :
         Place(b, g, o, T, w)
  BY Places
<1>2. b + n - 1 \in Nat
  OBVIOUS
<1>3. PICK g2 \in Nat, o2 \in 0 .. BPPG - 1, T2 \in Nat, w2 \in 0 .. PGPTRK - 1 :
         Place(b + n - 1, g2, o2, T2, w2)
  BY <1>2, Places
<1>4. o \in Nat /\ o <= b
  BY <1>1, Sizes DEF Place
<1>5. o + n - 1 = BPPG * (g2 - g) + o2
  <2>1. BPPG * (g2 - g) = BPPG * g2 - BPPG * g
    BY Sizes
  <2>2. b = BPPG * g + o /\ b + n - 1 = BPPG * g2 + o2
    BY <1>1, <1>3 DEF Place
  <2>3. BPPG * g2 \in Int /\ BPPG * g \in Int
    BY Sizes
  <2> QED
    BY <2>1, <2>2, <2>3
<1>6. (o + n - 1) \div BPPG = g2 - g
  <2>1. o + n - 1 \in Int /\ g2 - g \in Int
    BY <1>4
  <2> QED
    BY <1>5, <2>1, Sizes, DivModUnique
<1>7. o + n - 1 \in Nat /\ o + n - 1 < Word
  BY <1>4
<1>8. BLK2PG(o + n - 1) = g2 - g /\ g2 - g \in Nat /\ g2 - g <= o + n - 1
  BY <1>6, <1>7, PageOfBlock
<1>9. Unsigned(g2 - g + 1) = g2 - g + 1
  <2>1. g2 - g + 1 \in Nat /\ g2 - g + 1 < Word
    BY <1>4, <1>8
  <2> QED
    BY <2>1, SmallWord
<1>10. BlkInPage(b) = o /\ g = b \div BPPG /\ g2 = (b + n - 1) \div BPPG
  BY <1>1, <1>3 DEF Place, BlkInPage
<1>11. PageInTrk(b) = (b \div BPPG) % PGPTRK
  BY PageOfBlock DEF PageInTrk
<1> QED
  BY <1>8, <1>9, <1>10, <1>11 DEF PagesSpanned

\* A request leaves its LTG in pages when its last block does.
LEMMA LeavesTrack ==
  ASSUME NEW b, NEW n, Reaches(b, n)
  PROVE  PageInTrk(b) + PagesSpanned(BlkInPage(b), n) > PGPTRK
            <=> b \div BLKPTRK # (b + n - 1) \div BLKPTRK
<1> USE DEF Reaches
<1>1. PICK g \in Nat, o \in 0 .. BPPG - 1, T \in Nat, w \in 0 .. PGPTRK - 1 :
         Place(b, g, o, T, w)
  BY Places
<1>2. b + n - 1 \in Nat
  OBVIOUS
<1>3. PICK g2 \in Nat, o2 \in 0 .. BPPG - 1, T2 \in Nat, w2 \in 0 .. PGPTRK - 1 :
         Place(b + n - 1, g2, o2, T2, w2)
  BY <1>2, Places
<1>4. PageInTrk(b) = w /\ PagesSpanned(BlkInPage(b), n) = g2 - g + 1
  BY <1>1, <1>3, PageCount DEF Place
<1>5. T = b \div BLKPTRK /\ T2 = (b + n - 1) \div BLKPTRK /\ T <= T2
  <2>1. b \div BLKPTRK <= (b + n - 1) \div BLKPTRK
    BY <1>2, Sizes, DivMonotone
  <2> QED
    BY <1>1, <1>3, <2>1 DEF Place
<1>6. g = PGPTRK * T + w /\ g2 = PGPTRK * T2 + w2 /\ PGPTRK \in Nat \ {0}
  BY <1>1, <1>3, Sizes DEF Place
<1>7. PICK k \in Nat : T2 = T + k
  <2>1. T2 - T \in Nat
    BY <1>5
  <2> QED
    BY <2>1
<1>8. PGPTRK * T2 = PGPTRK * T + PGPTRK * k /\ PGPTRK * k \in Nat /\ PGPTRK * T \in Nat
  BY <1>6, <1>7
<1>9. w + (g2 - g + 1) = PGPTRK * k + w2 + 1
  BY <1>6, <1>8
<1>10. CASE k = 0
  <2>1. PGPTRK * k = 0
    BY <1>6, <1>10
  <2> QED
    BY <1>4, <1>5, <1>6, <1>7, <1>9, <1>10, <2>1
<1>11. CASE k # 0
  <2>1. PICK j \in Nat : k = j + 1
    <3>1. k - 1 \in Nat
      BY <1>11
    <3> QED
      BY <3>1
  <2>2. PGPTRK * k = PGPTRK + PGPTRK * j /\ PGPTRK * j \in Nat
    BY <1>6, <2>1
  <2> QED
    BY <1>4, <1>5, <1>6, <1>7, <1>9, <1>11, <2>2
<1> QED
  BY <1>10, <1>11

\* In one LTG, the pages counted are those of the blocks.
LEMMA PagesExact ==
  ASSUME NEW b, NEW n, Reaches(b, n), b \div BLKPTRK = (b + n - 1) \div BLKPTRK
  PROVE  LET pct == PagesSpanned(BlkInPage(b), n)
             pwt == PageInTrk(b)
         IN  pwt .. pwt + pct - 1 = PagesOf(b, n)
<1> USE DEF Reaches
<1>1. PICK g \in Nat, o \in 0 .. BPPG - 1, T \in Nat, w \in 0 .. PGPTRK - 1 :
         Place(b, g, o, T, w)
  BY Places
<1>2. b + n - 1 \in Nat
  OBVIOUS
<1>3. PICK g2 \in Nat, o2 \in 0 .. BPPG - 1, T2 \in Nat, w2 \in 0 .. PGPTRK - 1 :
         Place(b + n - 1, g2, o2, T2, w2)
  BY <1>2, Places
<1>4. PageInTrk(b) = w /\ PagesSpanned(BlkInPage(b), n) = g2 - g + 1
  BY <1>1, <1>3, PageCount DEF Place
<1>5. T2 = T
  BY <1>1, <1>3 DEF Place
<1>6. /\ g = PGPTRK * T + w /\ g2 = PGPTRK * T + w2 /\ PGPTRK * T \in Nat
      /\ b = BPPG * g + o /\ b + n - 1 = BPPG * g2 + o2
      /\ BPPG \in Nat \ {0} /\ PGPTRK \in Nat \ {0}
  <2>1. /\ g = PGPTRK * T + w /\ b = BPPG * g + o
    BY <1>1 DEF Place
  <2>2. g2 = PGPTRK * T + w2 /\ b + n - 1 = BPPG * g2 + o2
    BY <1>3, <1>5 DEF Place
  <2>3. BPPG \in Nat \ {0} /\ PGPTRK \in Nat \ {0}
    BY Sizes
  <2>4. PGPTRK * T \in Nat
    BY <2>3
  <2> QED
    BY <2>1, <2>2, <2>3, <2>4
<1>7. ASSUME NEW c \in b .. b + n - 1
      PROVE  (c \div BPPG) % PGPTRK \in w .. w2
  <2>1. c \in Nat /\ b <= c /\ c <= b + n - 1
    BY <1>2
  <2>2. PICK h \in Nat, i \in 0 .. BPPG - 1, U \in Nat, v \in 0 .. PGPTRK - 1 :
           Place(c, h, i, U, v)
    BY <2>1, Places
  <2>3. h = c \div BPPG /\ v = h % PGPTRK
    BY <2>2 DEF Place
  <2>4. g <= h /\ h <= g2
    <3>1. g = b \div BPPG /\ g2 = (b + n - 1) \div BPPG
      BY <1>1, <1>3 DEF Place
    <3>2. b \div BPPG <= c \div BPPG /\ c \div BPPG <= (b + n - 1) \div BPPG
      BY <1>2, <1>6, <2>1, DivMonotone
    <3> QED
      BY <2>3, <3>1, <3>2
  <2>5. h - PGPTRK * T \in 0 .. PGPTRK - 1 /\ h = PGPTRK * T + (h - PGPTRK * T)
    BY <1>6, <2>4
  <2>6. h % PGPTRK = h - PGPTRK * T
    <3>1. h \in Int /\ PGPTRK \in Nat \ {0} /\ T \in Int
      BY <1>6
    <3> QED
      BY <2>5, <3>1, DivModUnique
  <2> QED
    BY <1>6, <2>3, <2>4, <2>6
<1>8. ASSUME NEW j \in w .. w2
      PROVE  \E c \in b .. b + n - 1 : j = (c \div BPPG) % PGPTRK
  <2>1. j \in 0 .. PGPTRK - 1
    BY <1>6
  <2>2. CASE j = w
    <3>1. b \in b .. b + n - 1
      BY <1>2
    <3>2. w = (b \div BPPG) % PGPTRK
      BY <1>1 DEF Place
    <3> QED
      BY <2>2, <3>1, <3>2
  <2>3. CASE j > w
    <3> DEFINE h == PGPTRK * T + j
    <3>1. h \in Nat /\ g + 1 <= h /\ h <= g2
      BY <1>6, <2>1, <2>3
    <3>2. h % PGPTRK = j
      BY <1>6, <2>1, <3>1, DivModUnique
    <3> HIDE DEF h
    <3>3. PICK x \in Nat, y \in Nat : h = g + 1 + x /\ g2 = h + y
      <4>1. h - (g + 1) \in Nat /\ g2 - h \in Nat
        BY <3>1
      <4> QED
        BY <3>1, <4>1
    <3>4. /\ BPPG * h = BPPG * g + BPPG + BPPG * x /\ BPPG * x \in Nat
          /\ BPPG * g2 = BPPG * h + BPPG * y /\ BPPG * y \in Nat
          /\ BPPG * g \in Nat /\ BPPG * h \in Nat
      BY <1>6, <3>1, <3>3
    <3>5. BPPG * h \in b .. b + n - 1
      BY <1>6, <3>4
    <3>6. (BPPG * h) \div BPPG = h
      <4>1. BPPG * h = BPPG * h + 0 /\ 0 \in 0 .. BPPG - 1 /\ BPPG * h \in Int
        BY <1>6, <3>4
      <4> QED
        BY <1>6, <3>1, <4>1, DivModUnique
    <3> QED
      BY <3>2, <3>5, <3>6
  <2> QED
    BY <2>1, <2>2, <2>3
<1>9. w + (g2 - g + 1) - 1 = w2
  BY <1>6
<1>10. PagesOf(b, n) = w .. w2
  BY <1>7, <1>8 DEF PagesOf
<1> QED
  BY <1>4, <1>9, <1>10

-----------------------------------------------------------------------------
(* lv_workmask, lv_minphys and the head of lv_strategy.                    *)

\* lv_workmask of whole blocks.
LEMMA WorkmaskOfBlocks ==
  ASSUME NEW b, NEW n, Reaches(b, n), 2 * n < Word
  PROVE  /\ (2 * n) % DEV_BSIZE = 0 /\ (2 * n) \div DEV_BSIZE = n
         /\ Workmask(b, 2 * n).error <=> b \div BLKPTRK # (b + n - 1) \div BLKPTRK
         /\ Rejected(b, 2 * n) <=> b \div BLKPTRK # (b + n - 1) \div BLKPTRK
         /\ ~Rejected(b, 2 * n) => Workmask(b, 2 * n).pages = PagesOf(b, n)
<1>1. n \in Nat \ {0} /\ 2 * n \in Nat /\ 2 * n = 2 * n + 0
  BY DEF Reaches
<1>2. (2 * n) % 2 = 0 /\ (2 * n) \div 2 = n
  BY <1>1, DivModUnique
<1>3. BYTE2BLK(2 * n) = n
  BY <1>1, <1>2, BlocksOfBytes DEF Reaches
<1>4. Workmask(b, 2 * n).error <=> b \div BLKPTRK # (b + n - 1) \div BLKPTRK
  BY <1>3, LeavesTrack DEF Workmask
<1>5. b \div BLKPTRK = (b + n - 1) \div BLKPTRK
        => Workmask(b, 2 * n).pages = PagesOf(b, n)
  BY <1>3, PagesExact DEF Workmask
<1> QED
  BY <1>2, <1>4, <1>5 DEF Rejected, DEV_BSIZE

\* The caller's requests reach no further than a word.
LEMMA RequestReaches ==
  ASSUME NEW b \in Starts, NEW n \in 0 .. MaxBytes
  PROVE  /\ b \in Nat /\ n \in Nat /\ n < Word /\ Word \in Int
         /\ 2 * (b + BLKPTRK + MaxBytes) < Word /\ MaxBytes \in Nat
         /\ BYTE2BLK(n) = n \div 2 /\ n \div 2 \in Nat /\ n \div 2 <= n
         /\ n \div 2 # 0 => Reaches(b, n \div 2)
<1>1. /\ b \in Nat /\ n \in Nat /\ MaxBytes \in Nat /\ n <= MaxBytes /\ Word \in Int
      /\ 2 * (b + BLKPTRK + MaxBytes) < Word /\ BLKPTRK \in Nat
  BY SplitAssumption, Sizes DEF DEV_BSIZE
<1>2. n < Word
  BY <1>1
<1>3. BYTE2BLK(n) = n \div 2
  BY <1>1, <1>2, BlocksOfBytes
<1>4. n \div 2 \in Nat /\ n \div 2 <= n
  BY <1>1, DivSmaller
<1> QED
  BY <1>1, <1>2, <1>3, <1>4 DEF Reaches

\* lv_strategy splits the requests whose blocks do not lie in one LTG.
LEMMA SplitWhenCrossing ==
  ASSUME NEW b \in Starts, NEW n \in 0 .. MaxBytes
  PROVE  Misaligned(b, n) <=>
            /\ n \div 2 # 0
            /\ b \div BLKPTRK # (b + n \div 2 - 1) \div BLKPTRK
<1> DEFINE m == n \div 2
<1>1. b \in Nat /\ m \in Nat /\ BYTE2BLK(n) = m /\ (m # 0 => Reaches(b, m))
  BY RequestReaches
<1>2. CASE m # 0
  BY <1>1, <1>2, LeavesTrack DEF Misaligned
<1>3. CASE m = 0
  <2>1. PICK g \in Nat, o \in 0 .. BPPG - 1, T \in Nat, w \in 0 .. PGPTRK - 1 :
           Place(b, g, o, T, w)
    BY RequestReaches, Places
  <2>2. o = BlkInPage(b) /\ o \in Nat /\ o <= b /\ b \in Nat /\ g \in Nat
    BY <2>1, Sizes, RequestReaches DEF Place, BlkInPage
  <2>3. /\ Word \in Int /\ b < Word /\ o < Word /\ BPPG \in Nat \ {0}
        /\ PGPTRK \in Nat \ {0}
    BY <2>2, Sizes, RequestReaches
  <2>4. BLK2PG(o) = o \div BPPG
    BY <2>2, <2>3, PageOfBlock
  <2>5. o \div BPPG = 0
    <3>1. o = BPPG * 0 + o /\ o \in Int
      BY <2>2, <2>3
    <3> QED
      BY <2>1, <2>3, <3>1, DivModUnique, SMTT(40), ZenonT(20)
  <2>6. PageInTrk(b) = w
    <3>1. BLK2PG(b) = g
      BY <2>1, <2>2, <2>3, PageOfBlock DEF Place
    <3> QED
      BY <2>1, <3>1 DEF PageInTrk, Place
  <2>7. Misaligned(b, n) <=> w + 0 > PGPTRK
    BY <1>1, <1>3, <2>2, <2>4, <2>5, <2>6 DEF Misaligned
  <2> QED
    BY <1>3, <2>1, <2>3, <2>7
<1> QED
  BY <1>2, <1>3

\* The length of the first half: to the end of the LTG, and as many blocks more as
\* the request starts after the beginning of its page.
LEMMA FirstHalfLength ==
  ASSUME NEW b \in Starts
  PROVE  \E k \in Nat \ {0} :
            /\ FirstHalf(b) = 2 * k /\ BYTE2BLK(FirstHalf(b)) = k
            /\ k = BLKPTRK - (b % BLKPTRK) + 2 * BlkInPage(b)
            /\ Reaches(b, k) /\ 2 * k < Word
<1>1. PICK g \in Nat, o \in 0 .. BPPG - 1, T \in Nat, w \in 0 .. PGPTRK - 1 :
         Place(b, g, o, T, w)
  BY SplitAssumption, Places
<1>2. /\ b \in Nat /\ MaxBytes \in Nat /\ Word \in Int /\ BPPG \in Nat \ {0}
      /\ PGPTRK \in Nat \ {0} /\ BLKPTRK \in Nat \ {0} /\ BLKPTRK = PGPTRK * BPPG
      /\ 2 * (b + BLKPTRK + MaxBytes) < Word
  BY SplitAssumption, Sizes DEF DEV_BSIZE
<1>3. /\ BlkInPage(b) = o /\ b = BPPG * g + o /\ b \div BPPG = g /\ g % PGPTRK = w
      /\ b % BLKPTRK = BPPG * w + o
  BY <1>1 DEF Place, BlkInPage
<1>4. b < Word /\ BPPG * g \in Nat /\ o <= b
  BY <1>2, <1>3
<1>5. PageInTrk(b) = w
  <2>1. BLK2PG(b) = g
    BY <1>2, <1>3, <1>4, PageOfBlock
  <2> QED
    BY <1>3, <2>1 DEF PageInTrk
<1>6. PICK j \in Nat \ {0} : PGPTRK = w + j
  <2>1. PGPTRK - w \in Nat \ {0}
    BY <1>2
  <2> QED
    BY <1>2, <2>1
<1>7. /\ PGPTRK * BPPG = BPPG * w + j * BPPG /\ j * BPPG \in Nat /\ BPPG * w \in Nat
  BY <1>2, <1>6
<1>8. j * BPPG # 0
  <2>1. PICK i \in Nat : j = i + 1
    <3>1. j - 1 \in Nat
      BY <1>6
    <3> QED
      BY <3>1
  <2>2. (i + 1) * BPPG = i * BPPG + BPPG /\ i * BPPG \in Nat
    BY <1>2
  <2> QED
    BY <1>2, <2>1, <2>2
<1> DEFINE k == j * BPPG + o
<1>9. k \in Nat \ {0} /\ k = BLKPTRK - (b % BLKPTRK) + 2 * o
  <2>1. PICK x \in Nat \ {0}, y \in Nat, z \in Int, c \in Nat :
           /\ x = j * BPPG /\ y = BPPG * w /\ c = BLKPTRK /\ z = b % BLKPTRK
           /\ c = y + x /\ z = y + o
    BY <1>2, <1>3, <1>7, <1>8
  <2>2. o \in Nat /\ x + o \in Nat \ {0} /\ c - z + 2 * o = x + o
    BY <1>2, <2>1
  <2>3. k = x + o
    BY <2>1
  <2>4. BLKPTRK - (b % BLKPTRK) + 2 * o = x + o
    BY <2>1, <2>2
  <2> QED
    BY <2>2, <2>3, <2>4
<1>10. FirstHalf(b) = 2 * k
  <2>1. PGPTRK - PageInTrk(b) = j
    BY <1>2, <1>5, <1>6
  <2> QED
    BY <1>3, <1>7, <1>9, <2>1 DEF FirstHalf, DEV_BSIZE
<1>11. 2 * k < Word /\ b + k < Word
  BY <1>2, <1>4, <1>7, <1>9
<1> HIDE DEF k
<1>12. BYTE2BLK(2 * k) = k
  <2>1. (2 * k) \div 2 = k
    <3>1. 2 * k = 2 * k + 0 /\ 2 * k \in Int /\ k \in Int
      BY <1>9
    <3> QED
      BY <3>1, DivModUnique
  <2> QED
    BY <1>2, <1>9, <1>11, <2>1, BlocksOfBytes
<1> QED
  BY <1>2, <1>3, <1>9, <1>10, <1>11, <1>12 DEF Reaches

\* lv_minphys shortens a request, to one that lies in one LTG.
LEMMA MinphysFits ==
  ASSUME NEW b \in Starts, NEW n \in 0 .. MaxBytes
  PROVE  /\ Minphys(b, n) \in 0 .. MaxBytes
         /\ Minphys(b, n) % DEV_BSIZE = 0 /\ Minphys(b, n) > 0
              => ~Misaligned(b, Minphys(b, n)) /\ ~Rejected(b, Minphys(b, n))
<1> DEFINE m == n \div 2
           r == b % BLKPTRK
<1>1. PICK T \in Int, s \in 0 .. BLKPTRK - 1 :
         T = b \div BLKPTRK /\ s = b % BLKPTRK /\ b = BLKPTRK * T + s
  <2>1. b \in Int /\ BLKPTRK \in Nat \ {0}
    BY Sizes, RequestReaches
  <2> QED
    BY <2>1, DivMod
<1>2. /\ b \in Nat /\ n \in Nat /\ n < Word /\ Word \in Int /\ n <= MaxBytes
      /\ 2 * (b + BLKPTRK + MaxBytes) < Word /\ MaxBytes \in Nat
      /\ BYTE2BLK(n) = m /\ m \in Nat /\ BLKPTRK \in Nat \ {0}
  BY RequestReaches, Sizes
<1>3. PICK q \in Int, e \in 0 .. 1 : q = n \div 2 /\ e = n % 2 /\ n = 2 * q + e
  BY <1>2, DivMod
<1>4. Minphys(b, n) = IF e = 0 /\ s + q - 1 >= BLKPTRK THEN (BLKPTRK - s) * 2 ELSE n
  BY <1>1, <1>2, <1>3 DEF Minphys, DEV_BSIZE
<1>5. Minphys(b, n) \in 0 .. MaxBytes
  BY <1>1, <1>2, <1>3, <1>4
<1>6. ASSUME Minphys(b, n) % DEV_BSIZE = 0, Minphys(b, n) > 0
      PROVE  ~Misaligned(b, Minphys(b, n)) /\ ~Rejected(b, Minphys(b, n))
  <2>1. PICK k \in Nat \ {0} : Minphys(b, n) = 2 * k /\ s + k - 1 < BLKPTRK
    <3>1. CASE e = 0 /\ s + q - 1 >= BLKPTRK
      <4>1. BLKPTRK - s \in Nat \ {0} /\ Minphys(b, n) = 2 * (BLKPTRK - s)
        BY <1>1, <1>2, <1>4, <3>1
      <4>2. s + (BLKPTRK - s) - 1 < BLKPTRK
        BY <1>1, <1>2
      <4> QED
        BY <4>1, <4>2
    <3>2. CASE ~(e = 0 /\ s + q - 1 >= BLKPTRK)
      <4>1. e = 0
        BY <1>3, <1>4, <1>6, <3>2 DEF DEV_BSIZE
      <4>2. q \in Nat \ {0} /\ Minphys(b, n) = 2 * q /\ s + q - 1 < BLKPTRK
        BY <1>1, <1>2, <1>3, <1>4, <1>6, <3>2, <4>1
      <4> QED
        BY <4>2
    <3> QED
      BY <3>1, <3>2
  <2>2. (b + k - 1) \div BLKPTRK = T
    <3>1. /\ b + k - 1 = BLKPTRK * T + (s + k - 1) /\ s + k - 1 \in 0 .. BLKPTRK - 1
          /\ b + k - 1 \in Int
      BY <1>1, <1>2, <2>1
    <3> QED
      BY <1>2, <3>1, DivModUnique
  <2>3. (2 * k) \div 2 = k
    <3>1. 2 * k = 2 * k + 0 /\ 2 * k \in Int /\ k \in Int
      BY <2>1
    <3> QED
      BY <3>1, DivModUnique
  <2>4. ~Misaligned(b, 2 * k)
    BY <1>1, <1>5, <2>1, <2>2, <2>3, SplitWhenCrossing
  <2>5. Reaches(b, k) /\ 2 * k < Word
    BY <1>2, <1>5, <2>1 DEF Reaches
  <2>6. ~Rejected(b, 2 * k)
    BY <1>1, <2>2, <2>5, WorkmaskOfBlocks
  <2> QED
    BY <2>1, <2>4, <2>6
<1> QED
  BY <1>5, <1>6

-----------------------------------------------------------------------------
(* Bufs, and what the pieces of a request are.                             *)

HalfBuf == [state : States, blkno : Int, bcount : Int, forw : 0 .. 2, seen : 0 .. 2,
            error : BOOLEAN, resid : Int, sum : Int]
OrigBuf == [raw : BOOLEAN, blkno : Starts, bcount : 0 .. MaxBytes, returned : Nat,
            error : BOOLEAN, resid : Int]

BufsOK == /\ orig \in OrigBuf /\ half \in [Halves -> HalfBuf]
          /\ thread \in {"split", "link1", "link2", "done"}

\* What lv_strategy has made of the request.
Pieces ==
    LET b  == orig.blkno
        n  == orig.bcount
        n1 == FirstHalf(b)
    IN  IF thread = "split" THEN \A h \in Halves : half[h].state = "none"
        ELSE IF Misaligned(b, n)
        THEN /\ \A h \in Halves : half[h].state # "none"
             /\ half[1].blkno = b /\ half[1].bcount = n1
             /\ half[2].blkno = b + BYTE2BLK(n1) /\ half[2].bcount = n - n1
        ELSE /\ half[1].state # "none" /\ half[2].state = "none"
             /\ half[1].blkno = b /\ half[1].bcount = n

\* What is linked was not rejected, and what physio asks for was cut off.
Checked ==
    /\ \A h \in Halves :
          half[h].state = "linked" => ~Rejected(half[h].blkno, half[h].bcount)
    /\ orig.raw /\ orig.bcount % DEV_BSIZE = 0 /\ orig.bcount > 0
          => ~Misaligned(orig.blkno, orig.bcount) /\ ~Rejected(orig.blkno, orig.bcount)

PieceInv == BufsOK /\ Pieces /\ Checked

\* The bufs lv_strategy allocates.
LEMMA NewBufs ==
  /\ \A x \in Int, y \in Int : NewHalf(x, y) \in HalfBuf
  /\ NoHalf \in HalfBuf /\ NoHalf.state = "none" /\ NoHalf.forw = NoBuf
<1>1. \A x \in Int, y \in Int : NewHalf(x, y) \in HalfBuf
  BY DEF NewHalf, HalfBuf, States, NoBuf
<1>2. NewHalf(0, 0) \in HalfBuf /\ NewHalf(0, 0).forw = NoBuf
  BY <1>1 DEF NewHalf
<1> QED
  BY <1>1, <1>2 DEF NoHalf, HalfBuf, States

\* biodone writes the flags and counts of the caller's buf only.
LEMMA BiodoneWrites ==
  ASSUME orig \in OrigBuf, NEW e \in BOOLEAN, NEW r \in Int, Biodone(e, r)
  PROVE  /\ orig' \in OrigBuf
         /\ orig'.raw = orig.raw /\ orig'.blkno = orig.blkno
         /\ orig'.bcount = orig.bcount /\ orig'.returned = orig.returned + 1
         /\ orig'.error = e /\ orig'.resid = r
<1>1. orig.returned + 1 \in Nat
  BY DEF OrigBuf
<1> QED
  BY <1>1 DEF Biodone, OrigBuf

LEMMA PieceInit == Init => PieceInv
<1> SUFFICES ASSUME Init PROVE PieceInv
  OBVIOUS
<1>1. PICK b \in Starts, n \in 0 .. MaxBytes, raw \in Raw :
         orig = [raw |-> raw, blkno |-> b, bcount |-> IF raw THEN Minphys(b, n) ELSE n,
                 returned |-> 0, error |-> FALSE, resid |-> 0]
  BY DEF Init
<1>2. /\ raw \in BOOLEAN /\ orig.raw = raw /\ orig.blkno = b
      /\ orig.bcount = IF raw THEN Minphys(b, n) ELSE n
  BY <1>1, SplitAssumption
<1>3. /\ Minphys(b, n) \in 0 .. MaxBytes
      /\ Minphys(b, n) % DEV_BSIZE = 0 /\ Minphys(b, n) > 0
           => ~Misaligned(b, Minphys(b, n)) /\ ~Rejected(b, Minphys(b, n))
  BY MinphysFits
<1>4. NoHalf \in HalfBuf /\ NoHalf.state = "none"
  BY NewBufs
<1>5. /\ half \in [Halves -> HalfBuf] /\ thread = "split"
      /\ \A h \in Halves : half[h].state = "none"
  BY <1>4 DEF Init
<1>6. orig \in OrigBuf
  BY <1>1, <1>2, <1>3 DEF OrigBuf
<1> QED
  BY <1>2, <1>3, <1>5, <1>6 DEF PieceInv, BufsOK, Pieces, Checked

\* What a half may do: everything but Split.
Piece(h) == \/ Link(h) \/ Complete(h)
            \/ CollectRead(h) \/ CollectLoad(h) \/ CollectError(h) \/ CollectFree(h)

\* The states of a half change, not its blocks; what is linked was checked.
LEMMA PieceSteps ==
  ASSUME BufsOK, NEW h \in Halves, Piece(h)
  PROVE  /\ BufsOK'
         /\ UNCHANGED <<orig.raw, orig.blkno, orig.bcount>>
         /\ thread # "split" => thread' # "split"
         /\ \A g \in Halves :
               /\ half'[g].blkno = half[g].blkno /\ half'[g].bcount = half[g].bcount
               /\ half'[g].state = "none" <=> half[g].state = "none"
               /\ half'[g].state = "linked" /\ half[g].state # "linked"
                    => ~Rejected(half[g].blkno, half[g].bcount)
<1> USE DEF BufsOK, HalfBuf, OrigBuf, States, Halves, Other, NoBuf
<1>1. ASSUME NEW g \in Halves, NEW e \in BOOLEAN, NEW r \in Int, Iodone(g, e, r),
             half[g].state # "none"
      PROVE  /\ orig' \in OrigBuf /\ half' \in [Halves -> HalfBuf]
             /\ UNCHANGED <<orig.raw, orig.blkno, orig.bcount>>
             /\ \A f \in Halves :
               /\ half'[f].blkno = half[f].blkno /\ half'[f].bcount = half[f].bcount
               /\ half'[f].state = "none" <=> half[f].state = "none"
               /\ half'[f].state # half[f].state => half'[f].state # "linked"
  <2>1. CASE IsSplit
    <3>1. orig' = orig /\ half' = [half EXCEPT ![g].state = "collect", ![g].error = e,
                                              ![g].resid = r]
      BY <1>1, <2>1 DEF Iodone
    <3> QED
      BY <1>1, <3>1
  <2>2. CASE ~IsSplit
    <3>1. half' = [half EXCEPT ![g].state = "gone"] /\ Biodone(e, r)
      BY <1>1, <2>2 DEF Iodone
    <3>2. orig' \in OrigBuf /\ UNCHANGED <<orig.raw, orig.blkno, orig.bcount>>
      BY <3>1, BiodoneWrites
    <3> QED
      BY <1>1, <3>1, <3>2
  <2> QED
    BY <2>1, <2>2
<1>2. CASE Link(h)
  <2>1. thread' \in {"link2", "done"}
    BY <1>2 DEF Link
  <2>2. CASE Rejected(half[h].blkno, half[h].bcount)
    BY <1>1, <1>2, <2>1, <2>2 DEF Link
  <2>3. CASE ~Rejected(half[h].blkno, half[h].bcount)
    BY <1>2, <2>1, <2>3 DEF Link
  <2> QED
    BY <2>2, <2>3
<1>3. CASE Complete(h)
  <2>1. PICK e \in BOOLEAN, r \in {0, half[h].bcount} : Iodone(h, e, r)
    BY <1>3 DEF Complete
  <2>2. r \in Int /\ half[h].state = "linked" /\ thread' = thread
    BY <1>3 DEF Complete
  <2> QED
    BY <1>1, <2>1, <2>2
<1>4. CASE CollectRead(h)
  BY <1>4 DEF CollectRead
<1>5. CASE CollectLoad(h)
  BY <1>5 DEF CollectLoad
<1>6. CASE CollectError(h)
  BY <1>6, SMTT(10), ZenonT(60) DEF CollectError
<1>7. CASE CollectFree(h)
  <2>1. orig' \in OrigBuf /\ UNCHANGED <<orig.raw, orig.blkno, orig.bcount>>
    <3>1. CASE half[h].seen = NoBuf
      <4>1. Biodone(orig.error, orig.resid) /\ orig.error \in BOOLEAN /\ orig.resid \in Int
        BY <1>7, <3>1 DEF CollectFree
      <4> QED
        BY <4>1, BiodoneWrites
    <3>2. CASE half[h].seen # NoBuf
      BY <1>7, <3>2 DEF CollectFree
    <3> QED
      BY <3>1, <3>2
  <2>2. /\ half[h].state = "added" /\ thread' = thread
        /\ half' = [g \in Halves |->
             IF g = h THEN [half[g] EXCEPT !.state = "gone"]
             ELSE IF g = half[h].seen THEN [half[g] EXCEPT !.forw = NoBuf]
             ELSE half[g]]
    BY <1>7 DEF CollectFree
  <2>3. \A g \in Halves :
           /\ half'[g] \in HalfBuf
           /\ half'[g].blkno = half[g].blkno /\ half'[g].bcount = half[g].bcount
           /\ half'[g].state = IF g = h THEN "gone" ELSE half[g].state
    BY <2>2
  <2> QED
    BY <2>1, <2>2, <2>3
<1> QED
  BY <1>2, <1>3, <1>4, <1>5, <1>6, <1>7 DEF Piece

\* lv_strategy splits as Pieces says.
LEMMA SplitStep ==
  ASSUME BufsOK, Split
  PROVE  /\ BufsOK' /\ Pieces' /\ orig' = orig /\ thread' = "link1"
         /\ \A h \in Halves : half'[h] = NoHalf \/ /\ half'[h].state = "new"
                                                   /\ half'[h].error = FALSE
         /\ half'[2].state # "none" => half'[1].forw = 2 /\ half'[2].forw = 1
<1> DEFINE b  == orig.blkno
           n  == orig.bcount
           n1 == FirstHalf(b)
<1>1. PICK k \in Nat \ {0} : n1 = 2 * k /\ BYTE2BLK(n1) = k
  BY FirstHalfLength DEF BufsOK, OrigBuf
<1>2. b \in Int /\ n \in Int /\ n1 \in Int /\ b + BYTE2BLK(n1) \in Int /\ n - n1 \in Int
  <2>1. b \in Nat /\ n \in Int
    <3>1. orig.blkno \in Starts /\ orig.bcount \in 0 .. MaxBytes
      BY DEF BufsOK, OrigBuf
    <3> QED
      BY <3>1, RequestReaches
  <2> HIDE DEF b, n, n1
  <2> QED
    BY <1>1, <2>1
<1>3. \A x \in Int, y \in Int : NewHalf(x, y) \in HalfBuf
  BY NewBufs
<1>4. NoHalf \in HalfBuf /\ NoHalf.state = "none"
  BY NewBufs
<1>5. CASE Misaligned(b, n)
  <2>1. /\ half'[1] = [NewHalf(b, n1) EXCEPT !.forw = 2]
        /\ half'[2] = [NewHalf(b + BYTE2BLK(n1), n - n1) EXCEPT !.forw = 1]
        /\ thread' = "link1" /\ orig' = orig /\ half' = [h \in Halves |-> half'[h]]
    BY <1>5 DEF Split, Halves
  <2>2. half'[1] \in HalfBuf /\ half'[2] \in HalfBuf
    BY <1>2, <1>3, <2>1 DEF HalfBuf
  <2>3. /\ half'[1].state = "new" /\ half'[1].blkno = b /\ half'[1].bcount = n1
        /\ half'[1].error = FALSE /\ half'[1].forw = 2
        /\ half'[2].state = "new" /\ half'[2].blkno = b + BYTE2BLK(n1)
        /\ half'[2].bcount = n - n1 /\ half'[2].error = FALSE /\ half'[2].forw = 1
    BY <2>1 DEF NewHalf
  <2> QED
    BY <1>5, <2>1, <2>2, <2>3 DEF BufsOK, Pieces, Halves
<1>6. CASE ~Misaligned(b, n)
  <2>1. /\ half'[1] = NewHalf(b, n) /\ half'[2] = NoHalf
        /\ thread' = "link1" /\ orig' = orig /\ half' = [h \in Halves |-> half'[h]]
    BY <1>6 DEF Split, Halves
  <2>2. half'[1] \in HalfBuf /\ half'[2] \in HalfBuf
    BY <1>2, <1>3, <1>4, <2>1
  <2>3. /\ half'[1].state = "new" /\ half'[1].blkno = b /\ half'[1].bcount = n
        /\ half'[1].error = FALSE
    BY <2>1 DEF NewHalf
  <2> QED
    BY <1>4, <1>6, <2>1, <2>2, <2>3 DEF BufsOK, Pieces, Halves
<1> QED
  BY <1>5, <1>6

LEMMA PieceInductive == PieceInv /\ [Next]_vars => PieceInv'
<1> SUFFICES ASSUME PieceInv, [Next]_vars PROVE PieceInv'
  OBVIOUS
<1>1. CASE UNCHANGED vars \/ Done
  BY <1>1 DEF vars, Done, PieceInv, BufsOK, Pieces, Checked
<1>2. CASE Split
  <2>1. /\ BufsOK' /\ Pieces' /\ orig' = orig
        /\ \A h \in Halves : half'[h] = NoHalf \/ half'[h].state = "new"
    BY <1>2, SplitStep DEF PieceInv
  <2>2. \A h \in Halves : half'[h].state # "linked"
    BY <2>1 DEF NoHalf, NewHalf
  <2> QED
    BY <2>1, <2>2 DEF PieceInv, Checked
<1>3. ASSUME NEW h \in Halves, Piece(h) PROVE PieceInv'
  <2>1. /\ BufsOK'
        /\ UNCHANGED <<orig.raw, orig.blkno, orig.bcount>>
        /\ thread # "split" => thread' # "split"
        /\ \A g \in Halves :
              /\ half'[g].blkno = half[g].blkno /\ half'[g].bcount = half[g].bcount
              /\ half'[g].state = "none" <=> half[g].state = "none"
              /\ half'[g].state = "linked" /\ half[g].state # "linked"
                   => ~Rejected(half[g].blkno, half[g].bcount)
    BY <1>3, PieceSteps DEF PieceInv
  <2>2. half[h].state # "none"
    BY <1>3 DEF Piece, Link, Complete, CollectRead, CollectLoad, CollectError, CollectFree
  <2>3. thread # "split"
    BY <2>2 DEF PieceInv, Pieces
  <2>4. Pieces'
    BY <2>1, <2>3 DEF PieceInv, Pieces, Halves
  <2>5. Checked'
    BY <2>1 DEF PieceInv, Checked
  <2> QED
    BY <2>1, <2>4, <2>5 DEF PieceInv
<1> QED
  BY <1>1, <1>2, <1>3 DEF Next, Piece

-----------------------------------------------------------------------------
(* What goes on work_Q.                                                    *)

\* A piece that has blocks is a request that words reach.
LEMMA PieceReaches ==
  ASSUME PieceInv, NEW h \in Halves, half[h].state # "none",
         NEW m \in Nat \ {0}, half[h].bcount = 2 * m
  PROVE  Reaches(half[h].blkno, m) /\ 2 * m < Word
<1> DEFINE b  == orig.blkno
           n  == orig.bcount
           n1 == FirstHalf(b)
<1>1. b \in Starts /\ n \in 0 .. MaxBytes /\ thread # "split"
  BY DEF PieceInv, BufsOK, OrigBuf, Pieces
<1>2. /\ b \in Nat /\ n \in Nat /\ n <= MaxBytes /\ MaxBytes \in Nat /\ Word \in Int
      /\ 2 * (b + BLKPTRK + MaxBytes) < Word /\ BLKPTRK \in Nat
  BY <1>1, RequestReaches, Sizes
<1>3. PICK k \in Nat \ {0} :
         n1 = 2 * k /\ BYTE2BLK(n1) = k /\ Reaches(b, k) /\ 2 * k < Word
  BY <1>1, FirstHalfLength
<1> HIDE DEF b, n, n1
<1>4. CASE half[h].blkno = b /\ half[h].bcount = n
  BY <1>2, <1>4 DEF Reaches
<1>5. CASE half[h].blkno = b /\ half[h].bcount = n1
  <2>1. m = k
    BY <1>3, <1>5
  <2> QED
    BY <1>3, <1>5, <2>1
<1>6. CASE half[h].blkno = b + BYTE2BLK(n1) /\ half[h].bcount = n - n1
  <2>1. half[h].blkno = b + k /\ n = 2 * m + 2 * k
    BY <1>2, <1>3, <1>6
  <2> QED
    BY <1>2, <2>1 DEF Reaches
<1> QED
  BY <1>1, <1>4, <1>5, <1>6 DEF PieceInv, Pieces, Halves, b, n, n1

\* An even count of bytes is so many blocks.
LEMMA WholeBlocks ==
  ASSUME NEW n \in Int, n % DEV_BSIZE = 0
  PROVE  n = 2 * (n \div DEV_BSIZE) /\ n \div DEV_BSIZE \in Int
<1>1. PICK q \in Int, r \in 0 .. 1 : q = n \div 2 /\ r = n % 2 /\ n = 2 * q + r
  BY DivMod
<1> QED
  BY <1>1 DEF DEV_BSIZE

\* The blocks and the pages that lv_workmask names are those of the request.
LEMMA PiecesAreExact == PieceInv => MaskExact
<1> SUFFICES ASSUME PieceInv, NEW h \in Halves, half[h].state = "linked",
                    half[h].bcount \div DEV_BSIZE > 0
             PROVE  LET b == half[h].blkno
                        n == half[h].bcount \div DEV_BSIZE
                    IN  /\ Workmask(b, half[h].bcount).pages = PagesOf(b, n)
                        /\ b \div BLKPTRK = (b + n - 1) \div BLKPTRK
  BY DEF MaskExact, Existing
<1>1. ~Rejected(half[h].blkno, half[h].bcount) /\ half[h].bcount \in Int
  BY DEF PieceInv, Checked, BufsOK, HalfBuf
<1>2. PICK m \in Nat \ {0} : half[h].bcount = 2 * m /\ half[h].bcount \div DEV_BSIZE = m
  <2>1. half[h].bcount % DEV_BSIZE = 0
    BY <1>1 DEF Rejected
  <2> QED
    BY <1>1, <2>1, WholeBlocks
<1>3. Reaches(half[h].blkno, m) /\ 2 * m < Word
  BY <1>2, PieceReaches
<1> QED
  BY <1>1, <1>2, <1>3, WorkmaskOfBlocks

\* The halves of an aligned request that is no longer than an LTG fit one each.
LEMMA PiecesDoFit == PieceInv => PiecesFit
<1> DEFINE b  == orig.blkno
           n  == orig.bcount
           n1 == FirstHalf(b)
<1>1. PieceInv => RawFits
  <2> SUFFICES ASSUME PieceInv, orig.raw, thread # "split", n % DEV_BSIZE = 0, n > 0
               PROVE  ~IsSplit /\ ~Rejected(b, n)
    BY DEF RawFits
  <2> QED
    BY DEF PieceInv, Checked, Pieces, IsSplit
<1>2. ASSUME PieceInv, BlkInPage(b) = 0, IsSplit, n % DEV_BSIZE = 0,
             n <= BLKPTRK * DEV_BSIZE
      PROVE  \A h \in Halves : ~Rejected(half[h].blkno, half[h].bcount)
  <2>1. /\ b \in Starts /\ n \in 0 .. MaxBytes /\ Misaligned(b, n)
        /\ half[1].blkno = b /\ half[1].bcount = n1
        /\ half[2].blkno = b + BYTE2BLK(n1) /\ half[2].bcount = n - n1
        /\ half[1].state # "none" /\ half[2].state # "none"
    BY <1>2 DEF PieceInv, BufsOK, OrigBuf, Pieces, IsSplit, Halves
  <2>2. PICK m \in Int : m = n \div 2 /\ n = 2 * m
    <3>1. n \in Int
      BY <2>1, RequestReaches
    <3> QED
      BY <1>2, <3>1, WholeBlocks DEF DEV_BSIZE
  <2>3. PICK k \in Nat \ {0} :
           /\ n1 = 2 * k /\ BYTE2BLK(n1) = k /\ k = BLKPTRK - (b % BLKPTRK) + 2 * 0
    BY <1>2, <2>1, FirstHalfLength
  <2>4. PICK T \in Int, r \in 0 .. BLKPTRK - 1 :
           T = b \div BLKPTRK /\ r = b % BLKPTRK /\ b = BLKPTRK * T + r
    <3>1. b \in Int /\ BLKPTRK \in Nat \ {0}
      BY <2>1, Sizes, RequestReaches
    <3> QED
      BY <3>1, DivMod
  <2>5. /\ BLKPTRK \in Nat \ {0} /\ b \in Nat /\ m # 0 /\ m \in Nat
        /\ T # (b + m - 1) \div BLKPTRK
    <3>1. /\ m \in Nat /\ b \in Nat
      BY <2>1, <2>2, RequestReaches
    <3> QED
      BY <2>1, <2>2, <2>4, <3>1, Sizes, SplitWhenCrossing
  <2> HIDE DEF b, n, n1
  <2>6. k = BLKPTRK - r
    BY <2>3, <2>4, <2>5
  <2>7. r + m - 1 >= BLKPTRK
    <3> SUFFICES ASSUME r + m - 1 < BLKPTRK PROVE FALSE
      BY <2>4, <2>5
    <3>1. /\ b + m - 1 = BLKPTRK * T + (r + m - 1) /\ r + m - 1 \in 0 .. BLKPTRK - 1
          /\ b + m - 1 \in Int
      BY <2>4, <2>5
    <3> QED
      BY <2>5, <3>1, DivModUnique
  <2>8. PICK j \in Nat \ {0} : m = k + j /\ j <= BLKPTRK
    <3>1. m - k \in Nat \ {0} /\ m - k <= BLKPTRK
      <4>1. m <= BLKPTRK
        BY <1>2, <2>2, <2>5 DEF n, DEV_BSIZE
      <4> QED
        BY <2>3, <2>4, <2>5, <2>6, <2>7, <4>1
    <3> QED
      BY <2>3, <3>1
  <2>9. ~Rejected(b, 2 * k)
    <3>1. Reaches(b, k) /\ 2 * k < Word
      BY <1>2, <2>1, <2>3, PieceReaches DEF Halves
    <3>2. (b + k - 1) \div BLKPTRK = T
      <4>1. /\ b + k - 1 = BLKPTRK * T + (BLKPTRK - 1) /\ BLKPTRK - 1 \in 0 .. BLKPTRK - 1
            /\ b + k - 1 \in Int
        BY <2>3, <2>4, <2>5, <2>6
      <4> QED
        BY <2>5, <4>1, DivModUnique
    <3> QED
      BY <2>4, <3>1, <3>2, WorkmaskOfBlocks
  <2>10. ~Rejected(b + k, 2 * j)
    <3>1. half[2].blkno = b + k /\ half[2].bcount = 2 * j
      BY <2>1, <2>2, <2>3, <2>8
    <3>2. Reaches(b + k, j) /\ 2 * j < Word
      BY <1>2, <2>1, <3>1, PieceReaches DEF Halves
    <3>3. b + k = BLKPTRK * (T + 1) + 0
      <4>1. BLKPTRK * (T + 1) = BLKPTRK * T + BLKPTRK
        BY <2>5
      <4> QED
        BY <2>3, <2>4, <2>5, <2>6, <4>1
    <3>4. (b + k) \div BLKPTRK = T + 1
      <4>1. b + k \in Int /\ T + 1 \in Int /\ 0 \in 0 .. BLKPTRK - 1
        BY <2>3, <2>5
      <4> QED
        BY <2>5, <3>3, <4>1, DivModUnique
    <3>5. (b + k + j - 1) \div BLKPTRK = T + 1
      <4>1. BLKPTRK * (T + 1) \in Int
        BY <2>5
      <4>2. /\ b + k + j - 1 = BLKPTRK * (T + 1) + (j - 1) /\ j - 1 \in 0 .. BLKPTRK - 1
            /\ b + k + j - 1 \in Int
        BY <2>3, <2>5, <2>8, <3>3, <4>1
      <4> QED
        BY <2>5, <4>2, DivModUnique
    <3> QED
      BY <3>2, <3>4, <3>5, WorkmaskOfBlocks
  <2>11. half[1].blkno = b /\ half[1].bcount = 2 * k
         /\ half[2].blkno = b + k /\ half[2].bcount = 2 * j
    BY <2>1, <2>2, <2>3, <2>8
  <2> QED
    BY <2>9, <2>10, <2>11 DEF Halves
<1> QED
  BY <1>1, <1>2 DEF PiecesFit, AlignedHalvesFit, HalvesFit

\* A request on work_Q lies in one LTG, and its mask names exactly the pages it
\* touches (lv_workmask, lv_block).
THEOREM MaskIsExact == Spec => []MaskExact
<1>1. Spec => []PieceInv
  BY PieceInit, PieceInductive, PTL DEF Spec
<1> QED
  BY <1>1, PiecesAreExact, PTL

\* What lv_minphys lets through is neither split nor rejected, and the halves of an
\* aligned request no longer than an LTG are not rejected (lv_minphys, lv_strategy).
THEOREM PiecesAlwaysFit == Spec => []PiecesFit
<1>1. Spec => []PieceInv
  BY PieceInit, PieceInductive, PTL DEF Spec
<1> QED
  BY <1>1, PiecesDoFit, PTL

-----------------------------------------------------------------------------
(* lv_collect.                                                             *)

\* Half h has told the original what it has to say.
Through(h) == half[h].state \in {"added", "gone"}
Says(h)    == IF half[h].error THEN half[h].resid ELSE 0

\* b_forw of a half is clear only when the other half has come to its end before
\* this one came to lv_collect.
Links(h) ==
    LET o == Other(h) IN
    /\ half[h].forw \in {NoBuf, o}
    /\ half[h].forw = NoBuf => half[o].state = "gone" /\ half[o].seen = h
    /\ half[h].state \in {"read", "adding", "added", "gone"} =>
          /\ half[h].seen \in {NoBuf, o}
          /\ half[h].seen = NoBuf => half[h].forw = NoBuf

\* The half that found it clear adds to what the other one has stored.  If neither
\* does, nobody returns the original, and what it says does not matter.
Counts(h) ==
    LET o == Other(h) IN
    /\ half[h].state \in {"new", "linked", "collect", "read"} =>
          /\ orig.error = (Through(o) /\ half[o].error)
          /\ orig.resid = IF Through(o) THEN Says(o) ELSE 0
          /\ half[o].state = "adding" => half[o].sum = half[o].resid
    /\ half[h].state = "adding" =>
          /\ half[h].error
          /\ half[h].seen = NoBuf => /\ orig.error = half[o].error
                                     /\ half[h].sum = half[h].resid + Says(o)
    /\ Through(h) /\ half[h].seen = NoBuf =>
          /\ orig.error = (half[h].error \/ half[o].error)
          /\ orig.resid = Says(h) + Says(o)

\* The original is returned by the half that found b_forw clear.
CollectInv ==
    /\ thread = "split" =>
          orig.returned = 0 /\ orig.error = FALSE /\ orig.resid = 0
    /\ thread # "split" /\ ~IsSplit =>
          /\ half[1].state \in {"new", "linked", "gone"}
          /\ orig.returned = IF half[1].state = "gone" THEN 1 ELSE 0
    /\ \A h \in Halves : half[h].forw \in {NoBuf, Other(h)}
    /\ IsSplit =>
          /\ \A h \in Halves : Links(h) /\ Counts(h)
          /\ orig.returned \in 0 .. 1
          /\ orig.returned = 1 =>
                \E h \in Halves : half[h].state = "gone" /\ half[h].seen = NoBuf

\* Halves of a request that was split.
BothThere == \A h \in Halves : half[h].state # "none"

\* The step from one place to the next that changes the buf of half h only.
LEMMA CollectFrame ==
  ASSUME BufsOK, CollectInv, IsSplit, BothThere, NEW h \in Halves, NEW q \in HalfBuf,
         half' = [half EXCEPT ![h] = q], orig' = orig, thread # "split",
         thread' # "split", q.forw = half[h].forw,
         \/ /\ half[h].state = "new" /\ q.state \in {"linked", "collect"}
         \/ /\ half[h].state = "linked" /\ q.state = "collect"
         \/ /\ half[h].state = "collect" /\ q.state = "read" /\ q.seen = half[h].forw
            /\ q.error = half[h].error /\ q.resid = half[h].resid
         \/ /\ half[h].state = "read" /\ q.seen = half[h].seen
            /\ q.error = half[h].error /\ q.resid = half[h].resid
            /\ IF q.error THEN q.state = "adding" /\ q.sum = orig.resid + q.resid
                          ELSE q.state = "added"
  PROVE  CollectInv'
<1> DEFINE o == Other(h)
<1>1. /\ o \in Halves /\ o # h /\ Halves = {h, o} /\ Other(o) = h
  BY DEF Halves, Other
<1>2. /\ half'[h] = q /\ half'[o] = half[o] /\ half[o] \in HalfBuf /\ half[h] \in HalfBuf
      /\ IsSplit' /\ orig \in OrigBuf
  <2>1. q.state # "none"
    OBVIOUS
  <2> QED
    BY <1>1, <2>1 DEF BufsOK, IsSplit, BothThere, Halves
<1>3. Links(h) /\ Links(o) /\ Counts(h) /\ Counts(o)
  BY <1>1 DEF CollectInv
<1> HIDE DEF o
<1> USE DEF HalfBuf, OrigBuf, NoBuf
<1>4. Links(h)'
  BY <1>1, <1>2, <1>3 DEF Links, o
<1>5. Links(o)'
  BY <1>1, <1>2, <1>3 DEF Links, o
<1>6. Counts(h)'
  BY <1>1, <1>2, <1>3 DEF Links, Counts, Through, Says, o
<1>7. Counts(o)'
  BY <1>1, <1>2, <1>3 DEF Links, Counts, Through, Says, o
<1>8. \A g \in Halves : half[g].state = "gone" /\ half[g].seen = NoBuf =>
         half'[g].state = "gone" /\ half'[g].seen = NoBuf
  BY <1>1, <1>2
<1> QED
  BY <1>1, <1>2, <1>4, <1>5, <1>6, <1>7, <1>8 DEF CollectInv, Links

\* A half stores its error and the sum in the original.
LEMMA CollectStores ==
  ASSUME BufsOK, CollectInv, IsSplit, BothThere, thread # "split",
         NEW h \in Halves, CollectError(h)
  PROVE  CollectInv'
<1> DEFINE o == Other(h)
<1>1. /\ o \in Halves /\ o # h /\ Halves = {h, o} /\ Other(o) = h
  BY DEF Halves, Other
<1>2. /\ half[h].state = "adding" /\ thread' = thread
      /\ orig' = [orig EXCEPT !.error = TRUE, !.resid = half[h].sum]
      /\ half' = [half EXCEPT ![h].state = "added"]
  BY DEF CollectError
<1>3. /\ half[o] \in HalfBuf /\ half[h] \in HalfBuf /\ orig \in OrigBuf /\ half'[o] = half[o]
      /\ half'[h] = [half[h] EXCEPT !.state = "added"]
      /\ orig'.error = TRUE /\ orig'.resid = half[h].sum /\ orig'.returned = orig.returned
  BY <1>1, <1>2 DEF BufsOK, OrigBuf
<1>4. Links(h) /\ Links(o) /\ Counts(h) /\ Counts(o)
  BY <1>1 DEF CollectInv
<1>5. IsSplit'
  BY <1>1, <1>3 DEF IsSplit, Halves, HalfBuf
<1> HIDE DEF o
<1> USE DEF HalfBuf, OrigBuf, NoBuf
<1>6. /\ half'[h].state = "added" /\ half'[h].forw = half[h].forw
      /\ half'[h].seen = half[h].seen /\ half'[h].error = half[h].error
      /\ half'[h].resid = half[h].resid
  BY <1>3
<1>7. Links(h)' /\ Links(o)'
  BY <1>1, <1>2, <1>3, <1>4, <1>6 DEF Links, o
<1>11. /\ half[h].error = TRUE /\ half'[h].error = TRUE /\ half[o].resid \in Int
       /\ half[h].resid \in Int /\ half[o].error \in BOOLEAN
  <2>1. half[h].error
    BY <1>2, <1>4 DEF Counts
  <2> QED
    BY <1>3, <1>6, <2>1
<1>8. Counts(h)'
  <2>1. CASE half[h].seen = NoBuf
    <3>1. half[h].sum = half[h].resid + Says(o)
      BY <1>2, <1>4, <2>1 DEF Counts, o
    <3>2. Says(o)' = Says(o) /\ Says(h)' = half[h].resid
      BY <1>3, <1>6, <1>11 DEF Says
    <3>3. orig'.resid = Says(h)' + Says(o)' /\ orig'.error = TRUE
      BY <1>3, <3>1, <3>2
    <3> QED
      BY <1>6, <1>11, <3>3 DEF Counts, o
  <2>2. CASE half[h].seen # NoBuf
    BY <1>6, <2>2 DEF Counts
  <2> QED
    BY <2>1, <2>2
<1>9. Counts(o)'
  <2>1. CASE half[o].state \in {"new", "linked", "collect", "read"}
    <3>1. half[h].sum = half[h].resid
      BY <1>1, <1>2, <1>4, <2>1 DEF Counts
    <3>2. Through(h)' /\ Says(h)' = half[h].resid
      BY <1>6, <1>11 DEF Through, Says
    <3>3. half'[h].state # "adding" /\ ~Through(o)' /\ half'[o].state # "adding"
      BY <1>3, <1>6, <2>1 DEF Through
    <3> QED
      BY <1>1, <1>3, <1>6, <1>11, <3>1, <3>2, <3>3 DEF Counts
  <2>2. CASE half[o].state \in {"adding", "added", "gone"}
    <3>1. half[o].seen # NoBuf
      BY <1>1, <1>2, <1>4, <2>2 DEF Links
    <3>2. half[o].state = "adding" => half[o].error
      BY <1>4 DEF Counts
    <3> QED
      BY <1>3, <2>2, <3>1, <3>2 DEF Counts
  <2>3. half[o].state # "none"
    BY <1>1 DEF BothThere
  <2> QED
    BY <1>3, <2>1, <2>2, <2>3 DEF Counts, States
<1>10. \A g \in Halves : half[g].state = "gone" /\ half[g].seen = NoBuf =>
          half'[g].state = "gone" /\ half'[g].seen = NoBuf
  BY <1>1, <1>2, <1>3
<1> QED
  BY <1>1, <1>2, <1>3, <1>5, <1>7, <1>8, <1>9, <1>10 DEF CollectInv, Links

\* A half is freed, and returns the original or clears b_forw of the other.
LEMMA CollectFrees ==
  ASSUME BufsOK, CollectInv, IsSplit, BothThere, thread # "split",
         NEW h \in Halves, CollectFree(h)
  PROVE  CollectInv'
<1> DEFINE o == Other(h)
<1>1. /\ o \in Halves /\ o # h /\ Halves = {h, o} /\ Other(o) = h
  BY DEF Halves, Other
<1>2. /\ half[h].state = "added" /\ thread' = thread
      /\ half[o] \in HalfBuf /\ half[h] \in HalfBuf /\ orig \in OrigBuf
  BY <1>1 DEF CollectFree, BufsOK
<1>3. Links(h) /\ Links(o) /\ Counts(h) /\ Counts(o)
  BY <1>1 DEF CollectInv
<1>4. half[h].seen \in {NoBuf, o} /\ h # NoBuf /\ o # NoBuf
  BY <1>1, <1>2, <1>3 DEF Links, Halves, NoBuf
<1>5. /\ half'[h] = [half[h] EXCEPT !.state = "gone"]
      /\ half'[o] = IF half[h].seen = o THEN [half[o] EXCEPT !.forw = NoBuf] ELSE half[o]
  BY <1>1, <1>4 DEF CollectFree
<1>6. /\ half'[h].state = "gone" /\ half'[h].seen = half[h].seen
      /\ half'[h].forw = half[h].forw /\ half'[h].error = half[h].error
      /\ half'[h].resid = half[h].resid /\ half'[o].state = half[o].state
      /\ half'[o].seen = half[o].seen /\ half'[o].error = half[o].error
      /\ half'[o].resid = half[o].resid /\ half'[o].sum = half[o].sum
      /\ half'[o].forw = IF half[h].seen = o THEN NoBuf ELSE half[o].forw
  BY <1>2, <1>5 DEF HalfBuf
<1>7. /\ orig'.error = orig.error /\ orig'.resid = orig.resid
      /\ orig'.returned = IF half[h].seen = NoBuf THEN orig.returned + 1 ELSE orig.returned
  <2>1. CASE half[h].seen = NoBuf
    <3>1. Biodone(orig.error, orig.resid) /\ orig.error \in BOOLEAN /\ orig.resid \in Int
      BY <1>2, <2>1 DEF CollectFree, OrigBuf
    <3> QED
      BY <1>2, <2>1, <3>1, BiodoneWrites
  <2>2. CASE half[h].seen # NoBuf
    BY <2>2 DEF CollectFree
  <2> QED
    BY <2>1, <2>2
<1>8. IsSplit'
  BY <1>1, <1>2, <1>6 DEF IsSplit, Halves, BothThere
<1> HIDE DEF o
<1>9. Links(h)' /\ Links(o)'
  BY <1>1, <1>2, <1>3, <1>4, <1>6 DEF Links, o
<1>10. Counts(h)' /\ Counts(o)'
  BY <1>1, <1>2, <1>3, <1>4, <1>6, <1>7 DEF Links, Counts, Through, Says, o
<1>11. orig'.returned \in 0 .. 1
  <2>1. CASE half[h].seen = NoBuf
    <3>1. half[o].state = "gone" /\ half[o].seen = h
      BY <1>2, <1>3, <2>1 DEF Links, o
    <3>2. orig.returned # 1
      BY <1>1, <1>2, <1>4, <3>1 DEF CollectInv
    <3> QED
      BY <1>7, <2>1, <3>2 DEF CollectInv
  <2>2. CASE half[h].seen # NoBuf
    BY <1>7, <2>2 DEF CollectInv
  <2> QED
    BY <2>1, <2>2
<1>12. orig'.returned = 1 =>
          \E g \in Halves : half'[g].state = "gone" /\ half'[g].seen = NoBuf
  BY <1>1, <1>6, <1>7 DEF CollectInv
<1> QED
  BY <1>1, <1>2, <1>8, <1>9, <1>10, <1>11, <1>12 DEF CollectInv, Links

LEMMA CollectInductive == PieceInv /\ PieceInv' /\ CollectInv /\ [Next]_vars => CollectInv'
<1> SUFFICES ASSUME PieceInv, PieceInv', CollectInv, [Next]_vars PROVE CollectInv'
  OBVIOUS
<1>1. BufsOK /\ BufsOK'
  BY DEF PieceInv
<1>2. CASE UNCHANGED vars \/ Done
  BY <1>2 DEF vars, Done, CollectInv, Links, Counts, Through, Says, IsSplit
<1>3. CASE Split
  <2>1. /\ orig' = orig /\ thread = "split" /\ thread' = "link1"
        /\ \A h \in Halves : half'[h] = NoHalf \/ /\ half'[h].state = "new"
                                                  /\ half'[h].error = FALSE
        /\ half'[2].state # "none" => half'[1].forw = 2 /\ half'[2].forw = 1
    BY <1>1, <1>3, SplitStep DEF Split
  <2>2. NoHalf.state = "none" /\ NoHalf.forw = NoBuf
    BY NewBufs
  <2>3. CASE half'[2].state = "none"
    <3>1. half'[1].state = "new"
      BY <2>1, <2>2, <2>3 DEF PieceInv, Pieces, Halves
    <3>2. \A h \in Halves : half'[h].forw \in {NoBuf, Other(h)}
      BY <1>3, <2>1, <2>3 DEF Split, Halves, Other, NewHalf, NoHalf, NoBuf
    <3> QED
      BY <2>1, <2>3, <3>1, <3>2 DEF CollectInv, IsSplit
  <2>4. CASE half'[2].state # "none"
    <3>1. half'[1].state = "new" /\ half'[2].state = "new"
      BY <2>1, <2>2, <2>4 DEF PieceInv, Pieces, Halves
    <3>2. \A h \in Halves : half'[h].forw = Other(h) /\ Other(h) # NoBuf
      BY <2>1, <2>4 DEF Halves, Other, NoBuf
    <3> QED
      <4>1. ASSUME NEW h \in Halves PROVE Links(h)' /\ Counts(h)'
        <5>1. /\ Other(h) \in Halves /\ half'[h].state = "new"
              /\ half'[Other(h)].state = "new" /\ half'[h].forw = Other(h)
              /\ Other(h) # NoBuf /\ orig'.error = FALSE /\ orig'.resid = 0
          BY <2>1, <3>1, <3>2 DEF Halves, Other, CollectInv
        <5>2. ~Through(Other(h))'
          BY <5>1 DEF Through
        <5> QED
          BY <5>1, <5>2 DEF Links, Counts, Through
      <4>2. IsSplit' /\ orig'.returned = 0
        BY <2>1, <2>4 DEF IsSplit, CollectInv
      <4> QED
        BY <2>1, <3>2, <4>1, <4>2 DEF CollectInv
  <2> QED
    BY <2>3, <2>4
<1>4. ASSUME NEW h \in Halves, Piece(h) PROVE CollectInv'
  <2>1. half[h].state # "none" /\ half[h] \in HalfBuf
    BY <1>1, <1>4 DEF Piece, Link, Complete, CollectRead, CollectLoad, CollectError,
                      CollectFree, BufsOK
  <2>2. thread # "split" /\ thread' # "split"
    <3>1. thread # "split"
      BY <2>1 DEF PieceInv, Pieces
    <3> QED
      BY <1>1, <1>4, <3>1, PieceSteps
  <2>3. CASE ~IsSplit
    <3>1. /\ h = 1 /\ half[1].state \in {"new", "linked", "gone"}
          /\ orig.returned = IF half[1].state = "gone" THEN 1 ELSE 0
      BY <2>1, <2>2, <2>3 DEF CollectInv, IsSplit, Halves
    <3>2. \/ half' = [half EXCEPT ![1].state = "linked"] /\ orig' = orig
             /\ half[1].state = "new"
          \/ /\ half' = [half EXCEPT ![1].state = "gone"]
             /\ half[1].state \in {"new", "linked"}
             /\ \E e \in BOOLEAN, r \in Int : Biodone(e, r)
      <4>1. ASSUME NEW e \in BOOLEAN, NEW r \in Int, Iodone(h, e, r)
            PROVE  half' = [half EXCEPT ![1].state = "gone"] /\ Biodone(e, r)
        BY <2>3, <3>1, <4>1 DEF Iodone
      <4>2. CASE Link(h)
        <5>1. half[1].state = "new"
          BY <3>1, <4>2 DEF Link
        <5>2. CASE Rejected(half[h].blkno, half[h].bcount)
          <6>1. Iodone(h, TRUE, half[h].bcount) /\ half[h].bcount \in Int
            BY <2>1, <4>2, <5>2 DEF Link, HalfBuf
          <6> QED
            BY <4>1, <5>1, <6>1
        <5>3. CASE ~Rejected(half[h].blkno, half[h].bcount)
          BY <3>1, <4>2, <5>1, <5>3 DEF Link
        <5> QED
          BY <5>2, <5>3
      <4>3. CASE Complete(h)
        <5>1. PICK e \in BOOLEAN, r \in {0, half[h].bcount} : Iodone(h, e, r)
          BY <4>3 DEF Complete
        <5>2. r \in Int /\ half[1].state = "linked"
          BY <2>1, <3>1, <4>3 DEF Complete, HalfBuf
        <5> QED
          BY <4>1, <5>1, <5>2
      <4>4. ~(CollectRead(h) \/ CollectLoad(h) \/ CollectError(h) \/ CollectFree(h))
        BY <3>1 DEF CollectRead, CollectLoad, CollectError, CollectFree
      <4> QED
        BY <1>4, <4>2, <4>3, <4>4 DEF Piece
    <3>3. half'[2] = half[2] /\ half'[1].forw = half[1].forw /\ ~IsSplit'
      BY <1>1, <2>3, <3>2 DEF BufsOK, HalfBuf, Halves, IsSplit
    <3>4. CASE half' = [half EXCEPT ![1].state = "linked"] /\ orig' = orig
               /\ half[1].state = "new"
      BY <1>1, <2>2, <3>1, <3>3, <3>4 DEF CollectInv, BufsOK, Halves
    <3>5. CASE /\ half' = [half EXCEPT ![1].state = "gone"]
               /\ half[1].state \in {"new", "linked"}
               /\ \E e \in BOOLEAN, r \in Int : Biodone(e, r)
      <4>1. half'[1].state = "gone" /\ orig'.returned = 1
        BY <1>1, <3>1, <3>5, BiodoneWrites DEF BufsOK, Halves
      <4> QED
        BY <2>2, <3>3, <4>1 DEF CollectInv, Halves
    <3> QED
      BY <3>2, <3>4, <3>5
  <2>4. CASE IsSplit
    <3>1. BothThere
      BY <2>2, <2>4 DEF PieceInv, Pieces, BothThere, IsSplit, Halves
    <3>2. ASSUME NEW e \in BOOLEAN, NEW r \in Int, Iodone(h, e, r),
                 half[h].state \in {"new", "linked"}
          PROVE  CollectInv'
      <4> DEFINE q == [half[h] EXCEPT !.state = "collect", !.error = e, !.resid = r]
      <4>1. /\ half' = [half EXCEPT ![h] = q] /\ orig' = orig /\ q \in HalfBuf
            /\ q.state = "collect" /\ q.forw = half[h].forw
        BY <1>1, <2>1, <2>4, <3>2 DEF Iodone, HalfBuf, BufsOK, States
      <4> HIDE DEF q
      <4> QED
        BY <1>1, <2>2, <2>4, <3>1, <3>2, <4>1, CollectFrame
    <3>3. CASE Link(h)
      <4>1. CASE Rejected(half[h].blkno, half[h].bcount)
        BY <2>1, <3>2, <3>3, <4>1 DEF Link, HalfBuf
      <4>2. CASE ~Rejected(half[h].blkno, half[h].bcount)
        <5> DEFINE q == [half[h] EXCEPT !.state = "linked"]
        <5>1. /\ half' = [half EXCEPT ![h] = q] /\ orig' = orig /\ q \in HalfBuf
              /\ q.state = "linked" /\ q.forw = half[h].forw /\ half[h].state = "new"
          BY <1>1, <2>1, <3>3, <4>2 DEF Link, HalfBuf, BufsOK, States
        <5> HIDE DEF q
        <5> QED
          BY <1>1, <2>2, <2>4, <3>1, <5>1, CollectFrame
      <4> QED
        BY <4>1, <4>2
    <3>4. CASE Complete(h)
      <4>1. PICK e \in BOOLEAN, r \in {0, half[h].bcount} : Iodone(h, e, r)
        BY <3>4 DEF Complete
      <4> QED
        BY <2>1, <3>2, <3>4, <4>1 DEF Complete, HalfBuf
    <3>5. CASE CollectRead(h)
      <4> DEFINE q == [half[h] EXCEPT !.state = "read", !.seen = half[h].forw]
      <4>1. /\ half' = [half EXCEPT ![h] = q] /\ orig' = orig /\ q \in HalfBuf
            /\ q.state = "read" /\ q.seen = half[h].forw /\ q.forw = half[h].forw
            /\ q.error = half[h].error /\ q.resid = half[h].resid
            /\ half[h].state = "collect"
        BY <1>1, <2>1, <3>5 DEF CollectRead, HalfBuf, BufsOK, States
      <4> HIDE DEF q
      <4> QED
        BY <1>1, <2>2, <2>4, <3>1, <4>1, CollectFrame
    <3>6. CASE CollectLoad(h)
      <4> DEFINE q == IF half[h].error
                      THEN [half[h] EXCEPT !.state = "adding",
                                           !.sum = orig.resid + half[h].resid]
                      ELSE [half[h] EXCEPT !.state = "added"]
      <4>1. orig.resid + half[h].resid \in Int
        BY <1>1, <2>1 DEF BufsOK, OrigBuf, HalfBuf
      <4>2. /\ half' = [half EXCEPT ![h] = q] /\ orig' = orig /\ q \in HalfBuf
            /\ q.seen = half[h].seen /\ q.forw = half[h].forw
            /\ q.error = half[h].error /\ q.resid = half[h].resid
            /\ half[h].state = "read"
            /\ IF q.error THEN q.state = "adding" /\ q.sum = orig.resid + q.resid
                          ELSE q.state = "added"
        <5>1. CASE half[h].error
          BY <1>1, <2>1, <3>6, <4>1, <5>1 DEF CollectLoad, HalfBuf, BufsOK, States
        <5>2. CASE ~half[h].error
          BY <1>1, <2>1, <3>6, <4>1, <5>2 DEF CollectLoad, HalfBuf, BufsOK, States
        <5> QED
          BY <5>1, <5>2
      <4> HIDE DEF q
      <4> QED
        BY <1>1, <2>2, <2>4, <3>1, <4>2, CollectFrame
    <3>7. CASE CollectError(h)
      BY <1>1, <2>2, <2>4, <3>1, <3>7, CollectStores
    <3>8. CASE CollectFree(h)
      BY <1>1, <2>2, <2>4, <3>1, <3>8, CollectFrees
    <3> QED
      BY <1>4, <3>3, <3>4, <3>5, <3>6, <3>7, <3>8 DEF Piece
  <2> QED
    BY <2>3, <2>4
<1> QED
  BY <1>2, <1>3, <1>4 DEF Next, Piece

LEMMA CollectInit == Init => CollectInv
<1> SUFFICES ASSUME Init PROVE CollectInv
  OBVIOUS
<1>1. orig.returned = 0 /\ orig.error = FALSE /\ orig.resid = 0 /\ thread = "split"
  BY DEF Init
<1>2. \A h \in Halves : half[h].state = "none" /\ half[h].forw = NoBuf
  BY NewBufs DEF Init
<1> QED
  BY <1>1, <1>2 DEF CollectInv, IsSplit, Halves

LEMMA CollectAlways == Spec => [](PieceInv /\ CollectInv)
<1>1. Init => PieceInv /\ CollectInv
  BY PieceInit, CollectInit
<1>2. (PieceInv /\ CollectInv) /\ [Next]_vars => (PieceInv /\ CollectInv)'
  BY PieceInductive, CollectInductive
<1> QED
  BY <1>1, <1>2, PTL DEF Spec

\* Type correctness: the original is returned at most once, and a half points at the
\* other half or at nothing (lv_collect).
THEOREM TypeCorrect == Spec => []TypeOK
<1>1. PieceInv /\ CollectInv => TypeOK
  <2> SUFFICES ASSUME PieceInv, CollectInv PROVE TypeOK
    OBVIOUS
  <2>1. orig.returned \in 0 .. 1
    BY DEF CollectInv
  <2> QED
    BY <2>1 DEF TypeOK, PieceInv, BufsOK, OrigBuf, HalfBuf, CollectInv
<1> QED
  BY <1>1, CollectAlways, PTL

\* The last half hands the original back, when the other is through with it, with what
\* both have to say (lv_collect).
THEOREM ReturnedComplete == Spec => []Returned
<1>1. PieceInv /\ CollectInv => Returned
  <2> SUFFICES ASSUME PieceInv, CollectInv PROVE Returned
    OBVIOUS
  <2>0. CASE ~(orig.returned > 0)
    <3>1. orig.returned # 1
      BY <2>0
    <3> QED
      BY <2>0, <3>1 DEF Returned, ReturnedLast, ReturnedRight
  <2> SUFFICES ASSUME orig.returned > 0 PROVE Returned
    BY <2>0
  <2>1. thread # "split" /\ (IsSplit => orig.returned = 1)
    BY DEF CollectInv, PieceInv, BufsOK
  <2>2. CASE ~IsSplit
    <3>1. half[1].state = "gone" /\ Existing \subseteq {1}
      BY <2>1, <2>2 DEF CollectInv, Existing, IsSplit, Halves
    <3> QED
      BY <2>2, <3>1 DEF Returned, ReturnedLast, ReturnedRight
  <2>3. CASE IsSplit
    <3>1. PICK h \in Halves : half[h].state = "gone" /\ half[h].seen = NoBuf
      BY <2>1, <2>3 DEF CollectInv
    <3> DEFINE o == Other(h)
    <3>2. o \in Halves /\ o # h /\ Halves = {h, o}
      BY DEF Halves, Other
    <3>3. half[o].state = "gone" /\ half[h] \in HalfBuf /\ half[o] \in HalfBuf
      BY <2>3, <3>1, <3>2 DEF CollectInv, Links, PieceInv, BufsOK
    <3>4. /\ orig.error = (half[h].error \/ half[o].error)
          /\ orig.resid = Says(h) + Says(o)
      BY <2>3, <3>1 DEF CollectInv, Counts, Through
    <3>5. /\ Says(h) \in Int /\ Says(o) \in Int
      BY <3>3 DEF Says, HalfBuf
    <3> HIDE DEF o
    <3>6. Says(h) + Says(o) = Says(1) + Says(2)
      BY <3>2, <3>5 DEF Halves
    <3>7. ReturnedLast
      BY <3>1, <3>2, <3>3 DEF ReturnedLast, Existing
    <3>8. orig.error = (\E g \in Halves : half[g].error)
      BY <3>2, <3>4
    <3> QED
      BY <3>4, <3>6, <3>7, <3>8 DEF Returned, ReturnedRight, Says
  <2> QED
    BY <2>2, <2>3
<1> QED
  BY <1>1, CollectAlways, PTL

=============================================================================
