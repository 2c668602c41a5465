--------------------------- MODULE StorageProofs ----------------------------
(***************************************************************************)
(* The frames that pframe_alloc_n hands out are usable memory of their     *)
(* own, whatever the BIOS reports; and the ATA driver's polled transfers   *)
(* give the interrupt back, whatever the device answers and the handler    *)
(* does meanwhile.                                                         *)
(***************************************************************************)
EXTENDS PhysicalMemory, Ata, ListProofs

\* Leaves go to Zenon unless they name another prover.
USE ZenonT(60)

-----------------------------------------------------------------------------
(* Pages *)

\* Multiplication by the page size keeps the order.
LEMMA Scaled ==
    ASSUME NEW i \in Int, NEW j \in Int
    PROVE  /\ i * PageUnits \in Int
           /\ i <= j => i * PageUnits <= j * PageUnits
           /\ i * PageUnits < j * PageUnits => i < j
           /\ (i + 1) * PageUnits = i * PageUnits + PageUnits
  BY SMTT(60), PhysicalMemoryAssumption

(* The page a byte is in, and the first page that begins at or after it. *)
LEMMA Rounded ==
    ASSUME NEW a \in Nat
    PROVE  /\ align_down(a) \in Nat
           /\ align_down(a) * PageUnits <= a
           /\ a < (align_down(a) + 1) * PageUnits
           /\ align_up(a) \in Nat
           /\ a <= align_up(a) * PageUnits
           /\ (align_up(a) - 1) * PageUnits < a
           /\ a % PageUnits = 0 => align_down(a) * PageUnits = a
  BY SMTT(60), PhysicalMemoryAssumption DEF align_down, align_up

\* A frame of a region lies in it.
LEMMA FrameInside ==
    ASSUME NEW r, r.base \in Nat, r.length \in Nat, NEW total \in Nat,
           NEW f \in RegionFrames(r, total)
    PROVE  f \in Nat /\ BytesOf(f) \subseteq Extent(r)
<1>1. /\ f \in Int /\ align_up(r.base) <= f
      /\ f + 1 <= align_down(r.base + r.length)
      /\ r.base + r.length \in Nat
      /\ align_up(r.base) \in Nat /\ align_down(r.base + r.length) \in Nat
  BY SMTT(60), Rounded DEF RegionFrames
<1>2. r.base <= f * PageUnits
  <2>1. r.base <= align_up(r.base) * PageUnits
    BY Rounded
  <2>2. align_up(r.base) * PageUnits <= f * PageUnits
    BY SMTT(60), <1>1, Scaled
  <2>3. align_up(r.base) * PageUnits \in Int /\ f * PageUnits \in Int
    BY SMTT(60), <1>1, Scaled
  <2> QED
    BY SMTT(60), <2>1, <2>2, <2>3
<1>3. (f + 1) * PageUnits <= r.base + r.length
  BY SMTT(60), <1>1, Rounded, Scaled
<1>4. f * PageUnits \in Int /\ (f + 1) * PageUnits \in Int
  BY SMTT(60), <1>1, Scaled
<1> QED
  BY SMTT(60), <1>1, <1>2, <1>3, <1>4 DEF BytesOf, Extent

\* A frame that is not one of a page-aligned region does not meet it.
LEMMA FrameOutside ==
    ASSUME NEW r, r.base \in Nat, r.length \in Nat,
           r.base % PageUnits = 0, r.length % PageUnits = 0,
           NEW total \in Nat, NEW f \in 0 .. total - 1, f \notin RegionFrames(r, total)
    PROVE  BytesOf(f) \cap Extent(r) = {}
<1> DEFINE up == align_up(r.base)
           down == align_down(r.base + r.length)
<1>1. /\ f \in Nat /\ f < total /\ r.base + r.length \in Nat
      /\ up \in Nat /\ down \in Nat /\ align_down(r.base) \in Nat
      /\ f * PageUnits \in Int /\ (f + 1) * PageUnits \in Int
  <2>1. f \in Nat /\ f + 1 \in Int /\ f < total /\ r.base + r.length \in Nat
    BY SMTT(60)
  <2>2. up \in Nat /\ down \in Nat /\ align_down(r.base) \in Nat
    BY <2>1, Rounded
  <2>3. f * PageUnits \in Int /\ (f + 1) * PageUnits \in Int
    BY SMTT(60), <2>1, Scaled
  <2> QED
    BY <2>1, <2>2, <2>3
<1>2. CASE r.length = 0
  BY SMTT(60), <1>1, <1>2 DEF Extent, BytesOf
<1>3. CASE r.length # 0 /\ f + 1 <= up
  <2>1. (up - 1) * PageUnits < r.base /\ up - 1 \in Int
    BY SMTT(60), <1>1, Rounded
  <2>2. f * PageUnits <= (up - 1) * PageUnits
    BY SMTT(60), <1>1, <1>3, <2>1, Scaled
  <2>3. align_down(r.base) * PageUnits = r.base
    BY Rounded
  <2>4. f < align_down(r.base)
    BY SMTT(60), <1>1, <2>1, <2>2, <2>3, Scaled
  <2>5. (f + 1) * PageUnits <= r.base
    BY SMTT(60), <1>1, <2>3, <2>4, Scaled
  <2> QED
    BY SMTT(60), <1>1, <2>5 DEF BytesOf, Extent
<1>4. CASE r.length # 0 /\ down <= f
  <2>1. (align_down(r.base) + align_down(r.length)) * PageUnits = r.base + r.length
    <3>1. /\ align_down(r.base) * PageUnits = r.base
          /\ align_down(r.length) * PageUnits = r.length
          /\ align_down(r.base) \in Nat /\ align_down(r.length) \in Nat
      BY Rounded
    <3> QED
      BY SMTT(60), <3>1, PhysicalMemoryAssumption
  <2>2. down * PageUnits = r.base + r.length
    <3> DEFINE m == align_down(r.base) + align_down(r.length)
    <3>1. m \in Nat /\ m * PageUnits = r.base + r.length
      BY SMTT(60), <2>1, Rounded
    <3>2. down * PageUnits <= r.base + r.length /\ r.base + r.length < (down + 1) * PageUnits
      BY <1>1, Rounded
    <3> HIDE DEF m, down
    <3>3. m < down + 1
      BY SMTT(60), <1>1, <3>1, <3>2, Scaled
    <3>4. r.base + r.length <= down * PageUnits
      BY SMTT(60), <1>1, <3>1, <3>3, Scaled
    <3>5. down * PageUnits \in Int
      BY SMTT(60), <1>1, Scaled
    <3> QED
      BY SMTT(60), <1>1, <3>2, <3>4, <3>5
  <2>3. r.base + r.length <= f * PageUnits
    BY SMTT(60), <1>1, <1>4, <2>2, Scaled
  <2> QED
    BY SMTT(60), <1>1, <2>3 DEF BytesOf, Extent
<1>5. r.length = 0 \/ f + 1 <= up \/ down <= f
  BY SMTT(60), <1>1 DEF RegionFrames
<1> QED
  BY <1>2, <1>3, <1>4, <1>5

-----------------------------------------------------------------------------
(* What pframe_init finds *)

IsMap(e) ==
    /\ \E n \in Nat : DOMAIN e.entries = 1 .. n
    /\ \A i \in DOMAIN e.entries :
          e.entries[i].base \in Nat /\ e.entries[i].length \in Nat

(* e820_init keeps numbers for bases and lengths. *)
LEMMA MapRead ==
    ASSUME NEW map \in MemoryMaps PROVE IsMap(e820_init(map))
<1>1. map \in Seq([base : Nat, length : Nat, type : Nat])
  BY PhysicalMemoryAssumption
<1>2. \A i \in DOMAIN map : map[i] \in [base : Nat, length : Nat, type : Nat]
  <2> DEFINE E == [base : Nat, length : Nat, type : Nat]
  <2> HIDE DEF E
  <2>1. map \in Seq(E)
    BY <1>1 DEF E
  <2>2. \A i \in DOMAIN map : map[i] \in E
    BY SMTT(60), <2>1
  <2> QED
    BY <2>2 DEF E
<1>3. Len(map) \in Nat /\ DOMAIN map = 1 .. Len(map)
  BY SMTT(60), <1>1
<1>4. CASE Len(map) > E820_MAX_ENTRIES
  <2>1. e820_init(map).entries = << >>
    BY <1>4 DEF e820_init
  <2> QED
    BY SMTT(60), <2>1 DEF IsMap
<1>5. CASE ~(Len(map) > E820_MAX_ENTRIES)
  <2>1. e820_init(map).entries =
          [i \in DOMAIN map |->
             IF map[i].length = 0 THEN [map[i] EXCEPT !.type = 0] ELSE map[i]]
    BY <1>5 DEF e820_init
  <2>2. \A i \in DOMAIN map :
          /\ e820_init(map).entries[i].base = map[i].base
          /\ e820_init(map).entries[i].length = map[i].length
    BY <1>2, <2>1
  <2> QED
    BY <1>2, <1>3, <2>1, <2>2 DEF IsMap
<1> QED
  BY <1>4, <1>5

\* The highest usable address exists.
LEMMA HighestUsable ==
    ASSUME NEW e, IsMap(e) PROVE MaxUsable(e) \in Nat
<1> DEFINE End(i) == e.entries[i].base + e.entries[i].length
           ends == {0} \cup {End(i) : i \in Usable(e)}
           S == {k \in Nat : \E m \in ends : \A i \in Usable(e) : i <= k => End(i) <= m}
<1>1. PICK n \in Nat : DOMAIN e.entries = 1 .. n
  BY DEF IsMap
<1>2. \A i \in Usable(e) : i \in 1 .. n /\ End(i) \in Nat
  BY SMTT(60), <1>1 DEF Usable, IsMap
<1>3. ends \subseteq Nat /\ 0 \in ends
  BY SMTT(60), <1>2
<1>4. 0 \in S
  BY SMTT(60), <1>2, <1>3
<1>5. ASSUME NEW k \in Nat, k \in S PROVE k + 1 \in S
  <2>1. PICK m \in ends : \A i \in Usable(e) : i <= k => End(i) <= m
    BY <1>5
  <2>2. CASE k + 1 \in Usable(e) /\ m < End(k + 1)
    <3>1. End(k + 1) \in ends /\ End(k + 1) \in Nat /\ m \in Nat
      BY <1>2, <1>3, <2>2
    <3>2. ASSUME NEW i \in Usable(e), i <= k + 1 PROVE End(i) <= End(k + 1)
      <4>1. i \in Nat /\ End(i) \in Nat /\ (i = k + 1 \/ i <= k)
        BY SMTT(60), <1>2, <3>2
      <4> HIDE DEF End, ends
      <4> QED
        BY SMTT(60), <2>1, <2>2, <3>1, <4>1
    <3> QED
      BY SMTT(60), <3>1, <3>2
  <2>3. CASE ~(k + 1 \in Usable(e) /\ m < End(k + 1))
    <3>1. m \in Nat
      BY <1>3
    <3>2. ASSUME NEW i \in Usable(e), i <= k + 1 PROVE End(i) <= m
      <4>1. i \in Nat /\ End(i) \in Nat /\ (i = k + 1 \/ i <= k)
        BY SMTT(60), <1>2, <3>2
      <4> HIDE DEF End, ends
      <4> QED
        BY SMTT(60), <2>1, <2>3, <3>1, <4>1
    <3> QED
      BY SMTT(60), <2>1, <3>2
  <2> QED
    BY <2>2, <2>3
<1>6. Nat \subseteq S
  <2> HIDE DEF S
  <2> QED
    BY <1>4, <1>5, SetInduction
<1>7. PICK m \in ends : \A i \in Usable(e) : i <= n => End(i) <= m
  BY <1>6
<1>8. \A b \in ends : b <= m
  BY SMTT(60), <1>2, <1>3, <1>7
<1>9. MaxUsable(e) = CHOOSE a \in ends : \A b \in ends : b <= a
  BY DEF MaxUsable
<1> HIDE DEF ends
<1> QED
  BY <1>3, <1>8, <1>9

(* The allocator's state. *)
IsPool(p) ==
    /\ DOMAIN p = {"initialized", "total", "used", "hint"}
    /\ p.total \in Nat /\ p.hint \in Nat

\* A frame that may be handed out.
Fit(f) ==
    /\ \E i \in Usable(e820) : BytesOf(f) \subseteq Extent(e820.entries[i])
    /\ \A a \in Areas : BytesOf(f) \cap Extent(a) = {}
    /\ BytesOf(f) \cap BitmapInUse = {}

\* The frames that pframe_init left clear are fit, and the clients hold runs of
\* them that do not meet.
FrameInv ==
    /\ IsPool(pframe)
    /\ \A f \in 0 .. pframe.total - 1 : f \notin reserved => Fit(f)
    /\ \A g \in grants :
          /\ g.start \in Nat /\ g.n \in Nat \ {0} /\ g.start + g.n <= pframe.total
          /\ RunOf(g.start, g.n) \cap reserved = {}
    /\ \A g, h \in grants : g # h => RunOf(g.start, g.n) \cap RunOf(h.start, h.n) = {}
    /\ pframe.used = reserved \cup UNION {RunOf(g.start, g.n) : g \in grants}

(* The invariant implies the property. *)
LEMMA FrameInvSound == FrameInv => GrantsUsable
<1> SUFFICES ASSUME FrameInv PROVE GrantsUsable
  OBVIOUS
<1>1. ASSUME NEW g \in grants, NEW f \in RunOf(g.start, g.n) PROVE Fit(f)
  <2>1. /\ g.start \in Nat /\ g.n \in Nat /\ g.start + g.n <= pframe.total
        /\ pframe.total \in Nat /\ f \notin reserved
    BY <1>1 DEF FrameInv, IsPool
  <2>2. f \in 0 .. pframe.total - 1
    BY SMTT(60), <2>1 DEF RunOf
  <2> QED
    BY <2>1, <2>2 DEF FrameInv
<1>2. /\ \A g, h \in grants : g # h => RunOf(g.start, g.n) \cap RunOf(h.start, h.n) = {}
      /\ pframe.used = reserved \cup UNION {RunOf(g.start, g.n) : g \in grants}
  BY DEF FrameInv
<1> QED
  BY <1>1, <1>2 DEF GrantsUsable, Fit

\* The bitmap's first page is the kernel's or its own, and its last page is
\* not in use: a frame outside both meets no bit in use.
LEMMA OutsideBitmap ==
    ASSUME NEW total \in Nat, NEW f \in 0 .. total - 1,
           f \notin RegionFrames(Bitmap, total),
           \A a \in Areas : BytesOf(f) \cap Extent(a) = {},
           total <= Bitmap.length * FramesPerUnit,
           BitmapUnits(total) \in Int,
           Bitmap.base + BitmapUnits(total)
              <= align_down(Bitmap.base + Bitmap.length) * PageUnits
    PROVE  BytesOf(f) \cap (Bitmap.base .. Bitmap.base + BitmapUnits(total) - 1) = {}
<1> DEFINE base == Bitmap.base
           down == align_down(base + Bitmap.length)
           up == align_up(base)
<1> SUFFICES ASSUME NEW x \in BytesOf(f), x \in base .. base + BitmapUnits(total) - 1
             PROVE  FALSE
  OBVIOUS
<1>1. base \in Nat /\ Bitmap.length \in Nat /\ base + Bitmap.length \in Nat
  BY SMTT(60), PhysicalMemoryAssumption
<1>2. f \in Nat /\ f + 1 \in Int /\ f < total
  BY SMTT(60)
<1>3. up \in Nat /\ up - 1 \in Int /\ down \in Nat /\ down * PageUnits \in Int
  <2>1. up \in Nat /\ down \in Nat
    BY <1>1, Rounded
  <2> QED
    BY SMTT(60), <2>1, Scaled
<1>4. f * PageUnits \in Int /\ (f + 1) * PageUnits \in Int /\ (up - 1) * PageUnits \in Int
  BY SMTT(60), <1>2, <1>3, Scaled
<1>5. x \in Int /\ f * PageUnits <= x /\ x < (f + 1) * PageUnits
  BY SMTT(60), <1>4 DEF BytesOf
<1>6. base <= x /\ x < down * PageUnits
  BY SMTT(60), <1>1, <1>3
<1>7. f < down
  BY SMTT(60), <1>2, <1>3, <1>4, <1>5, <1>6, Scaled
<1>8. Bitmap.length # 0
  BY SMTT(60), <1>2, PhysicalMemoryAssumption
<1>9. f < up
  BY SMTT(60), <1>1, <1>2, <1>3, <1>7, <1>8 DEF RegionFrames
<1>10. f * PageUnits < base
  <2>1. f * PageUnits <= (up - 1) * PageUnits
    BY SMTT(60), <1>2, <1>3, <1>9, Scaled
  <2>2. (up - 1) * PageUnits < base
    BY <1>1, Rounded
  <2> QED
    BY SMTT(60), <1>1, <1>4, <2>1, <2>2
<1>11. base \in BytesOf(f)
  BY SMTT(60), <1>1, <1>4, <1>5, <1>6, <1>10 DEF BytesOf
<1>12. CASE base % PageUnits = 0
  <2>1. align_down(base) * PageUnits = base /\ align_down(base) \in Nat
    BY <1>1, <1>12, Rounded
  <2>2. f < align_down(base)
    BY SMTT(60), <1>2, <1>10, <2>1, Scaled
  <2>3. align_down(base) < f + 1
    <3>1. align_down(base) * PageUnits < (f + 1) * PageUnits
      BY SMTT(60), <1>1, <1>4, <1>5, <1>6, <2>1
    <3> QED
      BY SMTT(60), <1>2, <2>1, <3>1, Scaled
  <2> QED
    BY SMTT(60), <1>2, <2>1, <2>2, <2>3
<1>13. CASE base % PageUnits # 0
  BY <1>11, <1>13, PlacementAssumption
<1> QED
  BY <1>12, <1>13

(* pframe_init sets aside every frame that is not fit. *)
LEMMA FrameInvInit == FrameInit => FrameInv
<1> SUFFICES ASSUME FrameInit PROVE FrameInv
  OBVIOUS
<1>1. PICK map \in MemoryMaps : e820 = e820_init(map)
  BY DEF FrameInit
<1> DEFINE total == align_down(MaxUsable(e820))
<1>2. IsMap(e820) /\ total \in Nat
  BY <1>1, MapRead, HighestUsable, Rounded
<1>3. /\ grants = {} /\ reserved = pframe.used
      /\ pframe = NoPframe \/ pframe = WithFrames(e820, total)
  BY DEF FrameInit, pframe_init
<1>4. CASE pframe = NoPframe
  BY SMTT(60), <1>3, <1>4, PhysicalMemoryAssumption DEF NoPframe, FrameInv, IsPool
<1>5. CASE pframe # NoPframe
  <2>1. /\ total <= Bitmap.length * FramesPerUnit
        /\ pframe = [initialized |-> TRUE, total |-> total, hint |-> FirstFrame,
                     used |-> ((0 .. total - 1)
                                  \ UNION {RegionFrames(e820.entries[i], total) :
                                              i \in Usable(e820)})
                              \cup UNION {RegionFrames(a, total) : a \in Areas \cup {Bitmap}}]
    <3>1. ~(total > Bitmap.length * FramesPerUnit)
      BY <1>3, <1>5 DEF WithFrames
    <3> QED
      BY SMTT(60), <1>2, <1>3, <1>5, <3>1, PhysicalMemoryAssumption DEF WithFrames
  <2>2. IsPool(pframe) /\ pframe.total = total
    BY <1>2, <2>1, PhysicalMemoryAssumption DEF IsPool
  <2>3. reserved = ((0 .. total - 1)
                       \ UNION {RegionFrames(e820.entries[i], total) : i \in Usable(e820)})
                   \cup UNION {RegionFrames(a, total) : a \in Areas \cup {Bitmap}}
    BY <1>3, <2>1
  <2> HIDE DEF total
  <2>4. ASSUME NEW f \in 0 .. total - 1, f \notin reserved PROVE Fit(f)
    <3>1. PICK i \in Usable(e820) : f \in RegionFrames(e820.entries[i], total)
      BY <2>3, <2>4
    <3>2. \A a \in Areas \cup {Bitmap} : f \notin RegionFrames(a, total)
      BY <2>3, <2>4
    <3>3. BytesOf(f) \subseteq Extent(e820.entries[i])
      <4>1. e820.entries[i].base \in Nat /\ e820.entries[i].length \in Nat
        BY <1>2 DEF IsMap, Usable
      <4> QED
        BY <1>2, <3>1, <4>1, FrameInside
    <3>4. ASSUME NEW a \in Areas PROVE BytesOf(f) \cap Extent(a) = {}
      <4>1. /\ a.base \in Nat /\ a.length \in Nat
            /\ a.base % PageUnits = 0 /\ a.length % PageUnits = 0
        BY PhysicalMemoryAssumption, PlacementAssumption
      <4> QED
        BY <1>2, <2>4, <3>2, <4>1, FrameOutside
    <3>5. BytesOf(f) \cap BitmapInUse = {}
      <4>1. Bitmap.base + BitmapUnits(total)
               <= align_down(Bitmap.base + Bitmap.length) * PageUnits
        BY <1>1, <2>1, PlacementAssumption DEF total
      <4>2. BitmapUnits(total) \in Int
        BY SMTT(60), <1>2, PhysicalMemoryAssumption DEF BitmapUnits
      <4>3. BytesOf(f) \cap (Bitmap.base .. Bitmap.base + BitmapUnits(total) - 1) = {}
        BY <1>2, <2>1, <2>4, <3>2, <3>4, <4>1, <4>2, OutsideBitmap
      <4> QED
        BY <2>2, <4>3 DEF BitmapInUse
    <3> QED
      BY <3>3, <3>4, <3>5 DEF Fit
  <2> QED
    BY <1>3, <2>2, <2>4 DEF FrameInv
<1> QED
  BY <1>4, <1>5

\* A search finds a clear run inside its bounds, or nothing.
LEMMA RunFound ==
    ASSUME NEW p, NEW n \in Nat \ {0}, NEW from \in Nat, NEW to \in Nat
    PROVE  LET f == FindRun(p, n, from, to)
           IN  f # -1 => f \in Nat /\ f + n <= to /\ RunOf(f, n) \cap p.used = {}
<1> DEFINE S == {f \in from .. to - n : RunOf(f, n) \cap p.used = {}}
<1>1. S \subseteq Nat
  BY SMTT(60)
<1>2. S # {} => \E x \in S : \A y \in S : x <= y
  BY <1>1, LeastNumber
<1>3. FindRun(p, n, from, to) # -1 => FindRun(p, n, from, to) \in S
  <2>1. FindRun(p, n, from, to) =
          IF S = {} THEN -1 ELSE CHOOSE x \in S : \A y \in S : x <= y
    BY DEF FindRun, LowestOf
  <2> HIDE DEF S
  <2> QED
    BY <1>2, <2>1
<1> QED
  BY SMTT(60), <1>3

\* pframe_alloc_n takes a run of clear frames below total_frames, or changes
\* nothing.
LEMMA AllocFacts ==
    ASSUME NEW p, IsPool(p), NEW n \in Nat \ {0}
    PROVE  LET r == pframe_alloc_n(p, n)
           IN  /\ IsPool(r.p) /\ r.p.total = p.total
               /\ r.frame = -1 => r.p.used = p.used
               /\ r.frame # -1 =>
                     /\ r.frame \in Nat /\ r.frame + n <= p.total
                     /\ RunOf(r.frame, n) \cap p.used = {}
                     /\ r.p.used = p.used \cup RunOf(r.frame, n)
<1> DEFINE ahead == FindRun(p, n, p.hint, p.total)
           f == OrWrapped(p, n, ahead)
<1>1. f # -1 => f \in Nat /\ f + n <= p.total /\ RunOf(f, n) \cap p.used = {}
  <2>1. ahead # -1 => ahead \in Nat /\ ahead + n <= p.total
                        /\ RunOf(ahead, n) \cap p.used = {}
    BY RunFound DEF IsPool
  <2> DEFINE to == IF p.hint < p.total THEN p.hint ELSE p.total
             back == FindRun(p, n, FirstFrame, to)
  <2>2. to \in Nat /\ to <= p.total
    BY SMTT(60) DEF IsPool
  <2>3. f = IF ahead # -1 THEN ahead ELSE back
    BY DEF OrWrapped
  <2> HIDE DEF to, ahead
  <2>4. back # -1 => back \in Nat /\ back + n <= to /\ RunOf(back, n) \cap p.used = {}
    BY <2>2, RunFound, PhysicalMemoryAssumption
  <2> HIDE DEF back, f
  <2> QED
    BY SMTT(60), <2>1, <2>2, <2>3, <2>4 DEF IsPool
<1>2. \/ pframe_alloc_n(p, n) = [frame |-> -1, p |-> p]
      \/ pframe_alloc_n(p, n) = Taken(p, f, n)
  BY DEF pframe_alloc_n
<1> HIDE DEF f
<1>3. CASE pframe_alloc_n(p, n) = [frame |-> -1, p |-> p]
  BY SMTT(60), <1>3
<1>4. CASE pframe_alloc_n(p, n) = Taken(p, f, n) /\ f # -1
  <2> DEFINE hint == IF f + n >= p.total THEN FirstFrame ELSE f + n
             q == [p EXCEPT !.used = @ \cup RunOf(f, n), !.hint = hint]
  <2>1. pframe_alloc_n(p, n) = [frame |-> f, p |-> q]
    BY <1>4 DEF Taken
  <2>2. hint \in Nat
    BY SMTT(60), <1>1, <1>4, PhysicalMemoryAssumption
  <2> HIDE DEF hint
  <2>3. /\ DOMAIN q = {"initialized", "total", "used", "hint"}
        /\ q.total = p.total /\ q.hint = hint /\ q.used = p.used \cup RunOf(f, n)
    BY DEF IsPool
  <2> HIDE DEF q
  <2> QED
    BY SMTT(60), <1>1, <1>4, <2>1, <2>2, <2>3 DEF IsPool
<1>5. CASE pframe_alloc_n(p, n) = Taken(p, f, n) /\ f = -1
  BY SMTT(60), <1>5 DEF Taken
<1> QED
  BY <1>2, <1>3, <1>4, <1>5

(* A run is handed out. *)
LEMMA AllocateKeeps ==
    ASSUME FrameInv, NEW n \in Wanted, AllocateFrames(n) PROVE FrameInv'
<1> DEFINE r == pframe_alloc_n(pframe, n)
           g == [start |-> r.frame, n |-> n]
<1>1. /\ n \in Nat \ {0} /\ IsPool(pframe) /\ IsPool(r.p) /\ r.p.total = pframe.total
      /\ r.frame = -1 => r.p.used = pframe.used
      /\ r.frame # -1 =>
            /\ r.frame \in Nat /\ r.frame + n <= pframe.total
            /\ RunOf(r.frame, n) \cap pframe.used = {}
            /\ r.p.used = pframe.used \cup RunOf(r.frame, n)
  BY AllocFacts, PhysicalMemoryAssumption DEF FrameInv
<1>2. /\ pframe' = r.p /\ UNCHANGED <<e820, reserved>>
      /\ grants' = IF r.frame = -1 THEN grants ELSE grants \cup {g}
  BY DEF AllocateFrames, Granted
<1> HIDE DEF r
<1>3. \A f \in 0 .. pframe'.total - 1 : f \notin reserved' => Fit(f)'
  BY <1>1, <1>2 DEF FrameInv, Fit, BitmapInUse
<1>4. CASE r.frame = -1
  BY <1>1, <1>2, <1>3, <1>4 DEF FrameInv
<1>5. CASE r.frame # -1
  <2>1. grants' = grants \cup {g} /\ g.start = r.frame /\ g.n = n
    BY <1>2, <1>5
  <2> HIDE DEF g
  <2>2. RunOf(g.start, g.n) \cap reserved = {}
    BY <1>1, <1>5, <2>1 DEF FrameInv
  <2>3. ASSUME NEW h \in grants PROVE RunOf(g.start, g.n) \cap RunOf(h.start, h.n) = {}
    BY SMTT(60), <1>1, <1>5, <2>1 DEF FrameInv
  <2>4. \A h, k \in grants' : h # k => RunOf(h.start, h.n) \cap RunOf(k.start, k.n) = {}
    BY <2>1, <2>3 DEF FrameInv
  <2>5. pframe'.used = reserved' \cup UNION {RunOf(h.start, h.n) : h \in grants'}
    BY SMTT(60), <1>1, <1>2, <1>5, <2>1 DEF FrameInv
  <2>6. \A h \in grants' :
          /\ h.start \in Nat /\ h.n \in Nat \ {0} /\ h.start + h.n <= pframe'.total
          /\ RunOf(h.start, h.n) \cap reserved' = {}
    BY <1>1, <1>2, <1>5, <2>1, <2>2 DEF FrameInv
  <2> QED
    BY <1>1, <1>2, <1>3, <2>4, <2>5, <2>6 DEF FrameInv
<1> QED
  BY <1>4, <1>5

(* A run is given back. *)
LEMMA ReleaseKeeps ==
    ASSUME FrameInv, NEW g \in grants, ReleaseFrames(g) PROVE FrameInv'
<1>1. /\ pframe' = pframe_free_n(pframe, g.start, g.n)
      /\ grants' = grants \ {g} /\ UNCHANGED <<e820, reserved>>
  BY DEF ReleaseFrames
<1>2. pframe' = [pframe EXCEPT !.used = @ \ RunOf(g.start, g.n)]
  BY SMTT(60), <1>1 DEF FrameInv, IsPool, pframe_free_n
<1>3. /\ IsPool(pframe') /\ pframe'.total = pframe.total
      /\ pframe'.used = pframe.used \ RunOf(g.start, g.n)
  BY <1>2 DEF FrameInv, IsPool
<1>4. \A f \in 0 .. pframe'.total - 1 : f \notin reserved' => Fit(f)'
  BY <1>1, <1>3 DEF FrameInv, Fit, BitmapInUse
<1>5. pframe'.used = reserved' \cup UNION {RunOf(h.start, h.n) : h \in grants'}
  <2>1. RunOf(g.start, g.n) \cap reserved = {}
    BY DEF FrameInv
  <2>2. \A h \in grants' : RunOf(g.start, g.n) \cap RunOf(h.start, h.n) = {}
    BY <1>1 DEF FrameInv
  <2>3. UNION {RunOf(h.start, h.n) : h \in grants}
          = RunOf(g.start, g.n) \cup UNION {RunOf(h.start, h.n) : h \in grants'}
    BY <1>1
  <2> QED
    BY SMTT(60), <1>1, <1>3, <2>1, <2>2, <2>3 DEF FrameInv
<1> QED
  BY <1>1, <1>3, <1>4, <1>5 DEF FrameInv

(* One case per action. *)
LEMMA FrameInvNext == FrameInv /\ [FrameNext]_frameVars => FrameInv'
<1> SUFFICES ASSUME FrameInv, [FrameNext]_frameVars PROVE FrameInv'
  OBVIOUS
<1>1. CASE UNCHANGED frameVars
  BY <1>1 DEF frameVars, FrameInv, IsPool, Fit, BitmapInUse
<1> QED
  BY <1>1, AllocateKeeps, ReleaseKeeps DEF FrameNext

(* Whatever the BIOS reports (e820.c, pframe.c), a frame that              *)
(* pframe_alloc_n hands out is whole pages of a usable entry, outside the  *)
(* BIOS area, the page tables, the kernel and the bits in use, and has one *)
(* holder; pframe_free_n gives back just what was held.                    *)
THEOREM GrantsAreUsable == FrameSpec => []GrantsUsable
  BY FrameInvInit, FrameInvNext, FrameInvSound, PTL DEF FrameSpec

-----------------------------------------------------------------------------
(* The device's interrupt enable, which no command and no transfer touches. *)

\* A step of the device from d to e leaves nIEN alone.
SameEnable(d, e) ==
    "nien" \in DOMAIN d => "nien" \in DOMAIN e /\ e.nien = d.nien

(* Two such steps are one. *)
LEMMA SameEnableTrans ==
    ASSUME NEW c, NEW d, NEW e, SameEnable(c, d), SameEnable(d, e)
    PROVE  SameEnable(c, e)
  BY DEF SameEnable

(* Writing the command registers. *)
LEMMA CommandKeeps ==
    ASSUME NEW d, NEW cmd, NEW drive, NEW lba, NEW left
    PROVE  SameEnable(d, Command(d, cmd, drive, lba, left))
  BY DEF SameEnable, Command

(* Programming a transfer. *)
LEMMA StartKeeps ==
    ASSUME NEW d, NEW r, NEW ext PROVE SameEnable(d, Start(d, r, ext))
  BY CommandKeeps DEF Start

(* Reading the status register. *)
LEMMA StatusKeeps ==
    ASSUME NEW d PROVE SameEnable(d, StatusRead(d))
  BY DEF SameEnable, StatusRead

(* Moving a sector through the data register. *)
LEMMA DataKeeps ==
    ASSUME NEW d, NEW value
    PROVE  SameEnable(d, DataIn(d)) /\ SameEnable(d, DataOut(d, value))
  BY DEF SameEnable, DataIn, DataOut

(* The device works on. *)
LEMMA ProgressKeeps ==
    ASSUME NEW d, NEW p \in Progress(d) PROVE SameEnable(d, p.d)
<1>1. SameEnable(d, Advanced(d))
  BY DEF SameEnable, Advanced
<1>2. SameEnable(Advanced(d), Ready(d))
  BY DEF SameEnable, Ready
<1>3. SameEnable(d, Failed(d))
  BY DEF SameEnable, Failed
<1>4. SameEnable(d, Ready(d))
  BY <1>1, <1>2, SameEnableTrans
<1> QED
  BY SMTT(60), <1>3, <1>4 DEF Progress

\* The results of the two polling loops.
LEMMA PollKeeps ==
    ASSUME NEW d
    PROVE  /\ \A w \in ata_wait_bsy(d) :
                 DOMAIN w = {"r", "d", "f", "late"} /\ SameEnable(d, w.d)
           /\ \A w \in ata_wait_drq(d) :
                 DOMAIN w = {"r", "d", "f", "late"} /\ SameEnable(d, w.d)
<1>1. ASSUME NEW w \in ata_wait_bsy(d)
      PROVE  DOMAIN w = {"r", "d", "f", "late"} /\ SameEnable(d, w.d)
  <2>1. CASE w = [r |-> w.r, d |-> StatusRead(d), f |-> w.f, late |-> w.late]
    BY SMTT(60), <2>1, StatusKeeps
  <2>2. ASSUME NEW p \in Progress(d),
               w = [r |-> "OK", d |-> StatusRead(p.d), f |-> p.f, late |-> FALSE]
        PROVE  DOMAIN w = {"r", "d", "f", "late"} /\ SameEnable(d, w.d)
    BY <2>2, StatusKeeps, ProgressKeeps, SameEnableTrans
  <2> QED
    BY SMTT(60), <2>1, <2>2 DEF ata_wait_bsy
<1>2. ASSUME NEW w \in ata_wait_drq(d)
      PROVE  DOMAIN w = {"r", "d", "f", "late"} /\ SameEnable(d, w.d)
  <2>1. PICK v \in ata_wait_bsy(d) : w = IF v.late THEN v ELSE [v EXCEPT !.r = Drq(v.d)]
    BY DEF ata_wait_drq
  <2> QED
    BY <1>1, <2>1
<1> QED
  BY <1>1, <1>2

\* What a write can find after its data.
LEMMA WriteKeeps ==
    ASSUME NEW d, NEW last, NEW v \in WriteOutcomes(d, last)
    PROVE  SameEnable(d, v.d)
<1>1. CASE ~last
  BY <1>1, PollKeeps DEF WriteOutcomes
<1>2. CASE last
  <2>1. PICK w \in ata_wait_bsy(d) :
          v \in {[x EXCEPT !.f = @ + w.f, !.late = @ \/ w.late] :
                   x \in ata_wait_bsy(Command(w.d, "flush", 0, w.d.lba, 0))}
    BY <1>2 DEF WriteOutcomes
  <2>2. PICK x \in ata_wait_bsy(Command(w.d, "flush", 0, w.d.lba, 0)) :
          v = [x EXCEPT !.f = @ + w.f, !.late = @ \/ w.late]
    BY <2>1
  <2>3. DOMAIN x = {"r", "d", "f", "late"} /\ SameEnable(Command(w.d, "flush", 0, w.d.lba, 0), x.d)
    BY PollKeeps
  <2>4. v.d = x.d
    BY <2>2, <2>3
  <2>5. SameEnable(d, w.d) /\ SameEnable(w.d, Command(w.d, "flush", 0, w.d.lba, 0))
    BY PollKeeps, CommandKeeps
  <2> QED
    BY <2>3, <2>4, <2>5, SameEnableTrans
<1> QED
  BY <1>1, <1>2

\* The outcomes of the queue's routines.
IsOutcome(s) == DOMAIN s = {"queue", "dev", "ops", "done", "f", "late"}

(* Issuing a queued operation. *)
LEMMA IssuedKeeps ==
    ASSUME NEW o, NEW d, NEW v \in Issued(o, d) PROVE SameEnable(d, v.d)
<1>1. CASE o.req.kind = "read"
  BY SMTT(60), <1>1 DEF Issued, SameEnable
<1>2. CASE o.req.kind # "read"
  <2>1. PICK w \in ata_wait_drq(d) : v.d = DataOut(w.d, Marked(o.req.lba))
    BY SMTT(60), <1>2 DEF Issued
  <2> QED
    BY <2>1, PollKeeps, DataKeeps, SameEnableTrans
<1> QED
  BY <1>1, <1>2

(* ata_start_next_async_op, down a queue whose heads may fail. *)
LEMMA StartNextKeeps ==
    ASSUME NEW s, IsOutcome(s), NEW t \in ata_start_next_async_op(s)
    PROVE  IsOutcome(t) /\ SameEnable(s.dev, t.dev)
<1>1. CASE s.queue.active # NoOp \/ s.queue.head = NoOp
  BY <1>1 DEF ata_start_next_async_op, SameEnable
<1>2. CASE ~(s.queue.active # NoOp \/ s.queue.head = NoOp)
  <2> DEFINE o == ops[s.queue.head]
  <2>1. PICK w \in ata_wait_bsy(s.dev) :
          t \in {Outcome(Dequeued(s.queue), v.d, s.ops, s.done,
                         s.f + w.f + v.f, s.late \/ w.late \/ v.late) :
                    v \in Issued(o, Start(w.d, o.req, o.ext))}
    BY <1>2 DEF ata_start_next_async_op
  <2>2. PICK v \in Issued(o, Start(w.d, o.req, o.ext)) :
          t = Outcome(Dequeued(s.queue), v.d, s.ops, s.done,
                      s.f + w.f + v.f, s.late \/ w.late \/ v.late)
    BY <2>1
  <2>3. IsOutcome(t) /\ t.dev = v.d
    BY <2>2 DEF Outcome, IsOutcome
  <2>4. /\ SameEnable(s.dev, w.d)
        /\ SameEnable(w.d, Start(w.d, o.req, o.ext))
        /\ SameEnable(Start(w.d, o.req, o.ext), v.d)
    BY PollKeeps, StartKeeps, IssuedKeeps
  <2> QED
    BY <2>3, <2>4, SameEnableTrans
<1> QED
  BY <1>1, <1>2

(* ata_complete_async_op. *)
LEMMA CompleteKeeps ==
    ASSUME NEW s, NEW result, IsOutcome(s)
    PROVE  LET t == ata_complete_async_op(s, result)
           IN  IsOutcome(t) /\ t.dev = s.dev
  BY DEF ata_complete_async_op, IsOutcome

(* The interrupt handler, whatever the device reports. *)
LEMMA HandledKeeps ==
    ASSUME NEW s, IsOutcome(s), NEW t \in Handled(s)
    PROVE  SameEnable(s.dev, t.dev)
<1> DEFINE n == s.queue.active
<1>1. ASSUME t \in OnError(s) PROVE SameEnable(s.dev, t.dev)
  <2> DEFINE c == IF n = NoOp THEN s ELSE ata_complete_async_op(s, "IO_ERROR")
  <2>1. IsOutcome(c) /\ c.dev = s.dev
    BY CompleteKeeps
  <2>2. t \in ata_start_next_async_op(c)
    BY <1>1 DEF OnError
  <2> HIDE DEF c
  <2>3. SameEnable(c.dev, t.dev)
    BY <2>1, <2>2, StartNextKeeps
  <2> QED
    BY <2>1, <2>3
<1>2. ASSUME t \in OnRead(s, n) PROVE SameEnable(s.dev, t.dev)
  <2> DEFINE u == [s EXCEPT !.ops[n].got = Append(@, s.dev.disk[s.dev.lba]),
                            !.dev = DataIn(@)]
             c == ata_complete_async_op(u, "OK")
  <2>1. IsOutcome(u) /\ u.dev = DataIn(s.dev)
    BY DEF IsOutcome
  <2>2. t = u \/ t \in ata_start_next_async_op(c)
    BY <1>2 DEF OnRead
  <2> HIDE DEF u
  <2>3. IsOutcome(c) /\ c.dev = u.dev
    BY <2>1, CompleteKeeps
  <2> HIDE DEF c
  <2>4. SameEnable(u.dev, t.dev)
    BY <2>2, <2>3, StartNextKeeps DEF SameEnable
  <2> QED
    BY <2>1, <2>4, DataKeeps, SameEnableTrans
<1>3. ASSUME t \in OnWrite(s, n) PROVE SameEnable(s.dev, t.dev)
  <2> DEFINE u == [s EXCEPT !.ops[n].count = @ + 1]
             o == u.ops[n]
             e == Command(u.dev, "flush", o.req.drive, 0, 0)
             x(w) == [u EXCEPT !.dev = w.d, !.f = w.f, !.late = w.late]
             c(w) == ata_complete_async_op(x(w), "OK")
             z == [u EXCEPT !.dev = DataOut(@, Marked(o.req.lba + o.count))]
  <2>1. IsOutcome(u) /\ u.dev = s.dev
    BY DEF IsOutcome
  <2>2. t = z \/ \E w \in ata_wait_bsy(e) : t \in ata_start_next_async_op(c(w))
    BY <1>3 DEF OnWrite
  <2> HIDE DEF u
  <2>3. z.dev = DataOut(s.dev, Marked(o.req.lba + o.count))
    BY <2>1 DEF IsOutcome
  <2>4. CASE t = z
    <3> HIDE DEF z
    <3> QED
      BY <2>3, <2>4, DataKeeps
  <2>5. ASSUME NEW w \in ata_wait_bsy(e), t \in ata_start_next_async_op(c(w))
        PROVE  SameEnable(s.dev, t.dev)
    <3>1. IsOutcome(x(w)) /\ x(w).dev = w.d
      BY <2>1 DEF IsOutcome
    <3> HIDE DEF x
    <3>2. IsOutcome(c(w)) /\ c(w).dev = w.d
      BY <3>1, CompleteKeeps
    <3> HIDE DEF c
    <3>3. SameEnable(w.d, t.dev)
      BY <2>5, <3>2, StartNextKeeps
    <3>4. SameEnable(e, w.d)
      BY PollKeeps
    <3>5. SameEnable(s.dev, e)
      BY <2>1, CommandKeeps
    <3> QED
      BY <3>3, <3>4, <3>5, SameEnableTrans
  <2> QED
    BY <2>2, <2>4, <2>5
<1>4. t = s => SameEnable(s.dev, t.dev)
  BY DEF SameEnable
<1> QED
  BY <1>1, <1>2, <1>3, <1>4 DEF Handled

\* The gates, and what a polled transfer remembers of them: between polled
\* transfers of a channel with asynchronous ones both gates are open, and a
\* polled transfer of such a channel found them open.
GateInv ==
    /\ "nien" \in DOMAIN dev
    /\ gate = [masked |-> gate.masked, enabled |-> gate.enabled]
    /\ pio.pc \in {"none", "sector"}
    /\ pio.pc = "sector" =>
          /\ DOMAIN pio = {"pc", "req", "got", "wasOn", "wasMasked"}
          /\ mode # "off"
          /\ mode = "async" => pio.wasOn /\ ~pio.wasMasked
    /\ InterruptGate

(* The driver starts with asynchronous transfers off. *)
LEMMA GateInvInit == AtaInit => GateInv
  BY SMTT(60) DEF AtaInit, GateInv, InterruptGate, Quiet, NoPio

\* A step that leaves the thread, the mode and the gates alone keeps GateInv
\* if it keeps the device's interrupt enable.
LEMMA GateFrame ==
    ASSUME GateInv, UNCHANGED <<mode, gate, pio>>, SameEnable(dev, dev')
    PROVE  GateInv'
  BY DEF GateInv, InterruptGate, SameEnable

\* Every way out of a polled transfer opens the gates it found open.
LEMMA ReturnOpens ==
    ASSUME GateInv, NEW p, NEW g, NEW d, NEW result, NEW got,
           PioReturn(p, g, d, result, got), UNCHANGED mode,
           "nien" \in DOMAIN d, g.masked,
           mode = "async" => p.wasOn /\ ~p.wasMasked
    PROVE  GateInv'
<1>1. pio'.pc = "none" /\ "nien" \in DOMAIN dev'
  BY DEF PioReturn, NoPio, RestoredDevice, ata_enable_interrupts
<1>2. /\ gate' = [masked |-> gate'.masked, enabled |-> gate'.enabled]
      /\ mode = "async" => ~gate'.masked /\ gate'.enabled
  BY DEF PioReturn, Restored
<1>3. mode = "async" => ~dev'.nien
  BY DEF PioReturn, RestoredDevice, ata_enable_interrupts
<1> QED
  BY <1>1, <1>2, <1>3 DEF GateInv, InterruptGate

(* A polled transfer begins and shuts the gates, or fails before. *)
LEMMA TransferShuts ==
    ASSUME GateInv, NEW r, ata_transfer(r) PROVE GateInv'
<1>1. CASE Refusal(r) # "OK"
  BY <1>1, GateFrame DEF ata_transfer, SameEnable
<1>2. CASE Refusal(r) = "OK"
  <2> DEFINE p == [pc |-> "sector", req |-> r, got |-> << >>,
                   wasOn |-> gate.enabled, wasMasked |-> gate.masked]
             shut == [masked |-> TRUE, enabled |-> FALSE]
  <2>1. PICK w \in ata_wait_bsy(Shut(dev, r)) : PioBegun(p, w)
    BY <1>2 DEF ata_transfer
  <2>2. /\ pio.pc = "none" /\ UNCHANGED mode
        /\ mode # "off"
    BY <1>2 DEF ata_transfer, ThreadIdle, Refusal
  <2>3. "nien" \in DOMAIN Shut(dev, r) /\ (gate.enabled => Shut(dev, r).nien)
    BY DEF GateInv, Shut, ata_disable_interrupts, StatusRead
  <2>4. "nien" \in DOMAIN w.d /\ (gate.enabled => w.d.nien)
    BY <2>3, PollKeeps DEF SameEnable
  <2>5. mode = "async" => p.wasOn /\ ~p.wasMasked
    BY <2>2 DEF GateInv, InterruptGate
  <2>6. CASE w.r # "OK"
    <3>1. PioReturn(p, shut, w.d, w.r, << >>)
      BY <2>1, <2>6 DEF PioBegun
    <3>2. shut.masked
      OBVIOUS
    <3> HIDE DEF p, shut
    <3> QED
      BY <2>2, <2>4, <2>5, <3>1, <3>2, ReturnOpens
  <2>7. CASE w.r = "OK"
    <3>1. /\ pio' = p /\ gate' = shut
          /\ dev' = w.d \/ dev' = Start(w.d, r, UseLba48(r))
      BY <2>1, <2>7 DEF PioBegun
    <3>2. "nien" \in DOMAIN dev' /\ (gate.enabled => dev'.nien)
      BY <2>4, <3>1, StartKeeps DEF SameEnable
    <3> QED
      BY <2>2, <2>5, <3>1, <3>2 DEF GateInv, InterruptGate
  <2> QED
    BY <2>6, <2>7
<1> QED
  BY <1>1, <1>2

\* A polled transfer that goes on keeps what it remembers.
LEMMA PioGoesOn ==
    ASSUME GateInv, pio.pc = "sector", UNCHANGED <<mode, gate>>,
           NEW got, pio' = [pio EXCEPT !.got = got], SameEnable(dev, dev')
    PROVE  GateInv'
<1>1. /\ DOMAIN pio = {"pc", "req", "got", "wasOn", "wasMasked"}
      /\ DOMAIN pio' = DOMAIN pio /\ pio'.pc = "sector"
      /\ pio'.wasOn = pio.wasOn /\ pio'.wasMasked = pio.wasMasked
  BY DEF GateInv
<1> QED
  BY <1>1 DEF GateInv, InterruptGate, SameEnable

(* A step of a polled read. *)
LEMMA ReadKeepsGate == GateInv /\ ata_read_pio => GateInv'
<1> SUFFICES ASSUME GateInv, ata_read_pio PROVE GateInv'
  OBVIOUS
<1>1. /\ pio.pc = "sector" /\ UNCHANGED mode
      /\ "nien" \in DOMAIN dev /\ gate.masked
      /\ mode = "async" => pio.wasOn /\ ~pio.wasMasked
  BY DEF ata_read_pio, GateInv, InterruptGate
<1>2. PICK w \in ata_wait_drq(dev) : ReadSector(pio, w)
  BY DEF ata_read_pio
<1>3. SameEnable(dev, w.d) /\ SameEnable(dev, DataIn(w.d))
  BY PollKeeps, DataKeeps, SameEnableTrans
<1>4. "nien" \in DOMAIN w.d /\ "nien" \in DOMAIN DataIn(w.d)
  BY <1>1, <1>3 DEF SameEnable
<1> DEFINE got == Append(pio.got, w.d.disk[w.d.lba])
<1>5. \/ PioReturn(pio, gate, w.d, w.r, pio.got)
      \/ PioReturn(pio, gate, DataIn(w.d), "OK", got)
      \/ pio' = [pio EXCEPT !.got = got] /\ dev' = DataIn(w.d) /\ UNCHANGED gate
  BY <1>2 DEF ReadSector
<1> HIDE DEF got
<1>6. ASSUME NEW d, NEW result, NEW g, PioReturn(pio, gate, d, result, g),
             "nien" \in DOMAIN d
      PROVE  GateInv'
  BY <1>1, <1>6, ReturnOpens
<1>7. ASSUME pio' = [pio EXCEPT !.got = got], dev' = DataIn(w.d), UNCHANGED gate
      PROVE  GateInv'
  BY <1>1, <1>3, <1>7, PioGoesOn
<1> QED
  BY <1>4, <1>5, <1>6, <1>7

(* A step of a polled write. *)
LEMMA WriteKeepsGate == GateInv /\ ata_write_pio => GateInv'
<1> SUFFICES ASSUME GateInv, ata_write_pio PROVE GateInv'
  OBVIOUS
<1>1. /\ pio.pc = "sector" /\ UNCHANGED mode
      /\ "nien" \in DOMAIN dev /\ gate.masked
      /\ mode = "async" => pio.wasOn /\ ~pio.wasMasked
  BY DEF ata_write_pio, GateInv, InterruptGate
<1>2. PICK w \in ata_wait_drq(WriteCommand(dev, pio)) : WriteSector(pio, w)
  BY DEF ata_write_pio
<1>3. SameEnable(dev, WriteCommand(dev, pio))
  BY StartKeeps, CommandKeeps DEF WriteCommand
<1>4. SameEnable(dev, w.d)
  BY <1>3, PollKeeps, SameEnableTrans
<1>5. ASSUME NEW d, NEW result, NEW g, PioReturn(pio, gate, d, result, g),
             SameEnable(dev, d)
      PROVE  GateInv'
  BY <1>1, <1>5, ReturnOpens DEF SameEnable
<1>6. CASE w.r # "OK"
  BY <1>2, <1>4, <1>5, <1>6 DEF WriteSector
<1>7. CASE w.r = "OK"
  <2> DEFINE sec == pio.req.lba + Len(pio.got)
             got == Append(pio.got, Marked(sec))
             last == Len(got) = pio.req.sectors
             out == DataOut(w.d, Marked(sec))
  <2>1. PICK v \in WriteOutcomes(out, last) :
          IF last THEN PioReturn(pio, gate, v.d, "OK", got)
          ELSE pio' = [pio EXCEPT !.got = got] /\ dev' = v.d /\ UNCHANGED gate
    BY <1>2, <1>7 DEF WriteSector
  <2>2. SameEnable(w.d, out)
    BY DataKeeps
  <2> HIDE DEF out, last, got
  <2>3. SameEnable(out, v.d)
    BY WriteKeeps
  <2>4. SameEnable(dev, v.d)
    BY <1>4, <2>2, <2>3, SameEnableTrans
  <2>5. CASE last
    BY <1>5, <2>1, <2>4, <2>5
  <2>6. CASE ~last
    BY <1>1, <2>1, <2>4, <2>6, PioGoesOn
  <2> QED
    BY <2>5, <2>6
<1> QED
  BY <1>6, <1>7

\* The queue's routines, in the thread and in the handler.
LEMMA TakeKeepsGate ==
    ASSUME GateInv, NEW s, Take(s), SameEnable(dev, s.dev),
           UNCHANGED <<mode, gate, pio>>
    PROVE  GateInv'
<1>1. dev' = s.dev
  BY DEF Take
<1> QED
  BY <1>1, GateFrame

(* One case per action of driver and device. *)
LEMMA GateInvNext == GateInv /\ [AtaNext]_ataVars => GateInv'
<1> SUFFICES ASSUME GateInv, [AtaNext]_ataVars PROVE GateInv'
  OBVIOUS
<1>1. CASE DeviceStep
  BY <1>1, ProgressKeeps, GateFrame DEF DeviceStep
<1>2. ASSUME ata_init_async_io, UNCHANGED pio, pio.pc = "none" PROVE GateInv'
  BY SMTT(60), <1>2 DEF ata_init_async_io, ata_enable_interrupts, GateInv, InterruptGate
<1>3. ASSUME NEW async \in BOOLEAN, ata_init_ex(async) PROVE GateInv'
  <2>1. pio.pc = "none" /\ UNCHANGED pio
    BY <1>3 DEF GateInv, ata_init_ex
  <2>2. ata_init_async_io \/ (mode' = "sync" /\ UNCHANGED <<gate, dev>>)
    BY <1>3 DEF ata_init_ex
  <2> QED
    BY <1>2, <2>1, <2>2 DEF GateInv, InterruptGate
<1>4. CASE ata_init_async_mode
  BY <1>2, <1>4 DEF ata_init_async_mode
<1>5. CASE interrupt_finalize
  <2>1. /\ UNCHANGED <<mode, dev, pio>> /\ pio.pc = "none"
        /\ gate' = [gate EXCEPT !.masked = FALSE]
    BY <1>5 DEF interrupt_finalize
  <2>2. gate' = [masked |-> FALSE, enabled |-> gate.enabled]
    BY <2>1 DEF GateInv
  <2> QED
    BY <2>1, <2>2 DEF GateInv, InterruptGate
<1>6. ASSUME NEW r \in Requests, ata_async(r) PROVE GateInv'
  BY <1>6, GateFrame DEF ata_async, SameEnable
<1>7. CASE EnqueueFirst
  <2>1. UNCHANGED <<mode, gate, pio>>
    BY <1>7 DEF EnqueueFirst
  <2>2. UNCHANGED dev \/ \E s \in ata_start_next_async_op(Here) : Take(s)
    BY <1>7 DEF EnqueueFirst
  <2>3. IsOutcome(Here) /\ Here.dev = dev
    BY DEF IsOutcome, Here, Outcome
  <2>4. ASSUME NEW s \in ata_start_next_async_op(Here), Take(s) PROVE GateInv'
    BY <2>1, <2>3, <2>4, StartNextKeeps, TakeKeepsGate
  <2> QED
    BY <2>1, <2>2, <2>4, GateFrame DEF SameEnable
<1>8. CASE EnqueueBehind
  BY <1>8, GateFrame DEF EnqueueBehind, SameEnable
<1>9. CASE ata_irq_handler
  <2> DEFINE h == [Here EXCEPT !.dev = StatusRead(@)]
  <2>1. PICK s \in Handled(h) : Take(s)
    BY <1>9 DEF ata_irq_handler
  <2>2. IsOutcome(h) /\ h.dev = StatusRead(dev)
    BY DEF IsOutcome, Here, Outcome
  <2> HIDE DEF h
  <2>3. SameEnable(dev, s.dev)
    BY <2>2, HandledKeeps, StatusKeeps, SameEnableTrans
  <2> QED
    BY <1>9, <2>1, <2>3, TakeKeepsGate DEF ata_irq_handler
<1>10. CASE UNCHANGED ataVars
  BY <1>10, GateFrame DEF ataVars, SameEnable
<1> QED
  BY <1>1, <1>3, <1>4, <1>5, <1>6, <1>7, <1>8, <1>9, <1>10, TransferShuts,
     ReadKeepsGate, WriteKeepsGate DEF AtaNext

(* Whatever the device answers and whatever is queued (ata.c): a polled    *)
(* transfer runs with the line masked and the device's interrupt off, and  *)
(* each of its returns, the failing ones included, opens both again once   *)
(* asynchronous transfers are up.                                          *)
THEOREM GatesReopen == AtaSpec => []InterruptGate
<1>1. GateInv => InterruptGate
  BY DEF GateInv
<1> QED
  BY <1>1, GateInvInit, GateInvNext, PTL DEF AtaSpec
=============================================================================
