---------------------------- MODULE DataStoreProofs ------------------------------
(***************************************************************************)
(* What holds of a data store for any sizes of its file and its chunks and *)
(* any number of versions, calls and crashes.  Its free list file is never *)
(* out of date.  The buddy allocator never hands out the same space twice, *)
(* and every unit of the file stays accounted for, until the process dies  *)
(* in one of the windows that the variable caught remembers.               *)
(***************************************************************************)
EXTENDS DataStore, WellFoundedInduction, TLAPS

(* The inductive invariant: what the file offers is what memory has; lists that  *)
(* are to be saved were invalidated when they changed; a save under way is one   *)
(* of those; and without a data file nothing was ever saved or is to be saved,   *)
(* which is why invalidateFreelistFile may return early.                         *)
SavedInv ==
    /\ PersistedIsCurrent
    /\ fldirty => fl = {}
    /\ torn => fldirty
    /\ ~isFileCreated => fl = {} /\ ~fldirty
    /\ {fldirty, torn, isFileCreated} \subseteq BOOLEAN

(* After invalidateFreelistFile the lists may change: nothing is saved, and the  *)
(* flusher knows of the store once there is a data file.                         *)
LEMMA Invalidated ==
    ASSUME SavedInv, invalidateFreelistFile
    PROVE  fl' = {} /\ fldirty' \in BOOLEAN /\ (fldirty' <=> isFileCreated)
  BY DEF SavedInv, PersistedIsCurrent, invalidateFreelistFile

(* freeChunk leaves nothing saved, whether or not the chunk was free already. *)
LEMMA FreeChunkKeeps ==
    ASSUME SavedInv, NEW b, freeChunk(b)
    PROVE  SavedInv'
<1>1. fl' = {} /\ fldirty' \in BOOLEAN /\ (fldirty' <=> isFileCreated)
  BY Invalidated DEF freeChunk
<1>2. isFileCreated' = isFileCreated \/ isFileCreated' = TRUE
  BY DEF freeChunk, checkFileOpen
<1>3. torn' = torn
  BY DEF freeChunk
<1> QED
  BY <1>1, <1>2, <1>3, Zenon DEF SavedInv, PersistedIsCurrent

(* flush truncates the file when the lists are to be saved. *)
LEMMA FlushKeeps ==
    ASSUME SavedInv, flush
    PROVE  SavedInv'
  BY DEF SavedInv, PersistedIsCurrent, flush, memory

(* Every step of the store, the index, the flusher and a crash keeps it. *)
LEMMA SavedStep ==
    ASSUME SavedInv, [Next]_vars
    PROVE  SavedInv'
<1>1. ASSUME NEW n \in Request, allocateSpace(n)
      PROVE  SavedInv'
  <2>1. fl' = {} /\ fldirty' \in BOOLEAN /\ (fldirty' <=> isFileCreated)
    BY <1>1, Invalidated DEF allocateSpace
  <2> QED
    BY <1>1, <2>1 DEF allocateSpace, SavedInv, PersistedIsCurrent
<1>2. ASSUME NEW b \in held \cup new, writeData(b)
      PROVE  SavedInv'
  BY <1>2 DEF writeData, SavedInv, PersistedIsCurrent
<1>3. ASSUME NEW b \in held, insertRecord(b)
      PROVE  SavedInv'
  BY <1>3 DEF insertRecord, memory, files, SavedInv, PersistedIsCurrent
<1>4. ASSUME NEW b \in held, cleanupDiskIndexValue(b)
      PROVE  SavedInv'
  BY <1>4, FreeChunkKeeps DEF cleanupDiskIndexValue
<1>5. ASSUME NEW b \in old, readData(b)
      PROVE  SavedInv'
  BY <1>5 DEF readData, checkFileOpen, SavedInv, PersistedIsCurrent
<1>6. ASSUME NEW b \in old, deleteRecord(b)
      PROVE  SavedInv'
  BY <1>6, FreeChunkKeeps DEF deleteRecord
<1>7. ASSUME NEW b \in new, discardBuffer(b)
      PROVE  SavedInv'
  BY <1>7, FreeChunkKeeps DEF discardBuffer
<1>8. CASE invalidateFails
  BY <1>8 DEF invalidateFails, memory, SavedInv, PersistedIsCurrent
<1>9. CASE FlushJob
  BY <1>9, FlushKeeps DEF FlushJob
<1>10. CASE persistFreelists
  BY <1>10, Zenon DEF persistFreelists, SavedInv, PersistedIsCurrent
<1>11. CASE flushVersion
  BY <1>11, FlushKeeps DEF flushVersion
<1>12. CASE commitVersion \/ rollbackVersion \/ eraseRecord
  BY <1>12 DEF commitVersion, rollbackVersion, eraseRecord, memory, files,
     SavedInv, PersistedIsCurrent
<1>13. CASE closeDataStore
  BY <1>13, Zenon DEF closeDataStore, initializeFreelist, SavedInv, PersistedIsCurrent
<1>14. CASE eraseEntries
  <2>1. CASE op = "erase"
    BY <1>14, <2>1 DEF eraseEntries, memory, files, SavedInv, PersistedIsCurrent
  <2>2. CASE op # "erase"
    BY <1>14, <2>2, FlushKeeps DEF eraseEntries
  <2> QED
    BY <2>1, <2>2
<1>15. CASE restart
  (* what is read is what was saved; without a data file nothing was *)
  BY <1>15, Zenon DEF restart, initializeFreelist, SavedInv, PersistedIsCurrent
<1>16. CASE UNCHANGED vars
  BY <1>16 DEF vars, memory, files, SavedInv, PersistedIsCurrent
<1>17. ASSUME NEW n \in Request, makeMoreSpaceFails(n)
       PROVE  SavedInv'
  <2>1. fl' = {} /\ fldirty' \in BOOLEAN /\ (fldirty' <=> isFileCreated)
    BY <1>17, Invalidated DEF makeMoreSpaceFails
  <2> QED
    BY <1>17, <2>1 DEF makeMoreSpaceFails, SavedInv, PersistedIsCurrent
<1> QED
  BY <1>1, <1>2, <1>3, <1>4, <1>5, <1>6, <1>7, <1>8, <1>9, <1>10, <1>11, <1>12, <1>13,
     <1>14, <1>15, <1>16, <1>17 DEF Next

(* The free list file of a data store never offers lists that differ from those in  *)
(* memory (invalidateFreelistFile, persistFreelists and the constructor), wherever  *)
(* the process dies.                                                                *)
THEOREM SavedListsAreCurrent == Spec => []PersistedIsCurrent
<1>1. Init => SavedInv
  BY Zenon DEF Init, SavedInv, PersistedIsCurrent
<1>2. SavedInv /\ [Next]_vars => SavedInv'
  BY SavedStep
<1>3. SavedInv => PersistedIsCurrent
  BY DEF SavedInv
<1> QED
  BY <1>1, <1>2, <1>3, PTL DEF Spec

-----------------------------------------------------------------------------
(* Powers of two.  The natural numbers have the least-number principle, and with *)
(* it induction, as facts about sets.                                            *)

LEMMA LeastNumber ==
    ASSUME NEW S, S \subseteq Nat, S # {}
    PROVE  \E m \in S : \A n \in S : m <= n
<1>1. \E R : IsWellFoundedOn(R, Nat) /\ \A x \in Nat, y \in Nat : <<y, x>> \in R <=> y < x
  <2>1. \A x \in Nat, y \in Nat : <<y, x>> \in OpToRel(<, Nat) <=> y < x
    BY Zenon DEF OpToRel
  <2> QED
    BY <2>1, NatLessThanWellFounded, Zenon
<1>2. PICK R : IsWellFoundedOn(R, Nat) /\ \A x \in Nat, y \in Nat : <<y, x>> \in R <=> y < x
  BY <1>1, Zenon
<1>3. PICK m \in S : \A n \in S : ~(<<n, m>> \in R)
  BY <1>2, WFMin, Zenon
<1>4. \A n \in S : ~(n < m)
  BY <1>2, <1>3, Zenon
<1> QED
  BY <1>3, <1>4

LEMMA SetInduction ==
    ASSUME NEW S, 0 \in S, \A n \in Nat : n \in S => n + 1 \in S
    PROVE  Nat \subseteq S
<1> SUFFICES ASSUME ~(Nat \subseteq S)
             PROVE  FALSE
  OBVIOUS
<1> DEFINE T == {n \in Nat : n \notin S}
<1>1. T \subseteq Nat /\ T # {}
  OBVIOUS
<1> HIDE DEF T
<1>2. PICK m \in T : \A n \in T : m <= n
  BY <1>1, LeastNumber, Zenon
<1>3. m \in Nat /\ m # 0 /\ m - 1 \in Nat /\ m - 1 \notin T
  BY <1>2 DEF T
<1> QED
  BY <1>2, <1>3 DEF T

(* The first n + 1 powers of two exist and are unique; pow2 collects them. *)
Powers(n) == {h \in [0 .. n -> Nat] : h[0] = 1 /\ \A k \in 1 .. n : h[k] = 2 * h[k - 1]}

LEMMA PowersExist ==
    ASSUME NEW n \in Nat
    PROVE  Powers(n) # {}
<1> DEFINE S == {m \in Nat : Powers(m) # {}}
<1>1. 0 \in S
  <2>1. [k \in 0 .. 0 |-> 1] \in Powers(0)
    BY DEF Powers
  <2> QED
    BY <2>1
<1>2. ASSUME NEW m \in Nat, m \in S
      PROVE  m + 1 \in S
  <2>1. PICK h \in Powers(m) : TRUE
    BY <1>2
  <2> DEFINE g == [k \in 0 .. m + 1 |-> IF k = m + 1 THEN 2 * h[m] ELSE h[k]]
  <2>2. g \in Powers(m + 1)
    BY <2>1 DEF Powers
  <2> QED
    BY <2>2
<1> HIDE DEF S
<1>3. Nat \subseteq S
  BY <1>1, <1>2, SetInduction
<1> QED
  BY <1>3 DEF S

LEMMA PowersAgree ==
    ASSUME NEW n \in Nat, NEW m \in Nat, NEW h \in Powers(n), NEW g \in Powers(m),
           NEW k \in Nat, k <= n, k <= m
    PROVE  h[k] = g[k]
<1> DEFINE S == {l \in Nat : l <= n /\ l <= m => h[l] = g[l]}
<1>1. 0 \in S
  BY DEF Powers
<1>2. ASSUME NEW l \in Nat, l \in S
      PROVE  l + 1 \in S
  BY <1>2 DEF Powers
<1> HIDE DEF S
<1>3. Nat \subseteq S
  BY <1>1, <1>2, SetInduction
<1> QED
  BY <1>3 DEF S

LEMMA Pow2Defined ==
    /\ pow2 \in [Nat -> Nat]
    /\ pow2[0] = 1
    /\ \A n \in Nat : pow2[n + 1] = 2 * pow2[n]
<1> DEFINE H(n) == CHOOSE h \in Powers(n) : TRUE
           g == [n \in Nat |-> H(n)[n]]
           Def(f) == [n \in Nat |-> IF n = 0 THEN 1 ELSE 2 * f[n - 1]]
<1>1. ASSUME NEW n \in Nat
      PROVE  H(n) \in Powers(n)
  BY PowersExist
<1> HIDE DEF H
<1>2. g \in [Nat -> Nat] /\ g[0] = 1
  BY <1>1 DEF Powers
<1>3. ASSUME NEW n \in Nat
      PROVE  g[n + 1] = 2 * g[n]
  <2>1. H(n + 1) \in Powers(n + 1) /\ H(n) \in Powers(n) /\ n + 1 \in Nat
    BY <1>1
  <2>2. H(n + 1)[n] = H(n)[n]
    BY <2>1, PowersAgree
  <2>3. H(n + 1)[n + 1] = 2 * H(n + 1)[n]
    BY <2>1 DEF Powers
  <2> QED
    BY <2>1, <2>2, <2>3
<1>4. g = Def(g)
  BY <1>2, <1>3
<1>5. pow2 = Def(pow2)
  <2>1. pow2 = CHOOSE f : f = Def(f)
    BY Zenon DEF pow2
  <2> HIDE DEF g, Def
  <2> QED
    BY <1>4, <2>1, Zenon
<1>6. pow2[0] = 1 /\ \A n \in Nat : pow2[n + 1] = 2 * pow2[n]
  BY <1>5
<1>7. pow2 \in [Nat -> Nat]
  <2> DEFINE S == {n \in Nat : pow2[n] \in Nat}
  <2>1. 0 \in S /\ \A n \in Nat : n \in S => n + 1 \in S
    BY <1>6
  <2> HIDE DEF S
  <2>2. Nat \subseteq S
    BY <2>1, SetInduction
  <2> QED
    BY <1>5, <2>2 DEF S
<1> QED
  BY <1>6, <1>7

LEMMA Pow2Grows ==
    ASSUME NEW m \in Nat, NEW n \in Nat
    PROVE  pow2[m] \in Nat \ {0} /\ pow2[m + n] = pow2[m] * pow2[n]
<1> DEFINE S == {k \in Nat : pow2[k] # 0}
           R == {k \in Nat : pow2[m + k] = pow2[m] * pow2[k]}
<1>1. 0 \in S /\ \A k \in Nat : k \in S => k + 1 \in S
  BY Pow2Defined
<1>2. 0 \in R
  BY Pow2Defined
<1>3. ASSUME NEW k \in Nat, k \in R
      PROVE  k + 1 \in R
  <2>1. pow2[m + (k + 1)] = 2 * pow2[m + k] /\ pow2[k + 1] = 2 * pow2[k]
    <3>1. m + (k + 1) = (m + k) + 1 /\ m + k \in Nat
      OBVIOUS
    <3> QED
      BY <3>1, Pow2Defined
  <2>2. pow2[m] \in Nat /\ pow2[k] \in Nat
    BY Pow2Defined
  <2>3. \A x, y \in Nat : 2 * (x * y) = x * (2 * y)
    OBVIOUS
  <2>4. pow2[m + (k + 1)] = pow2[m] * pow2[k + 1]
    BY <1>3, <2>1, <2>2, <2>3
  <2> QED
    BY <2>4
<1> HIDE DEF S, R
<1>4. Nat \subseteq S /\ Nat \subseteq R
  BY <1>1, <1>2, <1>3, SetInduction
<1> QED
  BY <1>4, Pow2Defined DEF S, R

(* The widths of blocks: the sizes of a store, and one more for merging. *)
Widths == {pow2[n] : n \in 0 .. MaxLog + 1}

LEMMA WidthFacts ==
    /\ Widths = Sizes \cup {2 * pow2[MaxLog]} /\ pow2[MaxLog] \in Sizes
    /\ 1 \in Sizes /\ Widths \subseteq Nat \ {0}
    /\ \A s \in Sizes : s <= pow2[MaxLog]
<1> USE DataStoreAssumption
<1>1. pow2[MaxLog + 1] = 2 * pow2[MaxLog] /\ pow2[0] = 1
  BY Pow2Defined
<1>2. Widths = Sizes \cup {2 * pow2[MaxLog]}
  BY <1>1 DEF Widths, Sizes
<1>3. 1 \in Sizes /\ pow2[MaxLog] \in Sizes
  BY <1>1 DEF Sizes
<1>4. Widths \subseteq Nat \ {0}
  <2>1. \A n \in Nat : pow2[n] \in Nat \ {0}
    BY Pow2Grows
  <2> QED
    BY <2>1 DEF Widths
<1>5. ASSUME NEW n \in 0 .. MaxLog
      PROVE  pow2[n] <= pow2[MaxLog]
  <2>1. n \in Nat /\ MaxLog - n \in Nat /\ n + (MaxLog - n) = MaxLog
    OBVIOUS
  <2>2. /\ pow2[n] \in Nat \ {0} /\ pow2[MaxLog - n] \in Nat \ {0}
        /\ pow2[MaxLog] = pow2[n] * pow2[MaxLog - n]
    BY <2>1, Pow2Grows, Zenon
  <2>3. \A x, y \in Nat \ {0} : x <= x * y
    OBVIOUS
  <2> QED
    BY <2>2, <2>3
<1> QED
  BY <1>2, <1>3, <1>4, <1>5 DEF Sizes

(* A width is a multiple of twice any smaller one. *)
LEMMA WidthsDivide ==
    ASSUME NEW s \in Widths, NEW t \in Widths, s < t
    PROVE  \E k \in Nat \ {0} : t = (2 * s) * k
<1> USE DataStoreAssumption
<1>1. PICK m \in 0 .. MaxLog + 1 : s = pow2[m]
  BY DEF Widths
<1>2. PICK n \in 0 .. MaxLog + 1 : t = pow2[n]
  BY DEF Widths
<1>3. n > m
  <2> SUFFICES ASSUME n <= m
               PROVE  FALSE
    OBVIOUS
  <2>1. n \in Nat /\ m - n \in Nat /\ n + (m - n) = m
    OBVIOUS
  <2>2. /\ t \in Nat \ {0} /\ pow2[m - n] \in Nat \ {0}
        /\ s = t * pow2[m - n]
    BY <1>1, <1>2, <2>1, Pow2Grows, Zenon
  <2>3. \A x, y \in Nat \ {0} : x <= x * y
    OBVIOUS
  <2> QED
    BY <2>2, <2>3
<1>4. m + 1 \in Nat /\ n - (m + 1) \in Nat /\ (m + 1) + (n - (m + 1)) = n /\ m \in Nat
  BY <1>3
<1>5. t = pow2[m + 1] * pow2[n - (m + 1)] /\ pow2[n - (m + 1)] \in Nat \ {0}
  BY <1>2, <1>4, Pow2Grows, Zenon
<1>6. pow2[m + 1] = 2 * s
  BY <1>1, <1>4, Pow2Defined
<1> QED
  BY <1>5, <1>6, Zenon

LEMMA WidthSteps ==
    /\ \A s \in Widths, t \in Widths : s < t => 2 * s <= t /\ 2 * s \in Widths /\ s \in Sizes
    /\ \A s \in Sizes : 2 * s \in Widths
    /\ \A t \in Widths : t # 1 => \E s \in Sizes : t = 2 * s
<1> USE DataStoreAssumption
<1>1. ASSUME NEW s \in Widths, NEW t \in Widths, s < t
      PROVE  2 * s <= t /\ s \in Sizes
  <2>1. PICK k \in Nat \ {0} : t = (2 * s) * k
    BY <1>1, WidthsDivide
  <2>2. s \in Nat \ {0} /\ 2 * s \in Nat
    BY WidthFacts
  <2>3. \A x \in Nat, y \in Nat \ {0} : x <= x * y
    OBVIOUS
  <2>4. 2 * s <= t
    BY <2>1, <2>2, <2>3
  <2>5. s # 2 * pow2[MaxLog]
    BY <1>1, <2>2, <2>4, WidthFacts
  <2> QED
    BY <2>4, <2>5, WidthFacts
<1>2. ASSUME NEW s \in Sizes
      PROVE  2 * s \in Widths
  <2>1. PICK n \in 0 .. MaxLog : s = pow2[n]
    BY DEF Sizes
  <2>2. pow2[n + 1] = 2 * s /\ n + 1 \in 0 .. MaxLog + 1
    BY <2>1, Pow2Defined
  <2> QED
    BY <2>2 DEF Widths
<1>3. ASSUME NEW t \in Widths, t # 1
      PROVE  \E s \in Sizes : t = 2 * s
  <2>1. PICK n \in 0 .. MaxLog + 1 : t = pow2[n]
    BY DEF Widths
  <2>2. n # 0 /\ n - 1 \in 0 .. MaxLog /\ n - 1 \in Nat /\ (n - 1) + 1 = n
    BY <1>3, <2>1, Pow2Defined
  <2>3. t = 2 * pow2[n - 1] /\ pow2[n - 1] \in Sizes
    BY <2>1, <2>2, Pow2Defined DEF Sizes
  <2> QED
    BY <2>3
<1> QED
  BY <1>1, <1>2, <1>3

(* What holds for one width, and for twice a size it holds for, holds from there on. *)
LEMMA WidthInduction ==
    ASSUME NEW S, NEW r \in Widths, r \in S,
           \A s \in Sizes : s >= r /\ s \in S => 2 * s \in S,
           NEW t \in Widths, t >= r
    PROVE  t \in S
<1> SUFFICES ASSUME t \notin S
             PROVE  FALSE
  OBVIOUS
<1> DEFINE T == {w \in Widths : w >= r /\ w \notin S}
<1>1. T \subseteq Nat /\ T # {}
  BY WidthFacts
<1> HIDE DEF T
<1>2. PICK m \in T : \A n \in T : m <= n
  BY <1>1, LeastNumber, Zenon
<1>3. m \in Widths /\ m > r /\ r \in Nat \ {0} /\ m \in Nat \ {0}
  BY <1>2, WidthFacts DEF T
<1>4. PICK s \in Sizes : m = 2 * s
  BY <1>3, WidthSteps
<1>5. s \in Widths /\ s \in Nat \ {0} /\ s < m
  BY <1>3, <1>4, WidthFacts
<1>6. 2 * r <= m
  BY <1>3, WidthSteps
<1>7. s \in S
  BY <1>2, <1>3, <1>4, <1>5, <1>6 DEF T
<1>8. m \in S
  BY <1>3, <1>4, <1>5, <1>6, <1>7
<1> QED
  BY <1>2, <1>8 DEF T

-----------------------------------------------------------------------------
(* Aligned blocks: two of them are nested or apart, a block and its buddy make a  *)
(* block of twice the size, and there is one block of each width around a block.  *)

LEMMA Remainders ==
    ASSUME NEW x \in Nat, NEW s \in Nat \ {0}
    PROVE  /\ x % s \in 0 .. s - 1 /\ x \div s \in Nat
           /\ x = s * (x \div s) + (x % s)
<1>1. x % s \in 0 .. s - 1
  OBVIOUS
<1>2. x \div s \in Nat
  OBVIOUS
<1>3. x = s * (x \div s) + (x % s)
  OBVIOUS
<1> QED
  BY <1>1, <1>2, <1>3

LEMMA Multiples ==
    ASSUME NEW s \in Nat \ {0}, NEW k \in Nat, NEW r \in 0 .. s - 1
    PROVE  (s * k + r) % s = r
<1> DEFINE x == s * k + r
<1>1. x \in Nat
  OBVIOUS
<1>2. /\ x % s \in 0 .. s - 1 /\ x \div s \in Nat
      /\ x = s * (x \div s) + (x % s)
  BY <1>1, Remainders, Zenon
<1>3. \A i, j \in Nat : i < j => s * i + s <= s * j
  OBVIOUS
<1>4. x \div s = k
  BY <1>2, <1>3
<1> QED
  BY <1>2, <1>4

LEMMA MultiplesOfMultiples ==
    ASSUME NEW x \in Nat, NEW s \in Nat \ {0}, NEW k \in Nat \ {0}, x % (s * k) = 0
    PROVE  \E j \in Nat : x = s * (j * k)
<1> DEFINE t == s * k
<1>1. t \in Nat \ {0} /\ \A j \in Nat : t * j = s * (j * k)
  OBVIOUS
<1>2. x % t = 0
  OBVIOUS
<1> HIDE DEF t
<1>3. x = t * (x \div t) /\ x \div t \in Nat
  BY <1>1, <1>2, Remainders
<1> QED
  BY <1>1, <1>3

Dyadic == {b \in [off : Nat, size : Widths] : b.off % b.size = 0}

LEMMA DyadicUnits ==
    ASSUME NEW b \in Dyadic
    PROVE  /\ b.off \in Nat /\ b.size \in Widths /\ b.size \in Nat \ {0} /\ b = Block(b.off, b.size)
           /\ \A u : u \in Units(b) <=> u \in Nat /\ b.off <= u /\ u < b.off + b.size
           /\ b.off \in Units(b)
<1>1. b.off \in Nat /\ b.size \in Widths /\ b = Block(b.off, b.size)
  BY DEF Dyadic, Block
<1>2. b.size \in Nat \ {0}
  BY <1>1, WidthFacts
<1> QED
  BY <1>1, <1>2 DEF Units

(* Aligned offsets at two widths, the second a multiple of the first. *)
LEMMA AlignedOffsets ==
    ASSUME NEW s \in Nat \ {0}, NEW k \in Nat \ {0},
           NEW x \in Nat, x % s = 0, NEW y \in Nat, y % (s * k) = 0
    PROVE  x + s <= y \/ y + s * k <= x \/ (y <= x /\ x + s <= y + s * k)
<1>1. PICK j \in Nat : y = s * (j * k)
  BY MultiplesOfMultiples, Zenon
<1>2. x = s * (x \div s) /\ x \div s \in Nat
  BY Remainders
<1> DEFINE i == x \div s
           m == j * k
<1>3. m \in Nat /\ m + k \in Nat
  OBVIOUS
<1>4. \A a, b \in Nat : a < b => s * a + s <= s * b
  OBVIOUS
<1>5. \A a, b \in Nat : a <= b => s * a <= s * b
  OBVIOUS
<1>6. s * (m + k) = s * m + s * k
  BY <1>3
<1>7. x = s * i /\ i \in Nat /\ y = s * m
  BY <1>1, <1>2
<1> HIDE DEF i, m
<1>8. CASE i < m
  BY <1>3, <1>4, <1>7, <1>8
<1>9. CASE m + k <= i
  BY <1>3, <1>5, <1>6, <1>7, <1>9
<1>10. CASE m <= i /\ i < m + k
  <2>1. s * m <= s * i
    BY <1>3, <1>5, <1>7, <1>10
  <2>2. s * i + s <= s * (m + k)
    BY <1>3, <1>4, <1>7, <1>10
  <2> QED
    BY <1>6, <1>7, <2>1, <2>2
<1> QED
  BY <1>3, <1>7, <1>8, <1>9, <1>10

LEMMA NestedOrApart ==
    ASSUME NEW b \in Dyadic, NEW c \in Dyadic, b.size <= c.size
    PROVE  Units(b) \subseteq Units(c) \/ Units(b) \cap Units(c) = {}
<1>1. /\ b.off \in Nat /\ b.size \in Nat \ {0} /\ b.off % b.size = 0
      /\ c.off \in Nat /\ c.size \in Nat \ {0} /\ c.off % c.size = 0
      /\ b.size \in Widths /\ c.size \in Widths
  BY DyadicUnits DEF Dyadic
<1>2. \E k \in Nat \ {0} : c.size = b.size * k
  <2>1. CASE b.size = c.size
    <3>1. c.size = b.size * 1
      BY <1>1, <2>1
    <3> QED
      BY <3>1
  <2>2. CASE b.size < c.size
    <3>1. PICK k \in Nat \ {0} : c.size = (2 * b.size) * k
      BY <1>1, <2>2, WidthsDivide
    <3>2. (2 * b.size) * k = b.size * (2 * k) /\ 2 * k \in Nat \ {0}
      BY <1>1
    <3> QED
      BY <3>1, <3>2
  <2> QED
    BY <1>1, <2>1, <2>2
<1>3. PICK k \in Nat \ {0} : c.size = b.size * k
  BY <1>2
<1>4. \/ b.off + b.size <= c.off \/ c.off + c.size <= b.off
      \/ c.off <= b.off /\ b.off + b.size <= c.off + c.size
  BY <1>1, <1>3, AlignedOffsets
<1> QED
  BY <1>1, <1>4 DEF Units

LEMMA SameWidth ==
    ASSUME NEW b \in Dyadic, NEW c \in Dyadic, b.size = c.size, Units(b) \cap Units(c) # {}
    PROVE  b = c
<1>1. /\ b.off \in Nat /\ b.size \in Nat \ {0} /\ c.off \in Nat /\ c.size \in Nat \ {0}
      /\ b = Block(b.off, b.size) /\ c = Block(c.off, c.size)
      /\ b.off \in Units(b) /\ c.off \in Units(c)
      /\ \A u : u \in Units(b) <=> u \in Nat /\ b.off <= u /\ u < b.off + b.size
      /\ \A u : u \in Units(c) <=> u \in Nat /\ c.off <= u /\ u < c.off + c.size
  BY DyadicUnits
<1>2. Units(b) \subseteq Units(c) /\ Units(c) \subseteq Units(b)
  BY <1>1, NestedOrApart
<1>3. b.off = c.off
  BY <1>1, <1>2
<1> QED
  BY <1>1, <1>3

LEMMA DyadicBlock ==
    ASSUME NEW x \in Nat, NEW s \in Widths, x % s = 0
    PROVE  Block(x, s) \in Dyadic /\ Block(x, s).off = x /\ Block(x, s).size = s
<1>1. Block(x, s) \in [off : Nat, size : Widths] /\ Block(x, s).off = x /\ Block(x, s).size = s
  BY DEF Block
<1> QED
  BY <1>1, Zenon DEF Dyadic

LEMMA ParentFacts ==
    ASSUME NEW b \in Dyadic, NEW s \in Widths, b.size <= s
    PROVE  /\ Parent(b, s) \in Dyadic /\ Parent(b, s).size = s
           /\ Units(b) \subseteq Units(Parent(b, s))
<1>1. /\ b.off \in Nat /\ b.size \in Nat \ {0} /\ b.off \in Units(b)
      /\ s \in Nat \ {0}
  BY DyadicUnits, WidthFacts, Zenon
<1>2. PICK q \in Nat, r \in 0 .. s - 1 : b.off % s = r /\ b.off = s * q + r
  BY <1>1, Remainders, Zenon
<1>3. PICK p \in Nat : p = s * q
  BY <1>1
<1>4. p % s = 0
  <2>1. 0 \in 0 .. s - 1 /\ p + 0 = p
    BY <1>1
  <2> QED
    BY <1>1, <1>3, <2>1, Multiples
<1>5. b.off - (b.off % s) = p /\ b.off = p + r
  <2>1. b.off = p + r
    BY <1>2, <1>3
  <2>2. (p + r) - r = p
    OBVIOUS
  <2> QED
    BY <1>2, <2>1, <2>2, Zenon
<1>6. Parent(b, s) = [off |-> p, size |-> s]
  BY <1>5 DEF Parent, Block
<1>7. Parent(b, s) \in Dyadic /\ Parent(b, s).size = s
  BY <1>4, <1>6 DEF Dyadic
<1>8. b.off \in Units(Parent(b, s))
  BY <1>1, <1>5, <1>6 DEF Units
<1> QED
  BY <1>1, <1>7, <1>8, NestedOrApart

LEMMA ParentUnique ==
    ASSUME NEW b \in Dyadic, NEW c \in Dyadic, b.size <= c.size, Units(b) \cap Units(c) # {}
    PROVE  c = Parent(b, c.size) /\ Units(b) \subseteq Units(c)
<1>1. c.size \in Widths
  BY DyadicUnits
<1>2. Units(b) \subseteq Units(c)
  BY NestedOrApart
<1>3. /\ Parent(b, c.size) \in Dyadic /\ Parent(b, c.size).size = c.size
      /\ Units(b) \subseteq Units(Parent(b, c.size))
  BY <1>1, ParentFacts
<1>4. Units(c) \cap Units(Parent(b, c.size)) # {}
  BY <1>2, <1>3
<1> QED
  BY <1>2, <1>3, <1>4, SameWidth

LEMMA BuddyFacts ==
    ASSUME NEW c \in Dyadic, c.size \in Sizes
    PROVE  /\ Buddy(c) \in Dyadic /\ Buddy(c).size = c.size /\ Buddy(c) # c
           /\ Units(Buddy(c)) \cap Units(c) = {}
           /\ Units(Parent(c, 2 * c.size)) = Units(c) \cup Units(Buddy(c))
           /\ Buddy(Buddy(c)) = c
<1>1. PICK x \in Nat, s \in Nat \ {0} :
         /\ c = Block(x, s) /\ c.size = s /\ x % s = 0
         /\ s \in Widths /\ 2 * s \in Widths /\ 2 * s \in Nat \ {0}
  BY DyadicUnits, WidthSteps DEF Dyadic
<1>2. PICK j \in Nat, r \in 0 .. 2 * s - 1 : x = (2 * s) * j + r
  <2>1. \A t \in Nat \ {0} : \E j \in Nat, r \in 0 .. t - 1 : x = t * j + r
    BY Remainders, Zenon
  <2> QED
    BY <1>1, <2>1, Zenon
<1>3. r = 0 \/ r = s
  <2>1. PICK i \in Nat : x = s * i
    <3>1. x = s * (x \div s) + (x % s) /\ x \div s \in Nat
      BY Remainders
    <3>2. s * (x \div s) \in Nat
      BY <3>1
    <3>3. x = s * (x \div s)
      BY <1>1, <3>1, <3>2
    <3> QED
      BY <3>1, <3>3
  <2>2. PICK h \in Nat : h = 2 * j
    OBVIOUS
  <2>3. (2 * s) * j = s * h
    BY <2>2
  <2>4. \A a, b \in Nat : a < b => s * a + s <= s * b
    OBVIOUS
  <2>5. s * (h + 1) = s * h + s
    OBVIOUS
  <2>6. CASE i < h
    BY <1>2, <2>1, <2>3, <2>4, <2>6
  <2>7. CASE h + 1 < i
    <3>1. s * (h + 1) + s <= s * i
      BY <2>4, <2>7
    <3> QED
      BY <1>2, <2>1, <2>3, <2>5, <3>1
  <2>8. CASE i = h
    BY <1>2, <2>1, <2>3, <2>8
  <2>9. CASE i = h + 1
    BY <1>2, <2>1, <2>3, <2>5, <2>9
  <2> QED
    BY <2>6, <2>7, <2>8, <2>9
<1>4. \A k \in Nat : (s * k) % s = 0
  BY <1>1, Multiples
<1>5. /\ ((2 * s) * j) % (2 * s) = 0 /\ ((2 * s) * j + s) % (2 * s) = s
      /\ ((2 * s) * j) % s = 0 /\ ((2 * s) * j + s) % s = 0
  <2> DEFINE t == 2 * s
  <2>1. t \in Nat \ {0} /\ s \in 0 .. t - 1 /\ 0 \in 0 .. t - 1 /\ t * j \in Nat /\ t * j + 0 = t * j
    BY <1>1
  <2> HIDE DEF t
  <2>2. (t * j) % t = 0 /\ (t * j + s) % t = s
    BY <2>1, Multiples
  <2>3. /\ (2 * s) * j = s * (2 * j) /\ 2 * j \in Nat
        /\ (2 * s) * j + s = s * (2 * j + 1) /\ 2 * j + 1 \in Nat
    BY <1>1
  <2> QED
    BY <1>4, <2>2, <2>3 DEF t
<1>6. PICK y \in Nat :
         /\ y % (2 * s) = 0 /\ (y + s) % (2 * s) = s
         /\ y % s = 0 /\ (y + s) % s = 0
         /\ x = y \/ x = y + s
  <2>1. (2 * s) * j \in Nat /\ (x = (2 * s) * j \/ x = (2 * s) * j + s)
    BY <1>2, <1>3
  <2> QED
    BY <1>5, <2>1, Zenon
<1>7. /\ Buddy(Block(y, s)) = Block(y + s, s) /\ Buddy(Block(y + s, s)) = Block(y, s)
  <2>1. \A o : Buddy(Block(o, s)) = Block(IF o % (2 * s) = 0 THEN o + s ELSE o - s, s)
    BY Zenon DEF Buddy, Block
  <2>2. (y + s) - s = y /\ s # 0
    OBVIOUS
  <2>3. Buddy(Block(y, s)) = Block(y + s, s)
    BY <1>6, <2>1, Zenon
  <2>4. ~((y + s) % (2 * s) = 0)
    BY <1>6, <2>2, Zenon
  <2>5. Buddy(Block(y + s, s)) = Block((y + s) - s, s)
    BY <2>1, <2>4, Zenon
  <2> QED
    BY <2>2, <2>3, <2>5, Zenon
<1>8. /\ Block(y, s) \in Dyadic /\ Block(y + s, s) \in Dyadic /\ Block(y, 2 * s) \in Dyadic
      /\ Block(y, s).size = s /\ Block(y + s, s).size = s /\ Block(y, s) # Block(y + s, s)
      /\ Block(y, 2 * s).size = 2 * s
  <2>1. y + s \in Nat /\ y # y + s
    OBVIOUS
  <2>2. Block(y, s) # Block(y + s, s)
    BY <2>1 DEF Block
  <2>3. Block(y, s) \in Dyadic /\ Block(y, s).size = s
    BY <1>1, <1>6, DyadicBlock, Zenon
  <2>4. Block(y + s, s) \in Dyadic /\ Block(y + s, s).size = s
    BY <1>1, <1>6, <2>1, DyadicBlock, Zenon
  <2>5. Block(y, 2 * s) \in Dyadic /\ Block(y, 2 * s).size = 2 * s
    BY <1>1, <1>6, DyadicBlock, Zenon
  <2> QED
    BY <2>2, <2>3, <2>4, <2>5
<1>9. /\ Units(Block(y, s)) \cap Units(Block(y + s, s)) = {}
      /\ Units(Block(y, 2 * s)) = Units(Block(y, s)) \cup Units(Block(y + s, s))
  <2>1. /\ Units(Block(y, s)) = y .. y + s - 1 /\ Units(Block(y, 2 * s)) = y .. y + 2 * s - 1
        /\ Units(Block(y + s, s)) = y + s .. y + s + s - 1
    BY DEF Units, Block
  <2> QED
    BY <2>1
<1>10. c = Block(y, s) \/ c = Block(y + s, s)
  BY <1>1, <1>6
<1>11. Parent(c, 2 * s) = Block(y, 2 * s)
  <2>1. Units(c) \cap Units(Block(y, 2 * s)) # {} /\ c.size <= Block(y, 2 * s).size
    BY <1>1, <1>8, <1>9, <1>10, DyadicUnits
  <2> QED
    BY <1>8, <2>1, ParentUnique
<1> QED
  BY <1>7, <1>8, <1>9, <1>10, <1>11

-----------------------------------------------------------------------------
(* The allocator, for any free lists that hold aligned blocks *)

Pieces == {b \in Dyadic : b.size \in Sizes}

LEMMA PieceFacts ==
    ASSUME NEW b \in Pieces
    PROVE  b \in Dyadic /\ b.size \in Sizes /\ b.size \in Widths /\ b.size \in Nat \ {0} /\ b.off \in Nat
  BY DyadicUnits DEF Pieces

LEMMA LeastIsMin ==
    ASSUME NEW S, S \subseteq Nat, S # {}
    PROVE  Min(S) \in S /\ \A n \in S : Min(S) <= n
<1>1. \E m \in S : \A n \in S : m <= n
  BY LeastNumber, Zenon
<1> QED
  BY <1>1, Zenon DEF Min

LEMMA SpaceFacts ==
    ASSUME NEW A, NEW B
    PROVE  /\ \A u : u \in Space(A) <=> \E b \in A : u \in Units(b)
           /\ Space(A \cup B) = Space(A) \cup Space(B)
           /\ A \subseteq B => Space(A) \subseteq Space(B)
           /\ \A b : Space({b}) = Units(b)
<1>1. \A C : \A u : u \in Space(C) <=> \E b \in C : u \in Units(b)
  BY Zenon DEF Space
<1>2. Space(A \cup B) = Space(A) \cup Space(B)
  BY <1>1
<1>3. A \subseteq B => Space(A) \subseteq Space(B)
  BY <1>1
<1>4. \A b : Space({b}) = Units(b)
  BY <1>1
<1> QED
  BY <1>1, <1>2, <1>3, <1>4, Zenon

(* Halving a block down to a size leaves a piece of that size at its start, and   *)
(* the upper halves: together they are the block, and they are apart.             *)
LEMMA SplitFacts ==
    ASSUME NEW b \in Pieces, NEW r \in Sizes, r <= b.size
    PROVE  /\ Block(b.off, r) \in Pieces
           /\ Split(b, r) \subseteq Pieces /\ Apart(Split(b, r))
           /\ Units(Block(b.off, r)) \cap Space(Split(b, r)) = {}
           /\ Units(b) = Units(Block(b.off, r)) \cup Space(Split(b, r))
<1> DEFINE S == {t \in Sizes : t >= r /\ t < b.size}
           H(s) == Block(b.off + s, s)
           c == Block(b.off, r)
<1>1. /\ b \in Dyadic /\ b.size \in Sizes /\ b.size \in Widths /\ b.size \in Nat \ {0} /\ b.off \in Nat
      /\ b.off % b.size = 0 /\ r \in Widths /\ r \in Nat \ {0}
  BY PieceFacts, WidthFacts DEF Dyadic
<1>2. ASSUME NEW s \in Sizes, s < b.size
      PROVE  /\ s \in Widths /\ s \in Nat \ {0} /\ b.off % s = 0 /\ (b.off + s) % s = 0
  <2>1. s \in Widths /\ s \in Nat \ {0}
    BY WidthFacts
  <2>2. PICK k \in Nat \ {0} : b.size = (2 * s) * k
    BY <1>1, <1>2, <2>1, WidthsDivide, Zenon
  <2>3. PICK l \in Nat \ {0} : l = 2 * k /\ b.size = s * l
    BY <2>1, <2>2
  <2>4. PICK j \in Nat : b.off = s * (j * l)
    <3>1. b.off % (s * l) = 0
      BY <1>1, <2>3, Zenon
    <3> QED
      BY <1>1, <2>1, <3>1, MultiplesOfMultiples, Zenon
  <2>5. PICK i \in Nat : i = j * l
    OBVIOUS
  <2>6. s * i + 0 = s * i /\ s * (i + 1) + 0 = s * i + s /\ 0 \in 0 .. s - 1 /\ i + 1 \in Nat
    BY <2>1
  <2>7. (s * i) % s = 0 /\ (s * i + s) % s = 0
    BY <2>1, <2>6, Multiples
  <2> QED
    BY <2>1, <2>4, <2>5, <2>7
<1>3. c \in Pieces /\ c.off = b.off /\ c.size = r
  <2>1. b.off % r = 0
    BY <1>1, <1>2
  <2> QED
    BY <1>1, <2>1, DyadicBlock DEF Pieces
<1>4. ASSUME NEW s \in S
      PROVE  H(s) \in Pieces /\ H(s).off = b.off + s /\ H(s).size = s
  <2>1. s \in Widths /\ s \in Nat \ {0} /\ (b.off + s) % s = 0 /\ b.off + s \in Nat
    BY <1>1, <1>2
  <2> QED
    BY <2>1, DyadicBlock DEF Pieces
<1>5. Split(b, r) = {H(s) : s \in S}
  BY Zenon DEF Split
<1>6. \A s \in S : \A u : u \in Units(H(s)) <=> u \in Nat /\ b.off + s <= u /\ u < b.off + 2 * s
  <2>1. ASSUME NEW s \in S
        PROVE  \A u : u \in Units(H(s)) <=> u \in Nat /\ b.off + s <= u /\ u < b.off + 2 * s
    <3>1. /\ H(s) \in Dyadic /\ H(s).off = b.off + s /\ H(s).size = s /\ s \in Nat
      BY <1>2, <1>4, PieceFacts
    <3>2. \A u : u \in Units(H(s)) <=> u \in Nat /\ H(s).off <= u /\ u < H(s).off + H(s).size
      BY <3>1, DyadicUnits
    <3> HIDE DEF H
    <3> QED
      BY <1>1, <3>1, <3>2
  <2> QED
    BY <2>1
<1>7. /\ \A u : u \in Units(c) <=> u \in Nat /\ b.off <= u /\ u < b.off + r
      /\ \A u : u \in Units(b) <=> u \in Nat /\ b.off <= u /\ u < b.off + b.size
  <2>1. c \in Dyadic
    BY <1>3, PieceFacts
  <2>2. \A u : u \in Units(c) <=> u \in Nat /\ c.off <= u /\ u < c.off + c.size
    BY <2>1, DyadicUnits
  <2> HIDE DEF c
  <2> QED
    BY <1>1, <1>3, <2>2, DyadicUnits
<1>8. \A s \in S : s \in Nat \ {0} /\ s \in Widths /\ s >= r /\ s < b.size /\ 2 * s <= b.size
  BY <1>1, WidthFacts, WidthSteps
<1>9. \A s, t \in S : s < t => 2 * s <= t
  BY <1>8, WidthSteps
<1>10. \A w \in Widths : w >= r /\ w <= b.size =>
         \A u \in Nat : b.off + r <= u /\ u < b.off + w => \E s \in S : u \in Units(H(s))
  <2> DEFINE W == {w \in Widths : w <= b.size =>
                     \A u \in Nat : b.off + r <= u /\ u < b.off + w => \E s \in S : u \in Units(H(s))}
  <2>1. r \in W
    BY <1>1
  <2>2. ASSUME NEW s \in Sizes, s >= r, s \in W
        PROVE  2 * s \in W
    <3>1. 2 * s \in Widths /\ s \in Nat \ {0}
      BY WidthSteps, WidthFacts
    <3>2. ASSUME 2 * s <= b.size, NEW u \in Nat, b.off + r <= u, u < b.off + 2 * s
          PROVE  \E t \in S : u \in Units(H(t))
      <4>1. CASE u < b.off + s
        BY <1>1, <2>2, <3>1, <3>2, <4>1
      <4>2. CASE b.off + s <= u
        <5>1. s \in S
          BY <1>1, <2>2, <3>1, <3>2
        <5> QED
          BY <1>6, <3>2, <4>2, <5>1
      <4> QED
        BY <1>1, <3>1, <4>1, <4>2
    <3> QED
      BY <3>1, <3>2
  <2> HIDE DEF W
  <2>3. \A w \in Widths : w >= r => w \in W
    BY <1>1, <2>1, <2>2, WidthInduction
  <2> QED
    BY <2>3 DEF W
<1> HIDE DEF S, H, c
<1>11. Apart({H(s) : s \in S})
  <2> SUFFICES ASSUME NEW s \in S, NEW t \in S, H(s) # H(t), NEW u \in Units(H(s)), u \in Units(H(t))
               PROVE  FALSE
    BY DEF Apart
  <2>1. u \in Nat /\ b.off + s <= u /\ u < b.off + 2 * s /\ b.off + t <= u /\ u < b.off + 2 * t
    BY <1>6
  <2>2. s # t /\ s \in Nat /\ t \in Nat
    BY <1>8
  <2> QED
    BY <1>1, <1>9, <2>1, <2>2
<1>12. \A u : u \in Space({H(s) : s \in S}) <=> \E s \in S : u \in Units(H(s))
  BY SpaceFacts
<1>13. Units(c) \cap Space({H(s) : s \in S}) = {}
  BY <1>1, <1>6, <1>7, <1>8, <1>12
<1>14. ASSUME NEW u
       PROVE  u \in Units(b) <=> u \in Units(c) \/ u \in Space({H(s) : s \in S})
  <2>1. ASSUME u \in Units(b)
        PROVE  u \in Units(c) \/ \E s \in S : u \in Units(H(s))
    BY <1>1, <1>7, <1>10, <2>1
  <2>2. ASSUME NEW s \in S, u \in Units(H(s))
        PROVE  u \in Units(b)
    BY <1>1, <1>6, <1>7, <1>8, <2>2
  <2>3. u \in Units(c) => u \in Units(b)
    BY <1>1, <1>7
  <2> QED
    BY <1>12, <2>1, <2>2, <2>3
<1>15. Units(b) = Units(c) \cup Space({H(s) : s \in S})
  BY <1>14
<1>16. {H(s) : s \in S} \subseteq Pieces
  BY <1>4
<1> QED
  BY <1>3, <1>5, <1>11, <1>13, <1>15, <1>16, Zenon DEF c

(* searchFreelist cuts a piece of the size out of the lists, and nothing else. *)
LEMMA SearchFacts ==
    ASSUME NEW L, L \subseteq Pieces, Apart(L), NEW r \in Sizes, \E f \in L : f.size >= r
    PROVE  LET found == searchFreelist(L, r)
               c == Block(found.off, r)
           IN  /\ c \in Pieces /\ found.lists \subseteq Pieces /\ Apart(found.lists)
               /\ Units(c) \cap Space(found.lists) = {}
               /\ Space(L) = Space(found.lists) \cup Units(c)
<1> DEFINE Fit == {f \in L : f.size >= r}
           bucket == Min({f.size : f \in Fit})
           First == {f \in L : f.size = bucket}
           off == Min({f.off : f \in First})
           b == FirstFit(L, r)
           c == Block(b.off, r)
           M == (L \ {b}) \cup Split(b, r)
<1>1. \A f \in L : f.size \in Nat /\ f.off \in Nat /\ f = Block(f.off, f.size)
  BY PieceFacts, DyadicUnits
<1>2. bucket \in {f.size : f \in Fit}
  <2>1. {f.size : f \in Fit} \subseteq Nat /\ {f.size : f \in Fit} # {}
    BY <1>1
  <2> HIDE DEF Fit
  <2> QED
    BY <2>1, LeastIsMin, Zenon
<1> HIDE DEF bucket
<1>3. off \in {f.off : f \in First}
  <2>1. {f.off : f \in First} \subseteq Nat /\ {f.off : f \in First} # {}
    BY <1>1, <1>2
  <2> HIDE DEF First
  <2> QED
    BY <2>1, LeastIsMin, Zenon
<1> HIDE DEF off
<1>4. Block(off, bucket) \in L /\ Block(off, bucket).size >= r
  BY <1>1, <1>2, <1>3
<1>5. b = Block(off, bucket)
  BY Zenon DEF FirstFit, off, bucket
<1>6. b \in L /\ r <= b.size /\ b \in Pieces
  <2>1. b \in L /\ b.size >= r
    BY <1>4, <1>5, Zenon
  <2> QED
    BY <1>1, <2>1, PieceFacts, WidthFacts
<1> HIDE DEF b
<1>7. /\ c \in Pieces /\ Split(b, r) \subseteq Pieces /\ Apart(Split(b, r))
      /\ Units(c) \cap Space(Split(b, r)) = {}
      /\ Units(b) = Units(c) \cup Space(Split(b, r))
  BY <1>6, SplitFacts
<1>8. \A f \in L \ {b} : Units(f) \cap Units(b) = {}
  BY <1>6 DEF Apart
<1>9. Space(L) = Space(L \ {b}) \cup Units(b)
  <2>1. L = (L \ {b}) \cup {b}
    BY <1>6
  <2> QED
    BY <2>1, SpaceFacts, Zenon
<1>10. Space(M) = Space(L \ {b}) \cup Space(Split(b, r))
  BY SpaceFacts, Zenon
<1>11. Space(L \ {b}) \cap Units(b) = {}
  BY <1>8, SpaceFacts
<1>12. \A h \in Split(b, r) : Units(h) \subseteq Units(b)
  BY <1>7, SpaceFacts
<1>13. Apart(M)
  BY <1>7, <1>8, <1>12 DEF Apart
<1>14. searchFreelist(L, r).off = b.off /\ searchFreelist(L, r).lists = M
  BY DEF searchFreelist, b
<1>15. M \subseteq Pieces
  BY <1>7
<1> HIDE DEF M, c
<1>16. Units(c) \cap Space(M) = {} /\ Space(L) = Space(M) \cup Units(c)
  BY <1>7, <1>9, <1>10, <1>11
<1> QED
  BY <1>7, <1>13, <1>14, <1>15, <1>16, Zenon DEF c

(* The block of a width around b is b and the buddies on the way up to it. *)
Merged(b, w) == {Buddy(Parent(b, s)) : s \in {t \in Sizes : t >= b.size /\ t < w}}

LEMMA UpwardFacts ==
    ASSUME NEW b \in Pieces, NEW w \in Widths, w >= b.size
    PROVE  Units(Parent(b, w)) = Units(b) \cup Space(Merged(b, w))
<1> DEFINE W == {v \in Widths : Units(Parent(b, v)) = Units(b) \cup Space(Merged(b, v))}
           S(v) == {t \in Sizes : t >= b.size /\ t < v}
<1>1. b \in Dyadic /\ b.size \in Sizes /\ b.size \in Widths /\ b.size \in Nat \ {0}
  BY PieceFacts
<1>2. b.size \in W
  <2>1. Parent(b, b.size) = b
    <3>1. Units(b) \cap Units(b) # {} /\ b.size <= b.size
      BY <1>1, DyadicUnits
    <3> QED
      BY <1>1, <3>1, ParentUnique
  <2>2. Merged(b, b.size) = {}
    BY <1>1, WidthFacts DEF Merged
  <2>3. Space({}) = {}
    BY SpaceFacts
  <2> QED
    BY <1>1, <2>1, <2>2, <2>3
<1>3. ASSUME NEW s \in Sizes, s >= b.size, s \in W
      PROVE  2 * s \in W
  <2> DEFINE p == Parent(b, s)
  <2>1. s \in Widths /\ 2 * s \in Widths /\ s \in Nat \ {0} /\ b.size <= s /\ b.size <= 2 * s
    BY <1>1, <1>3, WidthFacts, WidthSteps
  <2>2. p \in Dyadic /\ p.size = s /\ Units(b) \subseteq Units(p)
    BY <1>1, <2>1, ParentFacts
  <2>3. Units(Parent(p, 2 * s)) = Units(p) \cup Units(Buddy(p))
    BY <2>2, BuddyFacts
  <2>4. Parent(p, 2 * s) = Parent(b, 2 * s)
    <3>1. Parent(b, 2 * s) \in Dyadic /\ Parent(b, 2 * s).size = 2 * s /\ Units(b) \subseteq Units(Parent(b, 2 * s))
      BY <1>1, <2>1, ParentFacts
    <3>2. Units(p) \cap Units(Parent(b, 2 * s)) # {} /\ p.size <= Parent(b, 2 * s).size
      BY <1>1, <2>1, <2>2, <3>1, DyadicUnits
    <3> QED
      BY <2>2, <3>1, <3>2, ParentUnique
  <2>5. Merged(b, 2 * s) = Merged(b, s) \cup {Buddy(p)}
    <3>1. S(2 * s) = S(s) \cup {s}
      <4>1. ASSUME NEW t \in Sizes
            PROVE  t < 2 * s <=> t < s \/ t = s
        BY <2>1, WidthFacts, WidthSteps
      <4>2. s \in S(2 * s)
        BY <1>3, <2>1
      <4> QED
        BY <4>1, <4>2
    <3> HIDE DEF S
    <3>2. \A v : Merged(b, v) = {Buddy(Parent(b, t)) : t \in S(v)}
      BY Zenon DEF Merged, S
    <3> QED
      BY <3>1, <3>2
  <2>6. Space(Merged(b, 2 * s)) = Space(Merged(b, s)) \cup Units(Buddy(p))
    BY <2>5, SpaceFacts, Zenon
  <2>7. Units(p) = Units(b) \cup Space(Merged(b, s))
    BY <1>3
  <2> HIDE DEF p
  <2>8. Units(Parent(b, 2 * s)) = Units(b) \cup Space(Merged(b, 2 * s))
    BY <2>3, <2>4, <2>6, <2>7
  <2> QED
    BY <2>1, <2>8
<1> HIDE DEF W
<1>4. w \in W
  BY <1>1, <1>2, <1>3, WidthInduction
<1> QED
  BY <1>4 DEF W

(* A chunk that is free: it is part of a free block whose buddy is not free. *)
Sole(b, L) == \E f \in L : Units(b) \subseteq Units(f) /\ Buddy(f) \notin L

(* addToFreelist merges and adds a chunk that is not free, and nothing else; what  *)
(* could not be merged before cannot be merged after.                              *)
LEMMA AddFacts ==
    ASSUME NEW L, L \subseteq Pieces, Apart(L), NEW n \in Sizes, Space(L) \subseteq 0 .. n - 1,
           NEW b \in Pieces, Units(b) \cap Space(L) = {}, Units(b) \subseteq 0 .. n - 1
    PROVE  LET M == addToFreelist(L, b)
           IN  /\ M \subseteq Pieces /\ Apart(M) /\ Space(M) = Space(L) \cup Units(b)
               /\ Sole(b, M) /\ \A c : Sole(c, L) => Sole(c, M)
<1> DEFINE T == {s \in Widths : s >= b.size /\ Buddy(Parent(b, s)) \notin L}
           top == Min(T)
           up == Parent(b, top)
           R == L \ Merged(b, top)
           M == R \cup {up}
<1>1. /\ b \in Dyadic /\ b.size \in Sizes /\ b.size \in Widths /\ b.size \in Nat \ {0}
      /\ n \in Nat \ {0} /\ n <= pow2[MaxLog] /\ pow2[MaxLog] \in Nat \ {0}
      /\ 2 * pow2[MaxLog] \in Widths
  BY PieceFacts, WidthFacts
<1>2. 2 * pow2[MaxLog] \in T
  <2>1. Buddy(Parent(b, 2 * pow2[MaxLog])).size = 2 * pow2[MaxLog]
    BY DEF Buddy, Parent, Block
  <2>2. \A f \in L : f.size <= pow2[MaxLog] /\ f.size \in Nat
    BY PieceFacts, WidthFacts
  <2>3. Buddy(Parent(b, 2 * pow2[MaxLog])) \notin L
    BY <1>1, <2>1, <2>2
  <2>4. b.size <= pow2[MaxLog]
    BY <1>1, WidthFacts
  <2> QED
    BY <1>1, <2>3, <2>4
<1>3. /\ top \in Widths /\ top \in Nat \ {0} /\ top >= b.size /\ Buddy(up) \notin L
      /\ \A s \in T : top <= s
  <2>1. T \subseteq Nat /\ T # {}
    BY <1>2, WidthFacts
  <2> HIDE DEF T
  <2>2. top \in T /\ \A s \in T : top <= s
    BY <2>1, LeastIsMin, Zenon
  <2> HIDE DEF top
  <2> QED
    BY <2>2, WidthFacts DEF T
<1>4. Merged(b, top) \subseteq L
  <2>1. ASSUME NEW s \in Sizes, s >= b.size, s < top
        PROVE  Buddy(Parent(b, s)) \in L
    <3>1. s \in Widths /\ s \in Nat
      BY WidthFacts
    <3>2. s \notin T
      BY <1>3, <2>1, <3>1
    <3> QED
      BY <2>1, <3>1, <3>2
  <2> HIDE DEF top
  <2> QED
    BY <2>1 DEF Merged
<1> HIDE DEF T, top
<1>5. Units(up) = Units(b) \cup Space(Merged(b, top))
  BY <1>3, UpwardFacts
<1>6. up \in Dyadic /\ up.size = top
  BY <1>1, <1>3, ParentFacts
<1>7. Space(Merged(b, top)) \subseteq Space(L)
  BY <1>4, SpaceFacts
<1>8. top \in Sizes
  <2>1. Units(up) \subseteq 0 .. n - 1
    BY <1>5, <1>7
  <2>2. /\ up.off \in Nat /\ up.size \in Nat \ {0}
        /\ \A u : u \in Units(up) <=> u \in Nat /\ up.off <= u /\ u < up.off + up.size
    BY <1>6, DyadicUnits
  <2> HIDE DEF up
  <2>3. up.off + up.size - 1 \in Units(up)
    BY <2>2
  <2>4. top <= n
    BY <1>1, <1>3, <1>6, <2>1, <2>2, <2>3
  <2> QED
    BY <1>1, <1>3, <2>4, WidthFacts
<1>9. /\ up \in Pieces /\ Buddy(up) # up /\ Buddy(Buddy(up)) = up
  BY <1>6, <1>8, BuddyFacts DEF Pieces
<1>10. addToFreelist(L, b) = M
  BY WidthFacts, Zenon DEF addToFreelist, Merged, up, top, T
<1> HIDE DEF up
<1>11. \A f \in R : Units(f) \cap Units(up) = {}
  <2> SUFFICES ASSUME NEW f \in R, NEW u \in Units(f), u \in Units(up)
               PROVE  FALSE
    OBVIOUS
  <2>1. u \notin Units(b)
    BY SpaceFacts
  <2>2. PICK g \in Merged(b, top) : u \in Units(g)
    BY <1>5, <2>1, SpaceFacts
  <2>3. f # g /\ g \in L
    BY <1>4, <2>2
  <2> QED
    BY <2>2, <2>3 DEF Apart
<1>12. Apart(M)
  BY <1>11 DEF Apart
<1>13. Space(M) = Space(L) \cup Units(b)
  <2>1. L = R \cup Merged(b, top)
    BY <1>4
  <2>2. Space(L) = Space(R) \cup Space(Merged(b, top)) /\ Space(M) = Space(R) \cup Units(up)
    <3> HIDE DEF R
    <3>1. /\ Space(R \cup Merged(b, top)) = Space(R) \cup Space(Merged(b, top))
          /\ Space(R \cup {up}) = Space(R) \cup Space({up}) /\ Space({up}) = Units(up)
      BY SpaceFacts, Zenon
    <3> QED
      BY <2>1, <3>1, Zenon
  <2> QED
    BY <1>5, <2>2, Zenon
<1>14. M \subseteq Pieces
  BY <1>9
<1>15. Buddy(up) \notin M
  BY <1>3, <1>9
<1>16. Sole(b, M)
  BY <1>5, <1>15 DEF Sole
<1>17. ASSUME NEW c, Sole(c, L)
       PROVE  Sole(c, M)
  <2>1. PICK f \in L : Units(c) \subseteq Units(f) /\ Buddy(f) \notin L
    BY <1>17 DEF Sole
  <2>2. CASE f \in Merged(b, top)
    <3>1. Units(f) \subseteq Units(up)
      BY <1>5, <2>2, SpaceFacts
    <3> QED
      BY <1>15, <2>1, <3>1 DEF Sole
  <2>3. CASE f \notin Merged(b, top)
    <3>1. Buddy(f) # up
      <4>1. f \in Dyadic /\ f.size \in Sizes
        BY PieceFacts
      <4>2. Buddy(Buddy(f)) = f
        BY <4>1, BuddyFacts
      <4> QED
        BY <1>3, <4>2
    <3> QED
      BY <2>1, <2>3, <3>1 DEF Sole
  <2> QED
    BY <2>2, <2>3
<1> HIDE DEF M
<1> QED
  BY <1>10, <1>12, <1>13, <1>14, <1>16, <1>17, Zenon

(* Freeing a chunk that is free already changes nothing. *)
LEMMA FreeAgain ==
    ASSUME NEW L, L \subseteq Pieces, NEW b \in Pieces, Sole(b, L), ~isParentBlockFree(L, b)
    PROVE  addToFreelist(L, b) = L
<1>1. PICK f \in L : Units(b) \subseteq Units(f) /\ Buddy(f) \notin L
  BY DEF Sole
<1>2. /\ b \in Dyadic /\ b.size \in Sizes /\ b.size \in Widths /\ b.size \in Nat \ {0}
      /\ f \in Dyadic /\ f.size \in Nat \ {0} /\ Units(b) # {} /\ Units(f) # {}
      /\ Units(b) \cap Units(f) # {}
  BY <1>1, PieceFacts, DyadicUnits
<1>3. ~(f.size > b.size)
  <2>1. f.size > b.size => f = Parent(b, f.size)
    BY <1>2, ParentUnique
  <2> QED
    BY <1>1, <2>1 DEF isParentBlockFree
<1>4. f = b
  <2>1. b.size = f.size
    <3> SUFFICES ASSUME f.size < b.size
                 PROVE  FALSE
      BY <1>2, <1>3
    <3>1. Units(f) \subseteq Units(b)
      BY <1>2, NestedOrApart
    <3>2. /\ \A u : u \in Units(b) <=> u \in Nat /\ b.off <= u /\ u < b.off + b.size
          /\ \A u : u \in Units(f) <=> u \in Nat /\ f.off <= u /\ u < f.off + f.size
          /\ b.off \in Nat /\ f.off \in Nat
      BY <1>2, DyadicUnits
    <3>3. b.off \in Units(f) /\ b.off + b.size - 1 \in Units(f)
      BY <1>1, <1>2, <3>2
    <3> QED
      BY <1>2, <3>2, <3>3
  <2> QED
    BY <1>2, <2>1, SameWidth
<1> DEFINE T == {s \in Widths : s >= b.size /\ Buddy(Parent(b, s)) \notin L}
<1>5. Parent(b, b.size) = b
  BY <1>2, <1>4, ParentUnique
<1>6. b.size \in T
  BY <1>1, <1>2, <1>4, <1>5
<1>7. Min(T) = b.size
  <2>1. T \subseteq Nat
    BY WidthFacts
  <2>2. \A s \in T : s >= b.size
    OBVIOUS
  <2> HIDE DEF T
  <2>3. Min(T) \in T /\ Min(T) <= b.size
    BY <1>6, <2>1, LeastIsMin, Zenon
  <2>4. Min(T) \in Nat /\ Min(T) >= b.size
    BY <2>1, <2>2, <2>3, Zenon
  <2> QED
    BY <1>2, <2>3, <2>4
<1>8. Merged(b, b.size) = {}
  BY <1>2, WidthFacts DEF Merged
<1>9. addToFreelist(L, b) = (L \ Merged(b, Min(T))) \cup {Parent(b, Min(T))}
  BY WidthFacts, Zenon DEF addToFreelist, Merged
<1> HIDE DEF T
<1> QED
  BY <1>1, <1>4, <1>5, <1>7, <1>8, <1>9

(* A chunk that is not free is in no free block. *)
LEMMA NoFreeParent ==
    ASSUME NEW L, L \subseteq Pieces, NEW b \in Pieces, Units(b) \cap Space(L) = {}
    PROVE  ~isParentBlockFree(L, b)
<1> SUFFICES ASSUME NEW f \in L, f.size > b.size, Parent(b, f.size) \in L
             PROVE  FALSE
  BY DEF isParentBlockFree
<1>1. /\ b \in Dyadic /\ b.size \in Nat \ {0} /\ Units(b) # {}
      /\ f.size \in Widths /\ f.size \in Nat
  BY PieceFacts, DyadicUnits
<1>2. Units(b) \subseteq Units(Parent(b, f.size))
  BY <1>1, ParentFacts
<1> QED
  BY <1>1, <1>2, SpaceFacts

LEMMA GreatestIsMax ==
    ASSUME NEW S, S \subseteq Nat, NEW m \in S, \A x \in S : x <= m
    PROVE  Max(S) = m
<1>1. m \in S /\ \A z \in S : m >= z
  OBVIOUS
<1>2. \A a \in S : (\A z \in S : a >= z) => a = m
  OBVIOUS
<1>3. Max(S) = CHOOSE a \in S : \A z \in S : a >= z
  BY Zenon DEF Max
<1> QED
  BY <1>1, <1>2, <1>3, Zenon

LEMMA MaxFacts ==
    ASSUME NEW x \in Nat, NEW y \in Nat
    PROVE  Max({x, y}) = IF x >= y THEN x ELSE y
  BY GreatestIsMax

(* A size is the power of two that holds the request, or the file. *)
LEMMA RoundUpFacts ==
    /\ \A n \in Request : roundUpPowerOf2(n) \in Sizes /\ roundUpPowerOf2(n) >= n
    /\ \A n \in 0 .. pow2[MaxLog] : roundUpPowerOf2(n) \in Sizes /\ roundUpPowerOf2(n) >= n
<1>1. ASSUME NEW n \in Nat, n <= pow2[MaxLog]
      PROVE  /\ roundUpPowerOf2(n) \in Sizes /\ roundUpPowerOf2(n) >= n
  <2> DEFINE S == {s \in Sizes : s >= n}
  <2>1. S \subseteq Nat /\ S # {}
    BY <1>1, WidthFacts
  <2> HIDE DEF S
  <2>2. Min(S) \in S /\ \A t \in S : Min(S) <= t
    BY <2>1, LeastIsMin, Zenon
  <2>3. roundUpPowerOf2(n) = Min(S)
    BY Zenon DEF roundUpPowerOf2, S
  <2> QED
    BY <2>2, <2>3 DEF S
<1>2. \A n \in Request : n \in Nat /\ n <= pow2[MaxLog]
  BY DataStoreAssumption, WidthFacts
<1>3. \A n \in 0 .. pow2[MaxLog] : n \in Nat /\ n <= pow2[MaxLog]
  BY WidthFacts
<1> QED
  BY <1>1, <1>2, <1>3, Zenon

(* _largestFreeChunk tells whether the lists hold a block of a size.  A file has  *)
(* finitely many blocks, so there is a largest one.                               *)
LEMMA LargestFacts ==
    ASSUME NEW L, L \subseteq Pieces, NEW r \in Sizes
    PROVE  ~(r > calcLargestFreeChunk(L)) => \E f \in L : f.size >= r
<1> DEFINE S == {0} \cup {f.size : f \in L}
           T == {m \in Nat : \A x \in S : m >= x}
<1>1. S \subseteq Nat /\ \A x \in S : x <= pow2[MaxLog]
  BY PieceFacts, WidthFacts
<1>2. \E m \in S : \A x \in S : m >= x
  <2>1. T \subseteq Nat /\ T # {}
    <3>1. pow2[MaxLog] \in T
      BY <1>1, WidthFacts
    <3> QED
      BY <3>1
  <2> HIDE DEF T
  <2>2. PICK m \in T : \A k \in T : m <= k
    BY <2>1, LeastNumber, Zenon
  <2>3. m \in Nat /\ \A x \in S : m >= x
    BY <2>2, Zenon DEF T
  <2>4. m \in S
    <3> SUFFICES ASSUME m \notin S
                 PROVE  FALSE
      OBVIOUS
    <3>1. m # 0 /\ m - 1 \in Nat
      BY <2>3
    <3> HIDE DEF S
    <3>2. \A x \in S : m - 1 >= x
      BY <1>1, <2>3
    <3>3. m - 1 \in T
      BY <3>1, <3>2 DEF T
    <3> QED
      BY <2>2, <2>3, <3>3
  <2> QED
    BY <2>3, <2>4
<1>3. calcLargestFreeChunk(L) \in S
  <2>1. calcLargestFreeChunk(L) = Max(S)
    BY Zenon DEF calcLargestFreeChunk
  <2> HIDE DEF S
  <2> QED
    BY <1>2, <2>1 DEF Max
<1> QED
  BY <1>1, <1>3, WidthFacts

(* makeMoreSpace appends to the file what it doubles it by. *)
LEMMA MoreSpaceFacts ==
    ASSUME allocatedSize \in Sizes, NEW r \in Sizes, 2 * LastDoubled(r) <= pow2[MaxLog]
    PROVE  /\ 2 * LastDoubled(r) \in Sizes /\ allocatedSize < 2 * LastDoubled(r)
           /\ MoreSpace(r) \subseteq Pieces /\ Apart(MoreSpace(r))
           /\ Space(MoreSpace(r)) = allocatedSize .. 2 * LastDoubled(r) - 1
           /\ \E f \in MoreSpace(r) : f.size >= r
<1> DEFINE A == allocatedSize
           d == LastDoubled(r)
           b == Block(0, 2 * d)
<1>1. A \in Nat \ {0} /\ r \in Nat \ {0} /\ A \in Widths /\ r \in Widths /\ pow2[MaxLog] \in Nat \ {0}
  BY WidthFacts
<1>2. d = IF A >= r THEN A ELSE r
  BY <1>1, MaxFacts DEF LastDoubled
<1>3. d \in Sizes /\ d >= A /\ d >= r /\ d \in Nat \ {0} /\ d \in Widths
  BY <1>1, <1>2
<1> HIDE DEF d
<1>4. 2 * d \in Widths /\ 2 * d <= pow2[MaxLog]
  BY <1>3, WidthSteps DEF d
<1>5. 2 * d \in Sizes
  BY <1>1, <1>4, WidthFacts
<1>6. b \in Pieces /\ b.off = 0 /\ b.size = 2 * d
  <2>1. 0 % (2 * d) = 0
    BY <1>3
  <2> QED
    BY <1>4, <1>5, <2>1, DyadicBlock DEF Pieces
<1>7. A <= b.size
  BY <1>1, <1>3, <1>6
<1>8. MoreSpace(r) = Split(b, A)
  <2>1. ASSUME NEW t \in Sizes
        PROVE  t <= d <=> t < 2 * d
    BY <1>3, WidthFacts, WidthSteps
  <2>2. \A s \in Sizes : b.off + s = s
    BY <1>6, WidthFacts
  <2>3. MoreSpace(r) = {Block(s, s) : s \in {t \in Sizes : A <= t /\ t <= d}}
    BY Zenon DEF MoreSpace, d
  <2>4. Split(b, A) = {Block(b.off + s, s) : s \in {t \in Sizes : t >= A /\ t < 2 * d}}
    BY <1>6, Zenon DEF Split
  <2> HIDE DEF b
  <2>5. {t \in Sizes : A <= t /\ t <= d} = {t \in Sizes : t >= A /\ t < 2 * d}
    BY <1>1, <2>1, WidthFacts
  <2> QED
    BY <2>2, <2>3, <2>4, <2>5
<1>9. /\ MoreSpace(r) \subseteq Pieces /\ Apart(MoreSpace(r))
      /\ Units(Block(0, A)) \cap Space(MoreSpace(r)) = {}
      /\ Units(b) = Units(Block(0, A)) \cup Space(MoreSpace(r))
  BY <1>6, <1>7, <1>8, SplitFacts
<1>10. Units(Block(0, A)) = 0 .. A - 1 /\ Units(b) = 0 .. 2 * d - 1
  <2>1. \A x \in Nat : Units(Block(0, x)) = 0 .. x - 1
    BY DEF Units, Block
  <2>2. 2 * d \in Nat
    BY <1>3
  <2> QED
    BY <1>1, <2>1, <2>2, Zenon
<1>11. Space(MoreSpace(r)) = A .. 2 * d - 1
  <2>1. ASSUME NEW x \in Nat, NEW y \in Nat, NEW X, x <= y,
               (0 .. x - 1) \cap X = {}, 0 .. y - 1 = (0 .. x - 1) \cup X
        PROVE  X = x .. y - 1
    <3>1. \A u : u \in X <=> u \in 0 .. y - 1 /\ ~(u \in 0 .. x - 1)
      BY <2>1, Zenon
    <3>2. \A u : u \in x .. y - 1 <=> u \in 0 .. y - 1 /\ ~(u \in 0 .. x - 1)
      BY <2>1
    <3> QED
      BY <3>1, <3>2, Zenon
  <2>2. 2 * d \in Nat /\ A <= 2 * d
    BY <1>1, <1>3
  <2> QED
    BY <1>1, <1>9, <1>10, <2>1, <2>2, Zenon
<1>12. Block(d, d) \in MoreSpace(r) /\ Block(d, d).size = d
  BY <1>1, <1>3 DEF MoreSpace, d, Block
<1> QED
  BY <1>1, <1>3, <1>5, <1>9, <1>11, <1>12 DEF d

-----------------------------------------------------------------------------
(* The books of a store: its free lists L, its size n, the chunks C that were     *)
(* handed out, those of them that were freed, those on their way to the lists,    *)
(* and the space X that was lost.                                                 *)
Books(L, n, C, Freed, Going, X) ==
    /\ Apart(L) /\ Apart(C)
    /\ Space(L) \cup Space(C) \cup X = 0 .. n - 1
    /\ X \cap (Space(L) \cup Space(C)) = {}
    /\ \A b \in C \ Freed : Units(b) \cap Space(L) = {} \/ (b \in Going /\ Sole(b, L))
    /\ \A b \in Freed : Sole(b, L)

LEMMA BooksAllocate ==
    ASSUME NEW L, L \subseteq Pieces, NEW n, NEW C, C \subseteq Pieces, NEW X,
           Books(L, n, C, {}, {}, X), NEW r \in Sizes, \E f \in L : f.size >= r
    PROVE  LET found == searchFreelist(L, r)
               c == Block(found.off, r)
           IN  /\ found.lists \subseteq Pieces /\ c \in Pieces /\ c \notin C
               /\ Books(found.lists, n, C \cup {c}, {}, {}, X)
<1> DEFINE M == searchFreelist(L, r).lists
           c == Block(searchFreelist(L, r).off, r)
<1>1. /\ c \in Pieces /\ M \subseteq Pieces /\ Apart(M) /\ Units(c) \cap Space(M) = {}
      /\ Space(L) = Space(M) \cup Units(c)
  BY SearchFacts DEF Books
<1> HIDE DEF M, c
<1>2. \A b \in C : Units(b) \cap Space(L) = {}
  BY DEF Books
<1>3. c \notin C
  <2>1. Units(c) # {}
    BY <1>1, PieceFacts, DyadicUnits
  <2> QED
    BY <1>1, <1>2, <2>1
<1>4. Space(C \cup {c}) = Space(C) \cup Units(c)
  BY SpaceFacts, Zenon
<1>5. Apart(C \cup {c})
  BY <1>1, <1>2 DEF Apart, Books
<1>6. \A b \in C \cup {c} : Units(b) \cap Space(M) = {}
  BY <1>1, <1>2
<1>7. Books(M, n, C \cup {c}, {}, {}, X)
  BY <1>1, <1>4, <1>5, <1>6, Zenon DEF Books
<1> QED
  BY <1>1, <1>3, <1>7, Zenon DEF M, c

LEMMA BooksGrow ==
    ASSUME NEW L, NEW n \in Nat, NEW C, NEW X, Books(L, n, C, {}, {}, X),
           NEW m \in Nat, n <= m, NEW G, Apart(G), Space(G) = n .. m - 1
    PROVE  Books(L \cup G, m, C, {}, {}, X)
<1>1. Space(L \cup G) = Space(L) \cup (n .. m - 1)
  BY SpaceFacts, Zenon
<1>2. 0 .. m - 1 = (0 .. n - 1) \cup (n .. m - 1) /\ (0 .. n - 1) \cap (n .. m - 1) = {}
  OBVIOUS
<1>3. (Space(L) \cup Space(C) \cup X) \cap (n .. m - 1) = {}
  BY <1>2, Zenon DEF Books
<1>4. \A b \in C : Units(b) \subseteq Space(C)
  BY SpaceFacts
<1>5. \A b \in L, g \in G : Units(b) \cap Units(g) = {}
  BY <1>3, SpaceFacts, Zenon
<1>6. Apart(L \cup G)
  BY <1>5 DEF Books, Apart
<1>7. Space(L \cup G) \cup Space(C) \cup X = 0 .. m - 1
  BY <1>1, <1>2, Zenon DEF Books
<1>8. X \cap (Space(L \cup G) \cup Space(C)) = {}
  BY <1>1, <1>3, Zenon DEF Books
<1>9. \A b \in C \ {} : Units(b) \cap Space(L \cup G) = {}
  BY <1>1, <1>3, <1>4, Zenon DEF Books
<1> QED
  BY <1>6, <1>7, <1>8, <1>9, Zenon DEF Books

(* What freeChunk makes of the lists *)
FreeLists(L, b) == IF isParentBlockFree(L, b) THEN L ELSE addToFreelist(L, b)

LEMMA BooksFree ==
    ASSUME NEW L, L \subseteq Pieces, NEW n \in Sizes, NEW C, C \subseteq Pieces, NEW F, NEW V, NEW X,
           Books(L, n, C, F, V, X), NEW b \in C \ F
    PROVE  FreeLists(L, b) \subseteq Pieces /\ Books(FreeLists(L, b), n, C, F \cup {b}, V, X)
<1>1. Units(b) \subseteq Space(C)
  BY SpaceFacts
<1>2. CASE Units(b) \cap Space(L) = {}
  <2> DEFINE M == addToFreelist(L, b)
  <2>1. FreeLists(L, b) = M
    BY <1>2, NoFreeParent DEF FreeLists
  <2>2. Space(L) \subseteq 0 .. n - 1 /\ Units(b) \subseteq 0 .. n - 1 /\ Apart(L)
    BY <1>1, Zenon DEF Books
  <2>3. /\ M \subseteq Pieces /\ Apart(M) /\ Space(M) = Space(L) \cup Units(b)
        /\ Sole(b, M) /\ \A c : Sole(c, L) => Sole(c, M)
    BY <1>2, <2>2, AddFacts
  <2> HIDE DEF M
  <2>4. Space(M) \cup Space(C) = Space(L) \cup Space(C)
    BY <1>1, <2>3
  <2>5. ASSUME NEW c \in C \ (F \cup {b})
        PROVE  Units(c) \cap Space(M) = {} \/ (c \in V /\ Sole(c, M))
    <3>1. Units(c) \cap Units(b) = {}
      BY DEF Books, Apart
    <3> QED
      BY <2>3, <3>1 DEF Books
  <2>6. \A c \in F \cup {b} : Sole(c, M)
    BY <2>3 DEF Books
  <2>7. Books(M, n, C, F \cup {b}, V, X)
    BY <2>3, <2>4, <2>5, <2>6, Zenon DEF Books
  <2> QED
    BY <2>1, <2>3, <2>7
<1>3. CASE Sole(b, L)
  <2>1. FreeLists(L, b) = L
    BY <1>3, FreeAgain DEF FreeLists
  <2> QED
    BY <1>3, <2>1 DEF Books
<1> QED
  BY <1>2, <1>3, Zenon DEF Books

LEMMA SoleIsFree ==
    ASSUME NEW L, NEW F, \A b \in F : Sole(b, L)
    PROVE  Space(F) \subseteq Space(L)
  BY SpaceFacts DEF Sole

(* Entries of freed chunks can be deleted, and more chunks be on their way. *)
LEMMA BooksErase ==
    ASSUME NEW L, NEW n, NEW C, NEW F, NEW V, NEW X, Books(L, n, C, F, V, X),
           NEW G, G \subseteq F, NEW W, V \cap (C \ G) \subseteq W
    PROVE  Books(L, n, C \ G, F \ G, W, X)
<1>1. Space(G) \subseteq Space(L)
  BY SoleIsFree DEF Books
<1>2. Space(C) \subseteq Space(C \ G) \cup Space(G) /\ Space(C \ G) \subseteq Space(C)
  BY SpaceFacts
<1>3. Space(L) \cup Space(C \ G) = Space(L) \cup Space(C)
  BY <1>1, <1>2
<1>4. Apart(C \ G)
  BY DEF Books, Apart
<1>5. \A b \in (C \ G) \ (F \ G) : Units(b) \cap Space(L) = {} \/ (b \in W /\ Sole(b, L))
  BY DEF Books
<1> QED
  BY <1>3, <1>4, <1>5, Zenon DEF Books

(* After a restart the lists are those that were saved, or empty; the size is the  *)
(* one of the file, and the rest of it is lost.                                     *)
LEMMA BooksRestart ==
    ASSUME NEW L, NEW n, NEW C, NEW F, NEW V, NEW X, NEW M, NEW D, NEW W, NEW Y, NEW m,
           Books(L, n, C, F, V, X), M \in {{}, L}, D \subseteq C,
           M # {} => D \cap (F \cup V) \subseteq W,
           Space(M \cup D) \subseteq 0 .. m - 1, Y = (0 .. m - 1) \ Space(M \cup D)
    PROVE  Books(M, m, D, {}, W, Y)
<1>1. Apart(M) /\ Apart(D)
  BY DEF Books, Apart
<1>2. Space(M \cup D) = Space(M) \cup Space(D)
  BY SpaceFacts
<1>3. ASSUME NEW b \in D
      PROVE  Units(b) \cap Space(M) = {} \/ (b \in W /\ Sole(b, M))
  <2>1. CASE M = {}
    <3>1. Space(M) = {}
      BY <2>1, SpaceFacts
    <3> QED
      BY <3>1
  <2>2. CASE M # {}
    BY <2>2 DEF Books
  <2> QED
    BY <2>1, <2>2
<1> QED
  BY <1>1, <1>2, <1>3, Zenon DEF Books

(* The books in the form in which the store's clients care for them. *)
Balance(L, n, S, V, X) ==
    /\ Space(L) \cup Space(S) \cup (Space(V) \ Space(L)) \cup X = 0 .. n - 1
    /\ Apart(L \cup S) /\ L \cap S = {}
    /\ Space(S) \cap (Space(V) \ Space(L)) = {}
    /\ X \cap (Space(L) \cup Space(S) \cup (Space(V) \ Space(L))) = {}

LEMMA BooksBalance ==
    ASSUME NEW L, L \subseteq Pieces, NEW n \in Nat, NEW C, C \subseteq Pieces, NEW F, NEW V, NEW X,
           NEW S, Books(L, n, C, F, V, X), S = (C \ F) \ V, V \subseteq C
    PROVE  Balance(L, n, S, V, X)
<1>1. \A b \in S : Units(b) \cap Space(L) = {}
  BY DEF Books
<1>2. Apart(L \cup S)
  <2>1. \A b \in S, f \in L : Units(b) \cap Units(f) = {}
    BY <1>1, SpaceFacts
  <2> QED
    BY <2>1 DEF Books, Apart
<1>3. L \cap S = {}
  <2>1. \A b \in S : Units(b) # {}
    BY PieceFacts, DyadicUnits
  <2>2. \A f \in L : Units(f) \subseteq Space(L)
    BY SpaceFacts
  <2> QED
    BY <1>1, <2>1, <2>2
<1>4. Space(S) \cap Space(V) = {}
  BY SpaceFacts DEF Books, Apart
<1>5. Space(F) \subseteq Space(L)
  BY SoleIsFree DEF Books
<1>6. Space(C) \subseteq Space(S) \cup Space(V) \cup Space(F) /\ Space(S) \subseteq Space(C) /\ Space(V) \subseteq Space(C)
  BY SpaceFacts
<1>7. Space(L) \cup Space(S) \cup (Space(V) \ Space(L)) = Space(L) \cup Space(C)
  BY <1>5, <1>6
<1> QED
  BY <1>2, <1>3, <1>4, <1>7, Zenon DEF Books, Balance

-----------------------------------------------------------------------------
(* The inductive invariant of a store that no death has caught. *)

Chunks == held \cup new \cup old

Fitting == {b \in Pieces : b.off <= pow2[MaxLog]}

TypeInv ==
    /\ freelists \subseteq Fitting /\ Chunks \subseteq Fitting
    /\ allocatedSize \in Sizes /\ version \in 0 .. MaxVersions /\ op \in Ops

(* What the client is in the middle of, and what it then has. *)
ClientInv ==
    /\ held # {} => op = "write"
    /\ new # {} => op \in {"write", "commit", "recover", "rollback", "erase"}
    /\ freed # {} => op \in {"rollback", "erase", "delete"}
    /\ op \in {"rollback", "erase"} => freed \subseteq new
    /\ op = "delete" => freed \subseteq old
    /\ op = "commit" => version < MaxVersions
    /\ gone \subseteq old
    /\ version = 0 => old = {}
    /\ op = "erase" => /\ version = 0 /\ freelists = {Block(0, 1)} /\ allocatedSize = 1 /\ lost = {}

(* The file is never larger than the store, and as large when it is open, unless  *)
(* it could not be enlarged.                                                      *)
FileFits ==
    /\ length \in 0 .. pow2[MaxLog] /\ (isFileCreated <=> length > 0)
    /\ {isOpen, isFileCreated, short} \subseteq BOOLEAN
    /\ isOpen => isFileCreated
    /\ isOpen /\ ~short => length = allocatedSize
    /\ length <= allocatedSize

(* The chunks of a version that is, or is about to be, in the catalog are in it. *)
FileInv ==
    /\ largestFreeChunk = calcLargestFreeChunk(freelists)
    /\ FileFits
    /\ Space(old) \subseteq 0 .. length - 1
    /\ op = "commit" => Space(new) \subseteq 0 .. length - 1

BooksInv ==
    ~Doomed => /\ held \cap (new \cup old) = {} /\ new \cap old = {}
               /\ Books(freelists, allocatedSize, Chunks, freed, Leaving, lost)

StoreInv == SavedInv /\ TypeInv /\ ClientInv /\ FileInv /\ BooksInv

LEMMA FittingFacts ==
    ASSUME NEW b \in Pieces, NEW n \in Sizes, Units(b) \subseteq 0 .. n - 1
    PROVE  b \in Fitting /\ b.off + b.size <= n
<1>1. b.off \in Nat /\ b.size \in Nat \ {0} /\ n \in Nat \ {0} /\ n <= pow2[MaxLog] /\ pow2[MaxLog] \in Nat
  BY PieceFacts, WidthFacts
<1>2. b.off + b.size - 1 \in Units(b)
  BY <1>1 DEF Units
<1>3. b.off + b.size - 1 \in 0 .. n - 1
  BY <1>2
<1> QED
  BY <1>1, <1>3 DEF Fitting

LEMMA BooksFit ==
    ASSUME NEW L, L \subseteq Pieces, NEW n \in Sizes, NEW C, C \subseteq Pieces, NEW F, NEW V, NEW X,
           Books(L, n, C, F, V, X)
    PROVE  /\ L \subseteq Fitting /\ C \subseteq Fitting
           /\ \A b \in L \cup C : b.off + b.size <= n
<1>1. \A b \in L \cup C : Units(b) \subseteq 0 .. n - 1
  BY SpaceFacts DEF Books
<1> QED
  BY <1>1, FittingFacts

(* A new store: one free block *)
LEMMA OneBlockLargest == calcLargestFreeChunk({Block(0, 1)}) = 1
<1>1. {0} \cup {b.size : b \in {Block(0, 1)}} = {0, 1}
  BY DEF Block
<1>2. calcLargestFreeChunk({Block(0, 1)}) = Max({0, 1})
  BY <1>1, Zenon DEF calcLargestFreeChunk
<1>3. Max({0, 1}) = 1
  BY MaxFacts
<1> QED
  BY <1>2, <1>3

LEMMA OneBlockSpace == Space({Block(0, 1)}) = 0 .. 0
<1>1. Units(Block(0, 1)) = 0 .. 0
  BY DEF Units, Block
<1> QED
  BY <1>1, SpaceFacts

LEMMA OneBlockBooks == Books({Block(0, 1)}, 1, {}, {}, {}, {})
<1>1. Space({}) = {}
  BY SpaceFacts
<1> QED
  BY <1>1, OneBlockSpace DEF Books, Apart

LEMMA OneBlockFits == 1 \in Sizes /\ {Block(0, 1)} \subseteq Fitting
<1>1. 1 \in Sizes /\ 1 \in Widths /\ pow2[MaxLog] \in Nat \ {0}
  BY WidthFacts
<1>2. 0 % 1 = 0
  OBVIOUS
<1>3. Block(0, 1) \in Pieces /\ Block(0, 1).off = 0
  BY <1>1, <1>2, DyadicBlock DEF Pieces
<1> QED
  BY <1>1, <1>3 DEF Fitting

LEMMA StoreInvInit == Init => StoreInv
<1> SUFFICES ASSUME Init
             PROVE  StoreInv
  OBVIOUS
<1>1. SavedInv
  BY Zenon DEF Init, SavedInv, PersistedIsCurrent
<1>2. 1 \in Sizes /\ {Block(0, 1)} \subseteq Fitting /\ MaxVersions \in Nat
  BY OneBlockFits, DataStoreAssumption
<1>3. TypeInv
  <2>1. 0 \in 0 .. MaxVersions
    BY <1>2
  <2>2. freelists \subseteq Fitting /\ Chunks \subseteq Fitting
    BY <1>2 DEF Init, Chunks
  <2> QED
    BY <1>2, <2>1, <2>2, Zenon DEF Init, TypeInv, Ops
<1>4. ClientInv
  BY DEF Init, ClientInv
<1>5. FileInv
  <2>1. 0 \in 0 .. pow2[MaxLog] /\ ~(0 > 0) /\ 0 <= 1
    BY WidthFacts
  <2>2. FileFits
    BY <2>1, Zenon DEF Init, FileFits
  <2>3. Space(old) = {}
    BY SpaceFacts DEF Init
  <2> QED
    BY <2>2, <2>3, OneBlockLargest DEF Init, FileInv
<1>6. BooksInv
  BY OneBlockBooks DEF Init, BooksInv, Chunks, Leaving
<1> QED
  BY <1>1, <1>3, <1>4, <1>5, <1>6 DEF StoreInv

(* Whoever is writing has freed nothing, and nothing of theirs is on its way out. *)
LEMMA WriterFacts ==
    ASSUME StoreInv, op \in {"none", "write", "commit", "delete"}
    PROVE  /\ ~Doomed /\ Leaving = {} /\ (op # "delete" => freed = {})
           /\ held \cap (new \cup old) = {} /\ new \cap old = {}
           /\ Books(freelists, allocatedSize, Chunks, freed, {}, lost)
           /\ freelists \subseteq Pieces /\ Chunks \subseteq Pieces
<1>1. ~Doomed /\ Leaving = {}
  BY DEF Doomed, Leaving
<1>2. op # "delete" => freed = {}
  BY DEF StoreInv, ClientInv
<1>3. freelists \subseteq Pieces /\ Chunks \subseteq Pieces
  BY DEF StoreInv, TypeInv, Fitting
<1> QED
  BY <1>1, <1>2, <1>3, Zenon DEF StoreInv, BooksInv

LEMMA LongerFile ==
    ASSUME NEW x \in Nat, NEW y \in Nat, x <= y, NEW S, S \subseteq 0 .. x - 1
    PROVE  S \subseteq 0 .. y - 1
  OBVIOUS

(* checkFileOpen brings the file to the size that the store has. *)
LEMMA FileOpened ==
    ASSUME FileFits, allocatedSize \in Sizes, checkFileOpen(allocatedSize),
           UNCHANGED <<allocatedSize, short>>
    PROVE  FileFits' /\ length \in Nat /\ length' \in Nat /\ length <= length'
<1>1. allocatedSize \in Nat \ {0} /\ allocatedSize <= pow2[MaxLog] /\ pow2[MaxLog] \in Nat
  BY WidthFacts
<1>2. /\ isOpen' = TRUE /\ isFileCreated' = TRUE
      /\ length' = IF isOpen \/ length >= allocatedSize THEN length ELSE allocatedSize
  BY Zenon DEF checkFileOpen
<1>3. /\ length \in Nat /\ length' \in 0 .. pow2[MaxLog] /\ length <= length'
      /\ length' <= allocatedSize /\ length' > 0
  BY <1>1, <1>2 DEF FileFits
<1>4. ~short => length' = allocatedSize
  BY <1>1, <1>2, <1>3 DEF FileFits
<1>5. {isOpen', isFileCreated', short'} \subseteq BOOLEAN
  BY <1>2, Zenon DEF FileFits
<1> QED
  BY <1>1, <1>2, <1>3, <1>4, <1>5 DEF FileFits

(* allocateSpace hands out space that was free. *)
LEMMA AllocateKeeps ==
    ASSUME StoreInv, NEW n \in Request, allocateSpace(n)
    PROVE  (TypeInv /\ ClientInv /\ FileInv /\ BooksInv)'
<1> DEFINE size == roundUpPowerOf2(n)
           grow == size > largestFreeChunk
           lists == IF grow THEN freelists \cup MoreSpace(size) ELSE freelists
           total == IF grow THEN 2 * LastDoubled(size) ELSE allocatedSize
           found == searchFreelist(lists, size)
           c == Block(found.off, size)
<1>1. /\ ~Doomed /\ Leaving = {} /\ freed = {}
      /\ held \cap (new \cup old) = {} /\ new \cap old = {}
      /\ Books(freelists, allocatedSize, Chunks, {}, {}, lost)
      /\ freelists \subseteq Pieces /\ Chunks \subseteq Pieces
  <2>1. op \in {"none", "write", "commit", "delete"} /\ op # "delete"
    BY DEF allocateSpace
  <2> QED
    BY <2>1, WriterFacts, Zenon
<1>2. size \in Sizes
  BY RoundUpFacts
<1>3. allocatedSize \in Sizes /\ allocatedSize \in Nat \ {0} /\ largestFreeChunk = calcLargestFreeChunk(freelists)
  BY WidthFacts DEF StoreInv, TypeInv, FileInv
<1>4. total <= pow2[MaxLog]
  BY Zenon DEF allocateSpace
<1> HIDE DEF size
<1>5. /\ lists \subseteq Pieces /\ total \in Sizes /\ (\E f \in lists : f.size >= size)
      /\ (~grow => total = allocatedSize) /\ allocatedSize <= total
      /\ Books(lists, total, Chunks, {}, {}, lost)
  <2>1. CASE grow
    <3>1. 2 * LastDoubled(size) <= pow2[MaxLog]
      BY <1>4, <2>1
    <3>2. /\ 2 * LastDoubled(size) \in Sizes /\ allocatedSize < 2 * LastDoubled(size)
          /\ MoreSpace(size) \subseteq Pieces /\ Apart(MoreSpace(size))
          /\ Space(MoreSpace(size)) = allocatedSize .. 2 * LastDoubled(size) - 1
          /\ \E f \in MoreSpace(size) : f.size >= size
      BY <1>2, <1>3, <3>1, MoreSpaceFacts
    <3>3. 2 * LastDoubled(size) \in Nat /\ allocatedSize <= 2 * LastDoubled(size)
      BY <1>3, <3>2, WidthFacts
    <3>4. Books(freelists \cup MoreSpace(size), 2 * LastDoubled(size), Chunks, {}, {}, lost)
      BY <1>1, <1>3, <3>2, <3>3, BooksGrow
    <3> HIDE DEF grow
    <3> QED
      BY <1>1, <2>1, <3>2, <3>3, <3>4
  <2>2. CASE ~grow
    <3>1. \E f \in freelists : f.size >= size
      BY <1>1, <1>2, <1>3, <2>2, LargestFacts
    <3> HIDE DEF grow
    <3> QED
      BY <1>1, <1>3, <2>2, <3>1
  <2> QED
    BY <2>1, <2>2
<1>6. /\ allocatedSize' = total /\ freelists' = found.lists
      /\ length' = (IF isOpen /\ grow THEN total ELSE length) /\ short' = (short /\ ~grow)
      /\ held' = held \cup {c} /\ op' = "write"
  BY Zenon DEF allocateSpace, size
<1>7. /\ largestFreeChunk' = calcLargestFreeChunk(freelists')
      /\ UNCHANGED <<isFileCreated, isOpen, torn, new, old, freed, gone, version, lost>>
      /\ op \in {"none", "write"}
  BY Zenon DEF allocateSpace
<1> HIDE DEF lists
<1>8. /\ found.lists \subseteq Pieces /\ c \in Pieces /\ c \notin Chunks
      /\ Books(found.lists, total, Chunks \cup {c}, {}, {}, lost)
  BY <1>1, <1>2, <1>5, BooksAllocate, Zenon
<1> HIDE DEF c, found
<1>9. Chunks' = Chunks \cup {c}
  BY <1>6, <1>7 DEF Chunks
<1> HIDE DEF total, grow
<1>10. FileFits' /\ length \in Nat /\ length' \in Nat /\ length <= length'
  <2>1. FileFits
    BY DEF StoreInv, FileInv
  <2>2. total \in Nat \ {0} /\ total <= pow2[MaxLog] /\ pow2[MaxLog] \in Nat
    BY <1>5, WidthFacts
  <2>3. UNCHANGED <<isFileCreated, isOpen>> /\ allocatedSize' = total
    BY <1>6, <1>7
  <2>4. /\ length \in 0 .. pow2[MaxLog] /\ length <= total
        /\ length' \in 0 .. pow2[MaxLog] /\ length' <= total /\ length <= length'
    BY <1>3, <1>5, <1>6, <2>1, <2>2 DEF FileFits
  <2>5. isFileCreated' <=> length' > 0
    BY <1>6, <2>1, <2>2, <2>3 DEF FileFits
  <2>6. {isOpen', isFileCreated', short'} \subseteq BOOLEAN /\ (isOpen' => isFileCreated')
    BY <1>6, <2>1, <2>3, Zenon DEF FileFits
  <2>7. isOpen' /\ ~short' => length' = total
    BY <1>5, <1>6, <2>1, <2>3 DEF FileFits
  <2> QED
    BY <2>2, <2>3, <2>4, <2>5, <2>6, <2>7 DEF FileFits
<1>11. TypeInv'
  <2>1. found.lists \subseteq Fitting /\ Chunks \cup {c} \subseteq Fitting
    BY <1>1, <1>5, <1>8, BooksFit, Zenon
  <2> QED
    BY <1>5, <1>6, <1>7, <1>9, <2>1, Zenon DEF StoreInv, TypeInv, Ops
<1>12. ClientInv'
  BY <1>6, <1>7, Zenon DEF StoreInv, ClientInv
<1>13. ~Doomed' /\ Leaving' = {}
  BY <1>6 DEF Doomed, Leaving
<1>14. FileInv'
  <2>1. Space(old) \subseteq 0 .. length - 1
    BY DEF StoreInv, FileInv
  <2>2. Space(old) \subseteq 0 .. length' - 1
    BY <1>10, <2>1, LongerFile, Zenon
  <2> QED
    BY <1>6, <1>7, <1>10, <2>2 DEF FileInv
<1>15. BooksInv'
  <2>1. (held \cup {c}) \cap (new \cup old) = {}
    BY <1>1, <1>8, Zenon DEF Chunks
  <2> QED
    BY <1>1, <1>6, <1>7, <1>8, <1>9, <1>13, <2>1, Zenon DEF BooksInv
<1> QED
  BY <1>11, <1>12, <1>14, <1>15

(* When the file cannot be enlarged, its space is free all the same. *)
LEMMA GrowFailsKeeps ==
    ASSUME StoreInv, NEW n \in Request, makeMoreSpaceFails(n)
    PROVE  (TypeInv /\ ClientInv /\ FileInv /\ BooksInv)'
<1>1. /\ op \in {"none", "write"} /\ op' = "write" /\ short' = TRUE /\ isOpen
      /\ UNCHANGED <<isFileCreated, isOpen, held, new, old, freed, gone, version, lost>>
  BY Zenon DEF makeMoreSpaceFails
<1>2. PICK s \in Sizes :
        /\ allocatedSize <= s /\ 2 * s <= pow2[MaxLog]
        /\ freelists' = freelists \cup MoreSpace(s) /\ largestFreeChunk' = s
        /\ allocatedSize' = 2 * s
        /\ length' = IF s = allocatedSize THEN length ELSE s
  BY Zenon DEF makeMoreSpaceFails
<1>3. /\ freed = {} /\ held \cap (new \cup old) = {} /\ new \cap old = {}
      /\ Books(freelists, allocatedSize, Chunks, {}, {}, lost)
      /\ freelists \subseteq Pieces /\ Chunks \subseteq Pieces
  <2>1. op \in {"none", "write", "commit", "delete"} /\ op # "delete"
    BY <1>1
  <2> QED
    BY <2>1, WriterFacts, Zenon
<1>4. /\ allocatedSize \in Sizes /\ allocatedSize \in Nat /\ s \in Nat \ {0}
      /\ s <= pow2[MaxLog] /\ pow2[MaxLog] \in Nat
  BY WidthFacts DEF StoreInv, TypeInv
<1>5. LastDoubled(s) = s
  BY <1>2, <1>4, MaxFacts DEF LastDoubled
<1>6. /\ 2 * s \in Sizes /\ allocatedSize < 2 * s
      /\ MoreSpace(s) \subseteq Pieces /\ Apart(MoreSpace(s))
      /\ Space(MoreSpace(s)) = allocatedSize .. 2 * s - 1
  BY <1>2, <1>4, <1>5, MoreSpaceFacts
<1>7. Books(freelists', allocatedSize', Chunks, {}, {}, lost) /\ freelists' \subseteq Pieces
  <2>1. 2 * s \in Nat /\ allocatedSize <= 2 * s
    BY <1>4, <1>6
  <2>2. Books(freelists \cup MoreSpace(s), 2 * s, Chunks, {}, {}, lost)
    BY <1>3, <1>4, <1>6, <2>1, BooksGrow
  <2> QED
    BY <1>2, <1>3, <1>6, <2>2
<1>8. largestFreeChunk' = calcLargestFreeChunk(freelists')
  <2> DEFINE S == {0} \cup {b.size : b \in freelists'}
  <2>1. ASSUME NEW b \in freelists
        PROVE  b.size \in Nat /\ b.size <= s
    <3>1. b.size \in Nat /\ b.off \in Nat
      BY <1>3, PieceFacts
    <3>2. b.off + b.size <= allocatedSize
      BY <1>3, <1>4, BooksFit
    <3> QED
      BY <1>2, <1>4, <3>1, <3>2
  <2>2. ASSUME NEW b \in MoreSpace(s)
        PROVE  b.size \in Nat /\ b.size <= s
    <3>1. b.size \in Nat
      BY <1>6, PieceFacts
    <3> QED
      BY <1>5, <3>1 DEF MoreSpace, Block
  <2>3. Block(s, s) \in MoreSpace(s) /\ Block(s, s).size = s
    BY <1>2, <1>4, <1>5 DEF MoreSpace, Block
  <2>4. S \subseteq Nat /\ s \in S /\ \A x \in S : x <= s
    BY <1>2, <1>4, <2>1, <2>2, <2>3
  <2>5. calcLargestFreeChunk(freelists') = Max(S)
    BY Zenon DEF calcLargestFreeChunk
  <2> HIDE DEF S
  <2> QED
    BY <1>2, <2>4, <2>5, GreatestIsMax, Zenon
<1>9. Chunks' = Chunks /\ Leaving' = {}
  BY <1>1 DEF Chunks, Leaving
<1>10. TypeInv'
  <2>1. freelists' \subseteq Fitting
    BY <1>2, <1>3, <1>6, <1>7, BooksFit
  <2> QED
    BY <1>1, <1>2, <1>6, <1>9, <2>1, Zenon DEF StoreInv, TypeInv, Ops
<1>11. ClientInv'
  BY <1>1, <1>3, Zenon DEF StoreInv, ClientInv
<1>12. FileInv'
  <2>1. FileFits
    BY DEF StoreInv, FileInv
  <2>2. /\ length \in Nat /\ length' \in 0 .. pow2[MaxLog] /\ length <= length'
        /\ length' <= 2 * s /\ length > 0
    BY <1>1, <1>2, <1>4, <2>1 DEF FileFits
  <2>3. FileFits'
    <3>1. {isOpen', isFileCreated', short'} \subseteq BOOLEAN /\ isFileCreated' /\ short'
      BY <1>1, <2>1, Zenon DEF FileFits
    <3> QED
      BY <1>2, <1>4, <2>2, <3>1 DEF FileFits
  <2>4. Space(old) \subseteq 0 .. length' - 1
    BY <2>2, LongerFile DEF StoreInv, FileInv
  <2> QED
    BY <1>1, <1>8, <2>3, <2>4 DEF FileInv
<1>13. BooksInv'
  BY <1>1, <1>3, <1>7, <1>9, Zenon DEF BooksInv
<1> QED
  BY <1>10, <1>11, <1>12, <1>13

(* What freeChunk does to a store that is not doomed, for a chunk that this process *)
(* has not freed.                                                                   *)
LEMMA FreeChunkFacts ==
    ASSUME StoreInv, ~Doomed, NEW b \in Chunks \ freed, freeChunk(b)
    PROVE  /\ freelists' \subseteq Fitting /\ fl' = {} /\ UNCHANGED <<allocatedSize, torn>>
           /\ Books(freelists', allocatedSize, Chunks, freed \cup {b}, Leaving, lost)
           /\ largestFreeChunk' = calcLargestFreeChunk(freelists')
           /\ FileFits' /\ Space(old) \subseteq 0 .. length' - 1
<1>1. /\ freelists \subseteq Pieces /\ Chunks \subseteq Pieces /\ allocatedSize \in Sizes
      /\ Books(freelists, allocatedSize, Chunks, freed, Leaving, lost)
  BY DEF StoreInv, TypeInv, BooksInv, Fitting
<1>2. freelists' = FreeLists(freelists, b)
  BY Zenon DEF freeChunk, FreeLists
<1>3. /\ freelists' \subseteq Pieces
      /\ Books(freelists', allocatedSize, Chunks, freed \cup {b}, Leaving, lost)
  BY <1>1, <1>2, BooksFree
<1>4. freelists' \subseteq Fitting
  BY <1>1, <1>3, BooksFit
<1>5. fl' = {}
  BY Invalidated DEF StoreInv, freeChunk
<1>6. FileFits /\ UNCHANGED <<allocatedSize, short>>
  BY DEF StoreInv, FileInv, freeChunk
<1>7. FileFits' /\ length \in Nat /\ length' \in Nat /\ length <= length'
  <2>1. CASE UNCHANGED <<isOpen, isFileCreated, length>>
    <3>1. length \in Nat /\ length <= length
      BY <1>6, WidthFacts DEF FileFits
    <3> QED
      BY <1>6, <2>1, <3>1, Zenon DEF FileFits
  <2>2. CASE checkFileOpen(allocatedSize)
    BY <1>1, <1>6, <2>2, FileOpened
  <2> QED
    BY <2>1, <2>2, Zenon DEF freeChunk
<1>8. Space(old) \subseteq 0 .. length' - 1
  BY <1>7, LongerFile DEF StoreInv, FileInv
<1> QED
  BY <1>3, <1>4, <1>5, <1>7, <1>8, Zenon DEF freeChunk

(* cleanupDiskIndexValue: a chunk of the writer is freed and forgotten. *)
LEMMA CleanupKeeps ==
    ASSUME StoreInv, NEW b \in held, cleanupDiskIndexValue(b)
    PROVE  (TypeInv /\ ClientInv /\ FileInv /\ BooksInv)'
<1>1. /\ op = "write" /\ op' = op /\ freeChunk(b) /\ held' = held \ {b}
      /\ UNCHANGED <<new, old, freed, gone, version, lost>>
  BY Zenon DEF cleanupDiskIndexValue
<1>2. /\ ~Doomed /\ Leaving = {} /\ freed = {}
      /\ held \cap (new \cup old) = {} /\ new \cap old = {}
  BY <1>1, WriterFacts
<1>3. b \in Chunks \ freed
  BY <1>2 DEF Chunks
<1>4. /\ freelists' \subseteq Fitting /\ fl' = {} /\ UNCHANGED <<allocatedSize, torn>>
      /\ Books(freelists', allocatedSize, Chunks, freed \cup {b}, Leaving, lost)
      /\ largestFreeChunk' = calcLargestFreeChunk(freelists')
      /\ FileFits' /\ Space(old) \subseteq 0 .. length' - 1
  BY <1>1, <1>2, <1>3, FreeChunkFacts, Zenon
<1>5. Chunks' = Chunks \ {b}
  BY <1>1, <1>2 DEF Chunks
<1>6. Books(freelists', allocatedSize, Chunks \ {b}, {}, {}, lost)
  <2>1. (freed \cup {b}) \ {b} = {} /\ {b} \subseteq freed \cup {b}
    BY <1>2
  <2>2. Books(freelists', allocatedSize, Chunks \ {b}, (freed \cup {b}) \ {b}, {}, lost)
    BY <1>2, <1>4, <2>1, BooksErase, Zenon
  <2> QED
    BY <2>1, <2>2, Zenon
<1>7. ~Doomed' /\ Leaving' = {}
  BY <1>1 DEF Doomed, Leaving
<1>8. TypeInv'
  BY <1>1, <1>4, <1>5 DEF StoreInv, TypeInv
<1>9. ClientInv'
  BY <1>1, <1>2 DEF StoreInv, ClientInv
<1>10. FileInv'
  BY <1>1, <1>4 DEF FileInv
<1>11. BooksInv'
  BY <1>1, <1>2, <1>4, <1>5, <1>6, <1>7 DEF BooksInv
<1> QED
  BY <1>8, <1>9, <1>10, <1>11

(* discardBuffer frees a chunk of the version that is rolled back, whose entry stays. *)
LEMMA DiscardKeeps ==
    ASSUME StoreInv, NEW b \in new, discardBuffer(b)
    PROVE  (TypeInv /\ ClientInv /\ FileInv /\ BooksInv)'
<1>1. /\ op = "rollback" /\ op' = op /\ version > 0 /\ b \in new \ freed /\ freeChunk(b)
      /\ freed' = freed \cup {b}
      /\ UNCHANGED <<held, new, old, gone, version, lost>>
  BY Zenon DEF discardBuffer
<1>2. ~Doomed /\ ~Doomed' /\ Leaving' = Leaving /\ Chunks' = Chunks
  BY <1>1 DEF Doomed, Leaving, Chunks
<1>3. b \in Chunks \ freed
  BY <1>1 DEF Chunks
<1>4. /\ freelists' \subseteq Fitting /\ fl' = {} /\ UNCHANGED <<allocatedSize, torn>>
      /\ Books(freelists', allocatedSize, Chunks, freed \cup {b}, Leaving, lost)
      /\ largestFreeChunk' = calcLargestFreeChunk(freelists')
      /\ FileFits' /\ Space(old) \subseteq 0 .. length' - 1
  BY <1>1, <1>2, <1>3, FreeChunkFacts
<1>5. TypeInv'
  BY <1>1, <1>2, <1>4 DEF StoreInv, TypeInv
<1>6. ClientInv'
  BY <1>1 DEF StoreInv, ClientInv
<1>7. FileInv'
  BY <1>1, <1>4 DEF FileInv
<1>8. BooksInv'
  BY <1>1, <1>2, <1>4 DEF StoreInv, BooksInv
<1> QED
  BY <1>5, <1>6, <1>7, <1>8

(* deleteRecord frees a chunk of an old version and leaves its entry to eraseRecord. *)
LEMMA DeleteRecordKeeps ==
    ASSUME StoreInv, NEW b \in old, deleteRecord(b)
    PROVE  (TypeInv /\ ClientInv /\ FileInv /\ BooksInv)'
<1>1. /\ op = "none" /\ op' = "delete" /\ ~torn /\ freeChunk(b) /\ freed' = {b}
      /\ UNCHANGED <<held, new, old, gone, version, lost>>
  BY Zenon DEF deleteRecord
<1>2. /\ ~Doomed /\ Leaving = {} /\ freed = {}
      /\ held \cap (new \cup old) = {} /\ new \cap old = {}
  BY <1>1, WriterFacts
<1>3. b \in Chunks \ freed
  BY <1>2 DEF Chunks
<1>4. /\ freelists' \subseteq Fitting /\ fl' = {} /\ UNCHANGED <<allocatedSize, torn>>
      /\ Books(freelists', allocatedSize, Chunks, freed \cup {b}, Leaving, lost)
      /\ largestFreeChunk' = calcLargestFreeChunk(freelists')
      /\ FileFits' /\ Space(old) \subseteq 0 .. length' - 1
  BY <1>1, <1>2, <1>3, FreeChunkFacts
<1>5. ~Doomed' /\ Leaving' = {} /\ Chunks' = Chunks /\ freed' = freed \cup {b} /\ version # 0
  BY <1>1, <1>2 DEF Doomed, Leaving, Chunks, StoreInv, ClientInv
<1>6. TypeInv'
  BY <1>1, <1>4, <1>5, Zenon DEF StoreInv, TypeInv, Ops
<1>7. ClientInv'
  BY <1>1, <1>4, <1>5, Zenon DEF StoreInv, ClientInv
<1>8. FileInv'
  BY <1>1, <1>4 DEF FileInv
<1>9. BooksInv'
  BY <1>1, <1>2, <1>4, <1>5 DEF BooksInv
<1> QED
  BY <1>6, <1>7, <1>8, <1>9

(* writeData and readData open the file, which does not get shorter by it. *)
LEMMA OpenedKeeps ==
    ASSUME StoreInv, op # "commit", FileFits',
           length \in Nat, length' \in Nat, length <= length',
           UNCHANGED <<freelists, largestFreeChunk, allocatedSize, client, lost>>
    PROVE  (TypeInv /\ ClientInv /\ FileInv /\ BooksInv)'
<1>1. /\ held' = held /\ new' = new /\ old' = old /\ freed' = freed /\ gone' = gone
      /\ version' = version /\ op' = op /\ lost' = lost
      /\ freelists' = freelists /\ allocatedSize' = allocatedSize
      /\ largestFreeChunk' = largestFreeChunk
  BY DEF client
<1>2. Chunks' = Chunks /\ Leaving' = Leaving /\ (Doomed' <=> Doomed)
  BY <1>1 DEF Chunks, Leaving, Doomed
<1>3. TypeInv'
  BY <1>1, <1>2 DEF StoreInv, TypeInv
<1>4. ClientInv'
  BY <1>1 DEF StoreInv, ClientInv
<1>5. FileInv'
  <2>1. Space(old) \subseteq 0 .. length' - 1
    BY LongerFile DEF StoreInv, FileInv
  <2> QED
    BY <1>1, <2>1 DEF StoreInv, FileInv
<1>6. BooksInv'
  BY <1>1, <1>2, Zenon DEF StoreInv, BooksInv
<1> QED
  BY <1>3, <1>4, <1>5, <1>6

LEMMA WriteDataKeeps ==
    ASSUME StoreInv, NEW b \in held \cup new, writeData(b)
    PROVE  (TypeInv /\ ClientInv /\ FileInv /\ BooksInv)'
<1>1. op = "write" /\ isOpen' = TRUE /\ isFileCreated' = TRUE /\ short' = short /\
      UNCHANGED <<freelists, largestFreeChunk, allocatedSize, client, lost>>
  BY Zenon DEF writeData
<1>2. /\ Books(freelists, allocatedSize, Chunks, freed, {}, lost)
      /\ freelists \subseteq Pieces /\ Chunks \subseteq Pieces
  BY <1>1, WriterFacts
<1>3. allocatedSize \in Sizes /\ allocatedSize \in Nat /\ allocatedSize <= pow2[MaxLog] /\ pow2[MaxLog] \in Nat
  BY WidthFacts DEF StoreInv, TypeInv
<1> DEFINE end == b.off + b.size
<1>4. end \in Nat /\ end > 0 /\ end <= allocatedSize
  <2>1. b \in Chunks
    BY DEF Chunks
  <2>2. b.off \in Nat /\ b.size \in Nat \ {0}
    BY <1>2, <2>1, PieceFacts
  <2>3. b.off + b.size <= allocatedSize
    BY <1>2, <1>3, <2>1, BooksFit
  <2> QED
    BY <1>3, <2>2, <2>3
<1>5. FileFits /\ length \in Nat /\ length <= allocatedSize
  BY WidthFacts DEF StoreInv, FileInv, FileFits
<1>6. length' = Max({length, end} \cup (IF isOpen THEN {} ELSE {allocatedSize}))
  BY Zenon DEF writeData
<1> HIDE DEF end
<1>7. /\ length' \in Nat /\ length <= length' /\ length' > 0 /\ length' <= allocatedSize
      /\ ~short => length' = allocatedSize
  <2>1. CASE isOpen
    <3>1. length' = Max({length, end})
      BY <1>6, <2>1
    <3>2. length' = IF length >= end THEN length ELSE end
      BY <1>4, <1>5, <3>1, MaxFacts
    <3>3. ~short => length = allocatedSize
      BY <1>5, <2>1 DEF FileFits
    <3> QED
      BY <1>3, <1>4, <1>5, <3>2, <3>3
  <2>2. CASE ~isOpen
    <3> DEFINE S == {length, end} \cup {allocatedSize}
    <3>1. S \subseteq Nat /\ allocatedSize \in S /\ \A x \in S : x <= allocatedSize
      BY <1>3, <1>4, <1>5
    <3>2. length' = Max(S)
      BY <1>6, <2>2
    <3> HIDE DEF S
    <3>3. length' = allocatedSize
      BY <3>1, <3>2, GreatestIsMax, Zenon
    <3> QED
      BY <1>3, <1>4, <1>5, <3>3
  <2> QED
    BY <2>1, <2>2
<1>8. FileFits'
  <2>1. {isOpen', isFileCreated', short'} \subseteq BOOLEAN
    BY <1>1, <1>5, Zenon DEF FileFits
  <2> QED
    BY <1>1, <1>3, <1>7, <2>1 DEF FileFits
<1> QED
  BY <1>1, <1>5, <1>7, <1>8, OpenedKeeps

LEMMA ReadDataKeeps ==
    ASSUME StoreInv, NEW b \in old, readData(b)
    PROVE  (TypeInv /\ ClientInv /\ FileInv /\ BooksInv)'
<1>1. op \in {"none", "write"} /\ checkFileOpen(allocatedSize) /\ short' = short /\
      UNCHANGED <<freelists, largestFreeChunk, allocatedSize, client, lost>>
  BY Zenon DEF readData
<1>2. FileFits' /\ length \in Nat /\ length' \in Nat /\ length <= length'
  BY <1>1, FileOpened DEF StoreInv, FileInv, TypeInv
<1> QED
  BY <1>1, <1>2, OpenedKeeps

(* Steps that only write the free list file. *)
LEMMA SavingKeeps ==
    ASSUME StoreInv,
           UNCHANGED <<freelists, largestFreeChunk, allocatedSize, isOpen, isFileCreated, length, short, client, lost>>
    PROVE  (TypeInv /\ ClientInv /\ FileInv /\ BooksInv)'
<1>1. /\ held' = held /\ new' = new /\ old' = old /\ freed' = freed /\ gone' = gone
      /\ version' = version /\ op' = op /\ lost' = lost
      /\ freelists' = freelists /\ allocatedSize' = allocatedSize
      /\ largestFreeChunk' = largestFreeChunk
      /\ isOpen' = isOpen /\ isFileCreated' = isFileCreated /\ length' = length /\ short' = short
  BY DEF client
<1>2. Chunks' = Chunks /\ Leaving' = Leaving /\ (Doomed' <=> Doomed)
  BY <1>1 DEF Chunks, Leaving, Doomed
<1>3. TypeInv'
  BY <1>1, <1>2 DEF StoreInv, TypeInv
<1>4. ClientInv'
  BY <1>1 DEF StoreInv, ClientInv
<1>5. FileInv'
  <2>1. FileFits'
    BY <1>1 DEF StoreInv, FileInv, FileFits
  <2> QED
    BY <1>1, <2>1 DEF StoreInv, FileInv
<1>6. BooksInv'
  BY <1>1, <1>2, Zenon DEF StoreInv, BooksInv
<1> QED
  BY <1>3, <1>4, <1>5, <1>6

(* insertRecord: a chunk of the writer enters the index. *)
LEMMA InsertKeeps ==
    ASSUME StoreInv, NEW b \in held, insertRecord(b)
    PROVE  (TypeInv /\ ClientInv /\ FileInv /\ BooksInv)'
<1>1. /\ op = "write" /\ held' = held \ {b} /\ new' = new \cup {b}
      /\ old' = old /\ freed' = freed /\ gone' = gone /\ version' = version /\ op' = op /\ lost' = lost
      /\ freelists' = freelists /\ allocatedSize' = allocatedSize
      /\ largestFreeChunk' = largestFreeChunk
      /\ isOpen' = isOpen /\ isFileCreated' = isFileCreated /\ length' = length /\ short' = short
      /\ fl' = fl /\ torn' = torn
  BY DEF insertRecord, memory, files
<1>2. /\ ~Doomed /\ held \cap (new \cup old) = {} /\ new \cap old = {}
      /\ Books(freelists, allocatedSize, Chunks, freed, {}, lost)
  BY <1>1, WriterFacts
<1>3. Chunks' = Chunks /\ Leaving' = {} /\ ~Doomed'
  BY <1>1 DEF Chunks, Leaving, Doomed
<1>4. TypeInv'
  BY <1>1, <1>3 DEF StoreInv, TypeInv
<1>5. ClientInv'
  BY <1>1, Zenon DEF StoreInv, ClientInv
<1>6. FileInv'
  BY <1>1, Zenon DEF StoreInv, FileInv, FileFits
<1>7. BooksInv'
  BY <1>1, <1>2, <1>3 DEF BooksInv
<1> QED
  BY <1>4, <1>5, <1>6, <1>7

(* The commit: flushVersion saves the lists, commitVersion makes the chunks old. *)
LEMMA FlushVersionKeeps ==
    ASSUME StoreInv, flushVersion
    PROVE  (TypeInv /\ ClientInv /\ FileInv /\ BooksInv)'
<1>1. /\ op = "write" /\ op' = "commit" /\ held = {}
      /\ (new = {} \/ Space(new) \subseteq 0 .. length - 1)
      /\ held' = held /\ new' = new /\ old' = old /\ freed' = freed /\ gone' = gone
      /\ version' = version /\ lost' = lost
      /\ freelists' = freelists /\ allocatedSize' = allocatedSize
      /\ largestFreeChunk' = largestFreeChunk
      /\ isOpen' = isOpen /\ isFileCreated' = isFileCreated /\ length' = length /\ short' = short
      /\ version < MaxVersions
  BY DEF flushVersion, flush, memory
<1>2. /\ ~Doomed /\ held \cap (new \cup old) = {} /\ new \cap old = {}
      /\ Books(freelists, allocatedSize, Chunks, freed, {}, lost)
  BY <1>1, WriterFacts
<1>3. Chunks' = Chunks /\ Leaving' = {} /\ ~Doomed'
  BY <1>1 DEF Chunks, Leaving, Doomed
<1>4. TypeInv'
  BY <1>1, <1>3 DEF StoreInv, TypeInv, Ops
<1>5. ClientInv'
  BY <1>1, Zenon DEF StoreInv, ClientInv
<1>6. FileInv'
  <2>1. Space(new) \subseteq 0 .. length - 1
    BY <1>1, SpaceFacts
  <2> QED
    BY <1>1, <2>1, Zenon DEF StoreInv, FileInv, FileFits
<1>7. BooksInv'
  BY <1>1, <1>2, <1>3 DEF BooksInv
<1> QED
  BY <1>4, <1>5, <1>6, <1>7

LEMMA CommitVersionKeeps ==
    ASSUME StoreInv, commitVersion
    PROVE  (TypeInv /\ ClientInv /\ FileInv /\ BooksInv)'
<1>1. /\ op = "commit" /\ op' = "none" /\ old' = old \cup new /\ new' = {} /\ version' = version + 1
      /\ held' = held /\ freed' = freed /\ gone' = gone /\ lost' = lost
      /\ freelists' = freelists /\ allocatedSize' = allocatedSize
      /\ largestFreeChunk' = largestFreeChunk
      /\ isOpen' = isOpen /\ isFileCreated' = isFileCreated /\ length' = length /\ short' = short
  BY DEF commitVersion, memory, files
<1>2. /\ ~Doomed /\ held \cap (new \cup old) = {} /\ new \cap old = {} /\ freed = {}
      /\ Books(freelists, allocatedSize, Chunks, freed, {}, lost)
  BY <1>1, WriterFacts
<1>3. version \in Nat /\ version' \in 0 .. MaxVersions /\ version' # 0 /\ version' > 0
  BY <1>1, DataStoreAssumption DEF StoreInv, TypeInv, ClientInv
<1>4. Chunks' = Chunks /\ Leaving' = {} /\ ~Doomed'
  BY <1>1 DEF Chunks, Leaving, Doomed
<1>5. TypeInv'
  BY <1>1, <1>3, <1>4 DEF StoreInv, TypeInv, Ops
<1>6. ClientInv'
  BY <1>1, <1>2, <1>3, Zenon DEF StoreInv, ClientInv
<1>7. FileInv'
  <2>1. Space(old \cup new) \subseteq 0 .. length - 1
    BY <1>1, SpaceFacts DEF StoreInv, FileInv
  <2> QED
    BY <1>1, <2>1, Zenon DEF StoreInv, FileInv, FileFits
<1>8. BooksInv'
  BY <1>1, <1>2, <1>4, Zenon DEF BooksInv, StoreInv, ClientInv
<1> QED
  BY <1>5, <1>6, <1>7, <1>8

(* The rollback of a version: its chunks are now on their way out. *)
LEMMA RollbackKeeps ==
    ASSUME StoreInv, rollbackVersion
    PROVE  (TypeInv /\ ClientInv /\ FileInv /\ BooksInv)'
<1>1. /\ op \in {"write", "commit", "recover"} /\ op' = "rollback" /\ held = {}
      /\ held' = held /\ new' = new /\ old' = old /\ freed' = freed /\ gone' = gone
      /\ version' = version /\ lost' = lost
      /\ freelists' = freelists /\ allocatedSize' = allocatedSize
      /\ largestFreeChunk' = largestFreeChunk
      /\ isOpen' = isOpen /\ isFileCreated' = isFileCreated /\ length' = length /\ short' = short
  BY DEF rollbackVersion, memory, files
<1>2. Chunks' = Chunks /\ Leaving' = new /\ Leaving \subseteq new /\ (Doomed' <=> version = 0)
  BY <1>1 DEF Chunks, Leaving, Doomed
<1>3. TypeInv'
  BY <1>1, <1>2 DEF StoreInv, TypeInv, Ops
<1>4. ClientInv'
  BY <1>1, Zenon DEF StoreInv, ClientInv
<1>5. FileInv'
  BY <1>1, Zenon DEF StoreInv, FileInv, FileFits
<1>6. BooksInv'
  <2> SUFFICES ASSUME version # 0
               PROVE  BooksInv'
    BY <1>2 DEF BooksInv
  <2>1. /\ held \cap (new \cup old) = {} /\ new \cap old = {}
        /\ Books(freelists, allocatedSize, Chunks, freed, Leaving, lost)
    BY DEF StoreInv, BooksInv, Doomed
  <2>2. Books(freelists, allocatedSize, Chunks, freed, new, lost)
    BY <1>2, <2>1, Zenon DEF Books
  <2> QED
    BY <1>1, <1>2, <2>1, <2>2 DEF BooksInv
<1> QED
  BY <1>3, <1>4, <1>5, <1>6

(* closeDataStore: the store of an array without a version is removed. *)
LEMMA CloseKeeps ==
    ASSUME StoreInv, closeDataStore
    PROVE  (TypeInv /\ ClientInv /\ FileInv /\ BooksInv)'
<1>1. /\ op = "rollback" /\ op' = "erase" /\ version = 0 /\ version' = 0 /\ length' = 0 /\ short' = FALSE
      /\ freed' = new /\ lost' = {} /\ held' = held /\ new' = new /\ old' = old /\ gone' = gone
  BY Zenon DEF closeDataStore
<1>2. /\ isFileCreated' = FALSE /\ isOpen' = FALSE /\ allocatedSize' = 1
      /\ freelists' = {Block(0, 1)} /\ largestFreeChunk' = calcLargestFreeChunk(freelists')
  BY Zenon DEF closeDataStore, initializeFreelist
<1>3. Doomed' /\ Chunks' = Chunks
  BY <1>1 DEF Doomed, Chunks
<1>4. 1 \in Sizes /\ {Block(0, 1)} \subseteq Fitting
  BY OneBlockFits
<1>5. TypeInv'
  BY <1>1, <1>2, <1>3, <1>4, Zenon DEF StoreInv, TypeInv, Ops
<1>6. ClientInv'
  BY <1>1, <1>2, Zenon DEF StoreInv, ClientInv
<1>7. FileInv'
  <2>1. 0 \in 0 .. pow2[MaxLog] /\ ~(0 > 0) /\ 0 <= 1
    BY WidthFacts
  <2>2. FileFits'
    BY <1>1, <1>2, <2>1, Zenon DEF FileFits
  <2>3. Space(old) = {}
    BY <1>1, SpaceFacts DEF StoreInv, ClientInv
  <2> QED
    BY <1>1, <1>2, <2>2, <2>3 DEF FileInv
<1>8. BooksInv'
  BY <1>3 DEF BooksInv
<1> QED
  BY <1>5, <1>6, <1>7, <1>8

(* eraseEntries and eraseRecord delete the entries of freed chunks. *)
LEMMA EraseEntriesKeeps ==
    ASSUME StoreInv, eraseEntries
    PROVE  (TypeInv /\ ClientInv /\ FileInv /\ BooksInv)'
<1>1. /\ op = "erase" \/ (op = "rollback" /\ version > 0 /\ new = freed)
      /\ op' = "none" /\ new' = {} /\ freed' = {}
      /\ held' = held /\ old' = old /\ gone' = gone /\ version' = version /\ lost' = lost
      /\ freelists' = freelists /\ allocatedSize' = allocatedSize
      /\ largestFreeChunk' = largestFreeChunk
      /\ isOpen' = isOpen /\ isFileCreated' = isFileCreated /\ length' = length /\ short' = short
  BY DEF eraseEntries, flush, memory, files
<1>2. held = {} /\ ~Doomed' /\ Leaving' = {} /\ Chunks' = old /\ Chunks = new \cup old
  BY <1>1 DEF Doomed, Leaving, Chunks, StoreInv, ClientInv
<1>3. TypeInv'
  BY <1>1, <1>2 DEF StoreInv, TypeInv, Ops
<1>4. ClientInv'
  BY <1>1, <1>2, Zenon DEF StoreInv, ClientInv
<1>5. FileInv'
  BY <1>1, Zenon DEF StoreInv, FileInv, FileFits
<1>6. CASE op = "erase"
  <2>1. freelists = {Block(0, 1)} /\ allocatedSize = 1 /\ old = {} /\ lost = {}
    BY <1>6 DEF StoreInv, ClientInv
  <2>2. BooksInv'
    BY <1>1, <1>2, <2>1, OneBlockBooks DEF BooksInv
  <2> QED
    BY <1>3, <1>4, <1>5, <2>2
<1>7. CASE op = "rollback" /\ version > 0 /\ new = freed
  <2>1. ~Doomed /\ Leaving = new
    BY <1>7 DEF Doomed, Leaving
  <2>2. /\ held \cap (new \cup old) = {} /\ new \cap old = {}
        /\ Books(freelists, allocatedSize, Chunks, freed, new, lost)
    BY <2>1 DEF StoreInv, BooksInv
  <2>3. Books(freelists, allocatedSize, Chunks \ freed, freed \ freed, {}, lost)
    <3>1. new \cap (Chunks \ freed) \subseteq {}
      BY <1>7
    <3> QED
      BY <2>2, <3>1, BooksErase, Zenon
  <2>4. Chunks \ freed = old /\ freed \ freed = {}
    BY <1>2, <1>7, <2>2
  <2>5. BooksInv'
    BY <1>1, <1>2, <2>2, <2>3, <2>4 DEF BooksInv
  <2> QED
    BY <1>3, <1>4, <1>5, <2>5
<1> QED
  BY <1>1, <1>6, <1>7

LEMMA EraseRecordKeeps ==
    ASSUME StoreInv, eraseRecord
    PROVE  (TypeInv /\ ClientInv /\ FileInv /\ BooksInv)'
<1>1. /\ op = "delete" /\ op' = "none" /\ old' = old \ freed /\ gone' = gone \ freed /\ freed' = {}
      /\ held' = held /\ new' = new /\ version' = version /\ lost' = lost
      /\ freelists' = freelists /\ allocatedSize' = allocatedSize
      /\ largestFreeChunk' = largestFreeChunk
      /\ isOpen' = isOpen /\ isFileCreated' = isFileCreated /\ length' = length /\ short' = short
  BY DEF eraseRecord, memory, files
<1>2. /\ ~Doomed /\ Books(freelists, allocatedSize, Chunks, freed, {}, lost)
  BY <1>1, WriterFacts
<1>3. held = {} /\ new = {} /\ Chunks' = Chunks \ freed /\ Leaving' = {} /\ ~Doomed'
  BY <1>1, Zenon DEF StoreInv, ClientInv, Chunks, Leaving, Doomed
<1>4. TypeInv'
  BY <1>1, <1>3 DEF StoreInv, TypeInv, Ops
<1>5. ClientInv'
  BY <1>1, <1>3, Zenon DEF StoreInv, ClientInv
<1>6. FileInv'
  <2>1. Space(old \ freed) \subseteq 0 .. length - 1
    BY SpaceFacts DEF StoreInv, FileInv
  <2> QED
    BY <1>1, <2>1, Zenon DEF StoreInv, FileInv, FileFits
<1>7. BooksInv'
  <2>1. Books(freelists, allocatedSize, Chunks \ freed, freed \ freed, {}, lost)
    BY <1>2, BooksErase
  <2>2. freed \ freed = {}
    OBVIOUS
  <2> QED
    BY <1>1, <1>3, <2>1, <2>2, Zenon DEF BooksInv
<1> QED
  BY <1>4, <1>5, <1>6, <1>7

(* restart: what the process finds is consistent with the entries of the index, *)
(* if it did not die in one of the windows.                                      *)
LEMMA RestartKeeps ==
    ASSUME StoreInv, restart, caught' = {}
    PROVE  (TypeInv /\ ClientInv /\ FileInv /\ BooksInv)'
<1> DEFINE start == IF isFileCreated THEN fl ELSE {Block(0, 1)}
           file == IF isFileCreated THEN 0 .. allocatedSize' - 1 ELSE {}
<1>1. /\ held' = {} /\ freed' = {} /\ short' = FALSE
      /\ gone' = gone \cup (IF op = "delete" THEN freed ELSE {})
      /\ op' = (IF op \in {"none", "delete"} THEN "none" ELSE "recover")
      /\ length' = length /\ new' = new /\ old' = old /\ version' = version
  BY Zenon DEF restart
<1>2. /\ isFileCreated' = isFileCreated /\ isOpen' = FALSE
      /\ allocatedSize' = (IF isFileCreated THEN roundUpPowerOf2(length) ELSE 1)
      /\ freelists' = start /\ largestFreeChunk' = calcLargestFreeChunk(freelists')
  BY Zenon DEF restart, initializeFreelist
<1>3. lost' = (0 .. allocatedSize' - 1) \ Space(freelists' \cup new \cup old)
  BY Zenon DEF restart
<1>4. (~Doomed' => Space(fl \cup new) \subseteq file) /\ (op = "delete" => fl = {})
  <2> DEFINE beyond == ~(Space(fl \cup new) \subseteq file) /\ ~Doomed'
  <2>1. /\ (IF beyond /\ ~short THEN {"grow"} ELSE {}) = {}
        /\ (IF beyond /\ short THEN {"short"} ELSE {}) = {}
        /\ (IF op = "delete" /\ fl # {} THEN {"remove"} ELSE {}) = {}
    BY Zenon DEF restart
  <2> HIDE DEF beyond
  <2>2. ~(beyond /\ ~short) /\ ~(beyond /\ short) /\ ~(op = "delete" /\ fl # {})
    BY <2>1, Zenon
  <2> QED
    BY <2>2, Zenon DEF beyond
<1>5. fl \in {{}, freelists}
  BY DEF StoreInv, SavedInv, PersistedIsCurrent
<1>6. Chunks' = new \cup old
  BY <1>1 DEF Chunks
<1>7. allocatedSize' \in Sizes /\ allocatedSize' \in Nat /\ length \in Nat /\ length <= allocatedSize'
  <2>1. length \in 0 .. pow2[MaxLog] /\ (isFileCreated <=> length > 0)
    BY DEF StoreInv, FileInv, FileFits
  <2>2. CASE isFileCreated
    BY <1>2, <2>1, <2>2, RoundUpFacts, WidthFacts
  <2>3. CASE ~isFileCreated
    BY <1>2, <2>1, <2>3, WidthFacts
  <2> QED
    BY <2>2, <2>3
<1>8. Space(old) \subseteq 0 .. length - 1
  BY DEF StoreInv, FileInv
<1>9. TypeInv'
  <2>1. start \subseteq Fitting
    BY <1>5, OneBlockFits DEF StoreInv, TypeInv
  <2>2. new \cup old \subseteq Fitting
    BY DEF StoreInv, TypeInv, Chunks
  <2>3. op' \in Ops
    BY <1>1 DEF Ops
  <2> HIDE DEF start
  <2> QED
    BY <1>1, <1>2, <1>6, <1>7, <2>1, <2>2, <2>3, Zenon DEF StoreInv, TypeInv
<1>10. ClientInv'
  BY <1>1, Zenon DEF StoreInv, ClientInv
<1>11. FileInv'
  <2>1. FileFits'
    BY <1>1, <1>2, <1>7, Zenon DEF StoreInv, FileInv, FileFits
  <2>2. op' # "commit"
    BY <1>1
  <2> QED
    BY <1>1, <1>2, <1>8, <2>1, <2>2, Zenon DEF FileInv
<1>12. BooksInv'
  <2> SUFFICES ASSUME ~Doomed'
               PROVE  BooksInv'
    BY DEF BooksInv
  <2>1. /\ ~Doomed /\ new \cap old = {}
        /\ Books(freelists, allocatedSize, Chunks, freed, Leaving, lost)
    <3>1. ~Doomed
      BY <1>1 DEF Doomed
    <3> QED
      BY <3>1 DEF StoreInv, BooksInv
  <2>2. Leaving' = IF op' = "recover" THEN new ELSE {}
    BY <1>1 DEF Leaving
  <2>3. Books(freelists', allocatedSize', new \cup old, {}, Leaving', lost')
    <3>1. CASE isFileCreated
      <4>1. freelists' = fl
        BY <1>2, <3>1
      <4>2. fl # {} => (new \cup old) \cap (freed \cup Leaving) \subseteq Leaving'
        BY <1>1, <1>4, <2>2, Zenon DEF StoreInv, ClientInv, TypeInv, Ops, Leaving
      <4>3. new \cup old \subseteq Chunks
        BY DEF Chunks
      <4>4. fl \cup new \cup old = fl \cup (new \cup old)
        OBVIOUS
      <4>5. Space(fl \cup (new \cup old)) \subseteq 0 .. allocatedSize' - 1
        <5>1. Space(old) \subseteq 0 .. allocatedSize' - 1
          BY <1>7, <1>8, LongerFile
        <5>2. Space(fl \cup new) \subseteq 0 .. allocatedSize' - 1
          BY <1>4, <3>1, Zenon
        <5>3. Space((fl \cup new) \cup old) = Space(fl \cup new) \cup Space(old)
          BY SpaceFacts, Zenon
        <5> QED
          BY <4>4, <5>1, <5>2, <5>3, Zenon
      <4>6. lost' = (0 .. allocatedSize' - 1) \ Space(fl \cup (new \cup old))
        BY <1>3, <4>1, <4>4, Zenon
      <4>7. Books(fl, allocatedSize', new \cup old, {}, Leaving', lost')
        BY <1>5, <2>1, <4>2, <4>3, <4>5, <4>6, BooksRestart
      <4> QED
        BY <4>1, <4>7, Zenon
    <3>2. CASE ~isFileCreated
      <4>1. new \cup old = {}
        <5>1. Space(new \cup old) = {}
          <6>1. length = 0
            BY <3>2, <1>7 DEF StoreInv, FileInv, FileFits
          <6>2. Space(old) = {}
            BY <1>8, <6>1
          <6>3. Space(fl \cup new) = {}
            BY <1>4, <3>2
          <6> QED
            BY <6>2, <6>3, SpaceFacts
        <5>2. \A b \in new \cup old : Units(b) # {}
          BY PieceFacts, DyadicUnits DEF StoreInv, TypeInv, Chunks, Fitting
        <5> QED
          BY <5>1, <5>2, SpaceFacts
      <4>2. freelists' = {Block(0, 1)} /\ allocatedSize' = 1 /\ Leaving' = {}
        BY <1>2, <2>2, <3>2, <4>1
      <4>3. lost' = {}
        <5>1. Space({Block(0, 1)}) = 0 .. 0
          BY OneBlockSpace
        <5>2. freelists' \cup new \cup old = {Block(0, 1)}
          BY <4>1, <4>2
        <5>3. lost' = (0 .. 1 - 1) \ (0 .. 0)
          BY <1>3, <4>2, <5>1, <5>2, Zenon
        <5> QED
          BY <5>3
      <4> QED
        BY <4>1, <4>2, <4>3, OneBlockBooks
    <3> QED
      BY <3>1, <3>2
  <2> QED
    BY <1>1, <1>6, <2>1, <2>3 DEF BooksInv
<1> QED
  BY <1>9, <1>10, <1>11, <1>12

(* What a death has caught stays so. *)
LEMMA CaughtStays ==
    ASSUME [Next]_vars, caught' = {}
    PROVE  caught = {}
<1>1. CASE restart
  BY <1>1, Zenon DEF restart
<1>2. CASE ~restart
  <2>1. caught' = caught
    BY <1>2, Zenon DEF Next, vars, allocateSpace, makeMoreSpaceFails, writeData, insertRecord,
       cleanupDiskIndexValue, readData, deleteRecord, discardBuffer, invalidateFails, FlushJob,
       persistFreelists, flushVersion, commitVersion, rollbackVersion, closeDataStore,
       eraseEntries, eraseRecord
  <2> QED
    BY <2>1
<1> QED
  BY <1>1, <1>2

LEMMA StoreStep ==
    ASSUME StoreInv, [Next]_vars, caught' = {}
    PROVE  StoreInv'
<1>1. SavedInv'
  BY SavedStep DEF StoreInv
<1> SUFFICES (TypeInv /\ ClientInv /\ FileInv /\ BooksInv)'
  BY <1>1 DEF StoreInv
<1>2. ASSUME NEW n \in Request, allocateSpace(n)
      PROVE  (TypeInv /\ ClientInv /\ FileInv /\ BooksInv)'
  BY <1>2, AllocateKeeps
<1>3. ASSUME NEW n \in Request, makeMoreSpaceFails(n)
      PROVE  (TypeInv /\ ClientInv /\ FileInv /\ BooksInv)'
  BY <1>3, GrowFailsKeeps
<1>4. ASSUME NEW b \in held \cup new, writeData(b)
      PROVE  (TypeInv /\ ClientInv /\ FileInv /\ BooksInv)'
  BY <1>4, WriteDataKeeps
<1>5. ASSUME NEW b \in held, insertRecord(b)
      PROVE  (TypeInv /\ ClientInv /\ FileInv /\ BooksInv)'
  BY <1>5, InsertKeeps
<1>6. ASSUME NEW b \in held, cleanupDiskIndexValue(b)
      PROVE  (TypeInv /\ ClientInv /\ FileInv /\ BooksInv)'
  BY <1>6, CleanupKeeps
<1>7. ASSUME NEW b \in old, readData(b)
      PROVE  (TypeInv /\ ClientInv /\ FileInv /\ BooksInv)'
  BY <1>7, ReadDataKeeps
<1>8. ASSUME NEW b \in old, deleteRecord(b)
      PROVE  (TypeInv /\ ClientInv /\ FileInv /\ BooksInv)'
  BY <1>8, DeleteRecordKeeps
<1>9. ASSUME NEW b \in new, discardBuffer(b)
      PROVE  (TypeInv /\ ClientInv /\ FileInv /\ BooksInv)'
  BY <1>9, DiscardKeeps
<1>10. CASE invalidateFails
  BY <1>10, SavingKeeps DEF invalidateFails, memory
<1>11. CASE FlushJob
  BY <1>11, SavingKeeps DEF FlushJob, flush, memory
<1>12. CASE persistFreelists
  BY <1>12, SavingKeeps DEF persistFreelists
<1>13. CASE flushVersion
  BY <1>13, FlushVersionKeeps
<1>14. CASE commitVersion
  BY <1>14, CommitVersionKeeps
<1>15. CASE rollbackVersion
  BY <1>15, RollbackKeeps
<1>16. CASE closeDataStore
  BY <1>16, CloseKeeps
<1>17. CASE eraseEntries
  BY <1>17, EraseEntriesKeeps
<1>18. CASE eraseRecord
  BY <1>18, EraseRecordKeeps
<1>19. CASE restart
  BY <1>19, RestartKeeps
<1>20. CASE UNCHANGED vars
  BY <1>20, SavingKeeps, Zenon DEF vars, memory, files
<1> QED
  BY <1>2, <1>3, <1>4, <1>5, <1>6, <1>7, <1>8, <1>9, <1>10, <1>11, <1>12, <1>13, <1>14, <1>15,
     <1>16, <1>17, <1>18, <1>19, <1>20, Zenon DEF Next

(* The books of a data store are in order in every state, for any sizes of the    *)
(* file and the chunks and any number of versions, calls, failures to enlarge the *)
(* file and crashes, whether or not the file is open when space is allocated and  *)
(* whatever the flusher comes between, until a crash leaves a store that does not *)
(* agree with its file or its index; and the free list file is current even then. *)
THEOREM StoreInvariant == Spec => [](SavedInv /\ (caught = {} => StoreInv))
<1>1. Init => SavedInv /\ StoreInv
  BY StoreInvInit DEF StoreInv
<1>2. SavedInv /\ (caught = {} => StoreInv) /\ [Next]_vars => (SavedInv /\ (caught = {} => StoreInv))'
  BY SavedStep, StoreStep, CaughtStays, Zenon
<1> QED
  BY <1>1, <1>2, PTL DEF Spec

(* No two chunks that allocateSpace has handed out overlap, through merges and     *)
(* splits of the buddy allocator, rollbacks, removals and crashes, until one of    *)
(* them is caught.                                                                 *)
THEOREM ChunksStayDisjoint == Spec => []ChunksDisjoint
<1>1. ASSUME StoreInv
      PROVE  Apart(InUse)
  <2>1. CASE Doomed
    BY <2>1 DEF InUse, Apart
  <2>2. CASE ~Doomed
    <3>1. Apart(Chunks)
      BY <1>1, <2>2, Zenon DEF StoreInv, BooksInv, Books
    <3>2. InUse \subseteq Chunks
      BY DEF InUse, Entered, Chunks
    <3> QED
      BY <3>1, <3>2 DEF Apart
  <2> QED
    BY <2>1, <2>2
<1>2. SavedInv /\ (caught = {} => StoreInv) => ChunksDisjoint
  BY <1>1 DEF ChunksDisjoint
<1> QED
  BY <1>2, StoreInvariant, PTL

(* Every unit of the file is in one place: used, free, on its way to the lists or  *)
(* lost in a crash; what is committed is in the file, and an open file that could  *)
(* be enlarged has the size that the store reckons with.                           *)
THEOREM SpaceIsConserved == Spec => []SpaceConserved
<1>1. ASSUME StoreInv
      PROVE  SpaceConserved
  <2>1. TypeOK
    <3>1. \A b \in Fitting : b \in Blocks /\ b.off % b.size = 0
      <4>1. \A b \in Fitting : b \in [off : Nat, size : Sizes] /\ b.off <= pow2[MaxLog] /\ b.off % b.size = 0
        BY DEF Fitting, Pieces, Dyadic
      <4>2. pow2[MaxLog] \in Nat
        BY WidthFacts
      <4> QED
        BY <4>1, <4>2 DEF Blocks
    <3>2. freelists \subseteq Fitting /\ Chunks \subseteq Fitting
      BY <1>1 DEF StoreInv, TypeInv
    <3>3. fl \subseteq freelists
      BY <1>1 DEF StoreInv, SavedInv, PersistedIsCurrent
    <3>4. freed \subseteq new \cup old /\ gone \subseteq old
      BY <1>1 DEF StoreInv, ClientInv
    <3>5. {freelists, fl, held, new, old, freed, gone} \subseteq SUBSET Blocks
      BY <3>1, <3>2, <3>3, <3>4 DEF Chunks
    <3>6. \A b \in freelists \cup held \cup new \cup old : b.off % b.size = 0
      BY <3>1, <3>2 DEF Chunks
    <3> QED
      BY <1>1, <3>5, <3>6 DEF TypeOK, StoreInv, TypeInv, FileInv, FileFits
  <2>2. Space(old) \subseteq 0 .. length - 1 /\ (isOpen /\ ~short => length = allocatedSize)
    BY <1>1 DEF StoreInv, FileInv, FileFits
  <2>3. CASE Doomed
    BY <2>1, <2>2, <2>3, Zenon DEF SpaceConserved
  <2>4. CASE ~Doomed
    <3> DEFINE S == (held \cup Entered) \ Leaving
    <3>1. /\ held \cap (new \cup old) = {}
          /\ Books(freelists, allocatedSize, Chunks, freed, Leaving, lost)
          /\ freelists \subseteq Pieces /\ Chunks \subseteq Pieces
      BY <1>1, <2>4 DEF StoreInv, BooksInv, TypeInv, Fitting
    <3>2. Leaving \subseteq Chunks /\ allocatedSize \in Nat
      BY <1>1, WidthFacts DEF Leaving, Chunks, StoreInv, TypeInv
    <3>3. S = (Chunks \ freed) \ Leaving
      <4>1. freed \subseteq new \cup old
        BY <1>1 DEF StoreInv, ClientInv
      <4> QED
        BY <3>1, <4>1 DEF Entered, Chunks
    <3> HIDE DEF S
    <3>4. Balance(freelists, allocatedSize, S, Leaving, lost)
      BY <3>1, <3>2, <3>3, BooksBalance
    <3> QED
      BY <2>1, <2>2, <3>4, Zenon DEF SpaceConserved, Balance, S
  <2> QED
    BY <2>3, <2>4
<1>2. SavedInv /\ (caught = {} => StoreInv) => SpaceConserved
  BY <1>1, Zenon DEF SpaceConserved
<1> QED
  BY <1>2, StoreInvariant, PTL
==================================================================================
