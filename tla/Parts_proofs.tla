---------------------------- MODULE Parts_proofs ----------------------------
(***************************************************************************)
(* Proofs about the parts of Parts, each on any size of its instance: the  *)
(* pointer that the guns share, the bytes of the wire, the overlay's scene *)
(* and buffers, the calibration's window and dwell, the display's slots    *)
(* and the preview's page, the firmware that is backed up and written, and *)
(* the border's tabs, sides and corners.                                   *)
(***************************************************************************)
EXTENDS Parts, SequenceTheorems, FiniteSetTheorems, WellFoundedInduction, TLAPS

Hiders == {a \in Aimers : hidden[a]}

(* The cursors that hide the pointer are finitely many.                    *)
LEMMA HidersAreFinite ==
  IsFiniteSet(Hiders) /\ Cardinality(Hiders) \in Nat
BY PointerAssumption, FS_Subset, FS_CardinalityType DEF Hiders

(* Hiding and showing keep the server's count right: one more for one that *)
(* did not hide the pointer, one less for one that did.                    *)
LEMMA HideCounts ==
  ASSUME PointerTypeOK, HidesAreCounted, NEW a \in Aimers, Hide(a)
  PROVE  hides' \in Nat /\ hides' = Cardinality(Hiders')
<1>1. Hiders' = Hiders \cup {a}
  BY DEF Hide, Hiders, PointerTypeOK
<1>2. hides = Cardinality(Hiders)
  BY DEF HidesAreCounted, Hiders
<1>3. CASE hidden[a]
  <2>1. Hiders' = Hiders
    BY <1>1, <1>3 DEF Hiders
  <2> QED BY <1>2, <1>3, <2>1, HidersAreFinite DEF Hide
<1>4. CASE ~hidden[a]
  <2>1. a \notin Hiders
    BY <1>4 DEF Hiders
  <2>2. Cardinality(Hiders') = Cardinality(Hiders) + 1
    BY <1>1, <2>1, HidersAreFinite, FS_AddElement
  <2>3. hides' = hides + 1
    BY <1>4 DEF Hide
  <2> QED BY <1>2, <2>2, <2>3, HidersAreFinite
<1> QED BY <1>3, <1>4

LEMMA ShowCounts ==
  ASSUME PointerTypeOK, HidesAreCounted, NEW a \in Aimers, Show(a)
  PROVE  hides' \in Nat /\ hides' = Cardinality(Hiders')
<1>1. Hiders' = Hiders \ {a}
  BY DEF Show, Hiders, PointerTypeOK
<1>2. hides = Cardinality(Hiders)
  BY DEF HidesAreCounted, Hiders
<1>3. CASE ~hidden[a]
  <2>1. Hiders' = Hiders
    BY <1>1, <1>3 DEF Hiders
  <2>2. hides' = hides
    BY <1>3 DEF Show
  <2> QED BY <1>2, <2>1, <2>2, HidersAreFinite
<1>4. CASE hidden[a]
  <2>1. a \in Hiders
    BY <1>4 DEF Hiders
  <2>2. IsFiniteSet(Hiders') /\ Cardinality(Hiders') = Cardinality(Hiders) - 1
    BY <1>1, <2>1, HidersAreFinite, FS_RemoveElement
  <2>3. Cardinality(Hiders') \in Nat
    BY <2>2, FS_CardinalityType
  <2>4. hides' = hides - 1
    BY <1>4 DEF Show
  <2> QED BY <1>2, <2>2, <2>3, <2>4
<1> QED BY <1>3, <1>4

LEMMA PointerInitHolds == PointerInit => PointerInv
<1> SUFFICES ASSUME PointerInit PROVE PointerInv
  OBVIOUS
<1>1. {a \in Aimers : hidden[a]} = {}
  BY DEF PointerInit
<1>2. HidesAreCounted
  BY <1>1, FS_EmptySet DEF PointerInit, HidesAreCounted
<1>3. PointerTypeOK
  BY DEF PointerInit, PointerTypeOK
<1>4. PressedIsHeld
  BY DEF PointerInit, PressedIsHeld
<1> QED BY <1>2, <1>3, <1>4 DEF PointerInv

(* Steps that leave the flags and the count alone.                         *)
LEMMA CountStays ==
  ASSUME HidesAreCounted, UNCHANGED <<hidden, hides>>,
         \A c \in Aimers : cursor'[c] = "none" => cursor[c] = "none" \/ ~hidden[c]
  PROVE  HidesAreCounted'
BY DEF HidesAreCounted

LEMMA PointerStep == PointerInv /\ [PointerNext]_pointerVars => PointerInv'
<1> SUFFICES ASSUME PointerInv, [PointerNext]_pointerVars PROVE PointerInv'
  OBVIOUS
<1> USE DEF PointerInv
<1>1. CASE UNCHANGED pointerVars
  BY <1>1 DEF pointerVars, PointerTypeOK, HidesAreCounted, PressedIsHeld
<1>2. ASSUME NEW a \in Aimers, NewCursor(a) \/ MoveFails(a) PROVE PointerInv'
  <2>1. PointerTypeOK'
    BY <1>2 DEF PointerTypeOK, NewCursor, MoveFails
  <2>2. HidesAreCounted'
    BY <1>2, CountStays DEF PointerTypeOK, NewCursor, MoveFails
  <2>3. PressedIsHeld'
    BY <1>2 DEF PressedIsHeld, NewCursor, MoveFails
  <2> QED BY <2>1, <2>2, <2>3
<1>3. ASSUME NEW a \in Aimers, MoveTo(a) PROVE PointerInv'
  <2>1. hides' \in Nat /\ hides' = Cardinality(Hiders')
    BY <1>3, HideCounts DEF MoveTo
  <2>2. PointerTypeOK'
    BY <1>3, <2>1 DEF PointerTypeOK, MoveTo, Hide
  <2>3. \A c \in Aimers : cursor'[c] = "none" => ~hidden'[c]
    BY <1>3 DEF PointerTypeOK, HidesAreCounted, MoveTo, Hide
  <2>4. PressedIsHeld'
    BY <1>3 DEF PressedIsHeld, MoveTo
  <2> QED BY <2>1, <2>2, <2>3, <2>4 DEF HidesAreCounted, Hiders
<1>4. ASSUME NEW a \in Aimers, ReleasePointer(a) PROVE PointerInv'
  <2>1. hides' \in Nat /\ hides' = Cardinality(Hiders')
    BY <1>4, ShowCounts DEF ReleasePointer
  <2>2. PointerTypeOK'
    BY <1>4, <2>1 DEF PointerTypeOK, ReleasePointer, Show
  <2>3. \A c \in Aimers : cursor'[c] = "none" => ~hidden'[c]
    BY <1>4 DEF PointerTypeOK, HidesAreCounted, ReleasePointer, Show
  <2>4. PressedIsHeld'
    BY <1>4 DEF PressedIsHeld, ReleasePointer
  <2> QED BY <2>1, <2>2, <2>3, <2>4 DEF HidesAreCounted, Hiders
<1>5. ASSUME NEW a \in Aimers, DropCursor(a) PROVE PointerInv'
  <2>1. PICK lost \in SUBSET down[a] :
           /\ pressed' = pressed \ (down[a] \ lost)
           /\ lostUps' = (lostUps \ down[a]) \cup lost
    BY <1>5 DEF DropCursor
  <2>2. hides' \in Nat /\ hides' = Cardinality(Hiders')
    BY <1>5, ShowCounts DEF DropCursor
  <2>3. PointerTypeOK'
    BY <1>5, <2>1, <2>2 DEF PointerTypeOK, DropCursor, Show
  <2>4. \A c \in Aimers : cursor'[c] = "none" => ~hidden'[c]
    BY <1>5 DEF PointerTypeOK, HidesAreCounted, DropCursor, Show
  <2>5. PressedIsHeld'
    <3>1. \A c \in Aimers \ {a} : down'[c] = down[c]
      BY <1>5 DEF DropCursor, PointerTypeOK
    <3> QED BY <2>1, <3>1 DEF PressedIsHeld
  <2> QED BY <2>2, <2>3, <2>4, <2>5 DEF HidesAreCounted, Hiders
<1>6. ASSUME NEW a \in Aimers, NEW b \in MouseButtons,
             PressButton(a, b) \/ ReleaseButton(a, b) \/ ButtonFails(a, b)
      PROVE  PointerInv'
  <2>1. PointerTypeOK'
    BY <1>6 DEF PointerTypeOK, PressButton, ReleaseButton, ButtonFails
  <2>2. HidesAreCounted'
    BY <1>6, CountStays DEF PointerTypeOK, PressButton, ReleaseButton, ButtonFails
  <2>3. \A c \in Aimers, x \in MouseButtons \ {b} : x \in down'[c] <=> x \in down[c]
    BY <1>6 DEF PointerTypeOK, PressButton, ReleaseButton, ButtonFails
  <2>4. \A x \in pressed' : x # b => x \in lostUps' \/ \E c \in Aimers : x \in down'[c]
    BY <1>6, <2>3 DEF PressedIsHeld, PointerTypeOK, PressButton, ReleaseButton, ButtonFails
  <2>5. b \in pressed' => b \in lostUps' \/ \E c \in Aimers : b \in down'[c]
    <3>1. CASE PressButton(a, b)
      BY <3>1 DEF PressButton, PointerTypeOK
    <3>2. CASE ReleaseButton(a, b)
      BY <3>2 DEF ReleaseButton
    <3>3. CASE ButtonFails(a, b)
      BY <3>3 DEF ButtonFails, PointerTypeOK
    <3> QED BY <1>6, <3>1, <3>2, <3>3
  <2> QED BY <2>1, <2>2, <2>4, <2>5 DEF PressedIsHeld
<1> QED BY <1>1, <1>2, <1>3, <1>4, <1>5, <1>6 DEF PointerNext

(* However many guns share the pointer, in whatever order they move, press *)
(* fail and end: the pointer is hidden exactly as often as there are       *)
(* cursors that hide it, none of them one that ended, and a button that is *)
(* down is held, or its release could not be posted (cursor.rs, Drop).     *)
THEOREM PointerIsShared == PointerSpec => []PointerInv
<1> QED BY PointerInitHolds, PointerStep, PTL DEF PointerSpec

-----------------------------------------------------------------------------
(* A set of numbers has a least.                                            *)
LEMMA NatMin ==
  ASSUME NEW T, T \subseteq Nat, T # {}
  PROVE  \E x \in T : \A y \in T : x <= y
<1>1. IsWellFoundedOn(OpToRel(<, Nat), Nat)
  BY NatLessThanWellFounded
<1>2. PICK x \in T : \A y \in T : <<y, x>> \notin OpToRel(<, Nat)
  BY <1>1, WFMin
<1>3. \A y \in T : ~(y < x)
  <2>1. SUFFICES ASSUME NEW y \in T, y < x PROVE FALSE
    OBVIOUS
  <2>2. <<y, x>> \in OpToRel(<, Nat)
    BY <2>1 DEF OpToRel
  <2> QED BY <1>2, <2>2
<1> QED BY <1>3

(* An event is one byte, or a report with its three.                       *)
Size(b)     == IF Reports(b) THEN 4 ELSE 1
Event(s, p) == [x \in 1..Size(s[p]) |-> s[p + x - 1]]

(* The bytes from the place from to before the place to are cut into the   *)
(* events es at the places cut: each event where it begins, none over the  *)
(* next, and no byte in none of them.                                      *)
Cuts(s, es, cut, from, to) ==
  /\ es \in Seq(Seq(Bytes)) /\ cut \in [1..Len(es) + 1 -> Nat]
  /\ cut[1] = from /\ cut[Len(es) + 1] = to
  /\ \A k \in 1..Len(es) : es[k] = Event(s, cut[k])
  /\ \A k \in 1..Len(es), l \in 1..Len(es) + 1 : k < l => cut[k] + Size(s[cut[k]]) <= cut[l]
  /\ \A i \in from..to - 1 : \E k \in 1..Len(es) :
         cut[k] <= i /\ i < cut[k] + Size(s[cut[k]])

LEMMA CutsAreInside ==
  ASSUME NEW s, NEW es, NEW cut, NEW from, NEW to, Cuts(s, es, cut, from, to)
  PROVE  /\ from \in Nat /\ to \in Nat /\ from <= to /\ Len(es) \in Nat
         /\ \A k \in 1..Len(es) + 1 : cut[k] \in Nat /\ from <= cut[k] /\ cut[k] <= to
         /\ \A k \in 1..Len(es) : cut[k] + Size(s[cut[k]]) <= to
<1>1. /\ Len(es) \in Nat /\ cut \in [1..Len(es) + 1 -> Nat]
      /\ cut[1] = from /\ cut[Len(es) + 1] = to
      /\ \A k \in 1..Len(es), l \in 1..Len(es) + 1 : k < l => cut[k] + Size(s[cut[k]]) <= cut[l]
  BY DEF Cuts
<1>2. \A b : Size(b) \in {1, 4}
  BY DEF Size
<1>3. 1 \in 1..Len(es) + 1 /\ Len(es) + 1 \in 1..Len(es) + 1
  BY <1>1
<1>4. ASSUME NEW k \in 1..Len(es) + 1 PROVE from <= cut[k]
  <2>1. CASE k = 1
    BY <1>1, <1>3, <2>1
  <2>2. CASE k # 1
    <3>1. 1 \in 1..Len(es) /\ 1 < k
      BY <1>1, <2>2
    <3>2. cut[1] + Size(s[cut[1]]) <= cut[k]
      BY <1>1, <3>1
    <3>3. cut[1] \in Nat /\ cut[k] \in Nat
      BY <1>1, <1>3
    <3>4. Size(s[cut[1]]) \in {1, 4}
      BY <1>2
    <3> QED
      BY <1>1, <3>2, <3>3, <3>4
  <2> QED
    BY <2>1, <2>2
<1>5. ASSUME NEW k \in 1..Len(es) PROVE cut[k] + Size(s[cut[k]]) <= to /\ cut[k] <= to
  <2>1. k < Len(es) + 1
    BY <1>1
  <2>2. cut[k] + Size(s[cut[k]]) <= cut[Len(es) + 1]
    BY <1>1, <1>3, <2>1
  <2>3. cut[k] \in Nat /\ to \in Nat /\ Size(s[cut[k]]) \in {1, 4}
    BY <1>1, <1>2, <1>3
  <2> QED
    BY <1>1, <2>2, <2>3
<1>6. \A k \in 1..Len(es) + 1 : k \in 1..Len(es) \/ k = Len(es) + 1
  BY <1>1
<1>7. from \in Nat /\ to \in Nat /\ \A k \in 1..Len(es) + 1 : cut[k] \in Nat
  BY <1>1, <1>3
<1>8. \A k \in 1..Len(es) + 1 : cut[k] <= to
  BY <1>1, <1>5, <1>6, <1>7
<1> QED
  BY <1>1, <1>3, <1>4, <1>5, <1>7, <1>8

(* The same bytes elsewhere are cut the same way.                          *)
LEMMA CutsMove ==
  ASSUME NEW s, NEW t, NEW es, NEW cut, NEW from, NEW to, NEW d \in Nat,
         Cuts(s, es, cut, from, to), \A i \in from..to - 1 : s[i] = t[i + d]
  PROVE  Cuts(t, es, [k \in 1..Len(es) + 1 |-> cut[k] + d], from + d, to + d)
<1> DEFINE new == [k \in 1..Len(es) + 1 |-> cut[k] + d]
<1>1. /\ from \in Nat /\ to \in Nat /\ from <= to /\ Len(es) \in Nat
      /\ \A k \in 1..Len(es) + 1 : cut[k] \in Nat /\ from <= cut[k] /\ cut[k] <= to
      /\ \A k \in 1..Len(es) : cut[k] + Size(s[cut[k]]) <= to
  BY CutsAreInside
<1>2. /\ es \in Seq(Seq(Bytes)) /\ cut[1] = from /\ cut[Len(es) + 1] = to
      /\ \A k \in 1..Len(es) : es[k] = Event(s, cut[k])
      /\ \A k \in 1..Len(es), l \in 1..Len(es) + 1 : k < l => cut[k] + Size(s[cut[k]]) <= cut[l]
      /\ \A i \in from..to - 1 : \E k \in 1..Len(es) :
             cut[k] <= i /\ i < cut[k] + Size(s[cut[k]])
  BY DEF Cuts
<1>3. /\ new \in [1..Len(es) + 1 -> Nat] /\ new[1] = from + d /\ new[Len(es) + 1] = to + d
      /\ \A k \in 1..Len(es) + 1 : new[k] = cut[k] + d
  BY <1>1, <1>2
<1> HIDE DEF new
<1>4. \A b : Size(b) \in {1, 4}
  BY DEF Size
<1>5. \A k \in 1..Len(es) : s[cut[k]] = t[new[k]]
  <2>1. SUFFICES ASSUME NEW k \in 1..Len(es) PROVE s[cut[k]] = t[new[k]]
    OBVIOUS
  <2>2. cut[k] \in Nat /\ from <= cut[k] /\ cut[k] + Size(s[cut[k]]) <= to /\ Size(s[cut[k]]) \in {1, 4}
    BY <1>1, <1>4
  <2>3. cut[k] \in from..to - 1
    BY <1>1, <2>2
  <2> QED
    BY <1>1, <1>3, <2>3
<1>6. \A k \in 1..Len(es) : es[k] = Event(t, new[k])
  <2>1. SUFFICES ASSUME NEW k \in 1..Len(es) PROVE Event(s, cut[k]) = Event(t, new[k])
    BY <1>2
  <2>2. Size(s[cut[k]]) = Size(t[new[k]])
    BY <1>5
  <2>3. \A x \in 1..Size(s[cut[k]]) : s[cut[k] + x - 1] = t[new[k] + x - 1]
    <3>1. SUFFICES ASSUME NEW x \in 1..Size(s[cut[k]])
                   PROVE  s[cut[k] + x - 1] = t[new[k] + x - 1]
      OBVIOUS
    <3>2. Size(s[cut[k]]) \in {1, 4} /\ cut[k] \in Nat /\ from <= cut[k]
          /\ cut[k] + Size(s[cut[k]]) <= to /\ new[k] = cut[k] + d
      BY <1>1, <1>3, <1>4
    <3>3. x \in Int /\ 1 <= x /\ x <= Size(s[cut[k]])
      BY <3>2
    <3>4. cut[k] + x - 1 \in from..to - 1
      <4> DEFINE c == cut[k]
                 z == Size(s[cut[k]])
      <4>1. /\ c \in Int /\ z \in Int /\ from \in Int /\ to \in Int /\ from <= c /\ c + z <= to
            /\ x \in Int /\ 1 <= x /\ x <= z
        BY <1>1, <3>2, <3>3
      <4> HIDE DEF c, z
      <4>2. c + x - 1 \in from..to - 1
        BY ONLY <4>1
      <4> QED
        BY <4>2 DEF c
    <3>5. cut[k] + x - 1 + d = new[k] + x - 1
      BY <3>2, <3>3
    <3> QED
      BY <3>4, <3>5
  <2> QED
    BY <2>2, <2>3 DEF Event
<1>7. \A k \in 1..Len(es), l \in 1..Len(es) + 1 : k < l => new[k] + Size(t[new[k]]) <= new[l]
  <2>1. SUFFICES ASSUME NEW k \in 1..Len(es), NEW l \in 1..Len(es) + 1, k < l
                 PROVE  new[k] + Size(t[new[k]]) <= new[l]
    OBVIOUS
  <2>2. cut[k] + Size(s[cut[k]]) <= cut[l] /\ Size(s[cut[k]]) = Size(t[new[k]])
    BY <1>2, <1>5, <2>1
  <2>3. cut[k] \in Nat /\ cut[l] \in Nat /\ Size(s[cut[k]]) \in {1, 4}
        /\ new[k] = cut[k] + d /\ new[l] = cut[l] + d
    BY <1>1, <1>3, <1>4
  <2> QED
    BY <2>2, <2>3
<1>8. \A i \in from + d..to + d - 1 : \E k \in 1..Len(es) :
             new[k] <= i /\ i < new[k] + Size(t[new[k]])
  <2>1. SUFFICES ASSUME NEW i \in from + d..to + d - 1
                 PROVE  \E k \in 1..Len(es) : new[k] <= i /\ i < new[k] + Size(t[new[k]])
    OBVIOUS
  <2>2. i - d \in from..to - 1
    BY <1>1
  <2>3. PICK k \in 1..Len(es) : cut[k] <= i - d /\ i - d < cut[k] + Size(s[cut[k]])
    BY <1>2, <2>2
  <2>4. Size(s[cut[k]]) = Size(t[new[k]]) /\ Size(s[cut[k]]) \in {1, 4}
        /\ cut[k] \in Nat /\ new[k] = cut[k] + d
    BY <1>1, <1>3, <1>4, <1>5
  <2>5. new[k] <= i /\ i < new[k] + Size(t[new[k]])
    BY <1>1, <2>3, <2>4
  <2> QED
    BY <2>5
<1>9. Cuts(t, es, new, from + d, to + d)
  BY <1>2, <1>3, <1>6, <1>7, <1>8 DEF Cuts
<1> QED
  BY <1>9 DEF new

(* Two cuts that meet are one.                                             *)
LEMMA CutsJoin ==
  ASSUME NEW s, NEW es, NEW cut, NEW a, NEW b, Cuts(s, es, cut, a, b),
         NEW fs, NEW more, NEW c, Cuts(s, fs, more, b, c)
  PROVE  \E all : Cuts(s, es \o fs, all, a, c)
<1> DEFINE m == Len(es)
           n == Len(fs)
           gs == es \o fs
           all == [k \in 1..m + n + 1 |-> IF k <= m THEN cut[k] ELSE more[k - m]]
<1>1. /\ a \in Nat /\ b \in Nat /\ a <= b /\ m \in Nat
      /\ \A k \in 1..m + 1 : cut[k] \in Nat /\ a <= cut[k] /\ cut[k] <= b
      /\ \A k \in 1..m : cut[k] + Size(s[cut[k]]) <= b
  BY CutsAreInside
<1>2. /\ c \in Nat /\ b <= c /\ n \in Nat
      /\ \A k \in 1..n + 1 : more[k] \in Nat /\ b <= more[k] /\ more[k] <= c
      /\ \A k \in 1..n : more[k] + Size(s[more[k]]) <= c
  BY CutsAreInside
<1>3. /\ es \in Seq(Seq(Bytes)) /\ cut[1] = a /\ cut[m + 1] = b
      /\ \A k \in 1..m : es[k] = Event(s, cut[k])
      /\ \A k \in 1..m, l \in 1..m + 1 : k < l => cut[k] + Size(s[cut[k]]) <= cut[l]
      /\ \A i \in a..b - 1 : \E k \in 1..m : cut[k] <= i /\ i < cut[k] + Size(s[cut[k]])
  BY DEF Cuts
<1>4. /\ fs \in Seq(Seq(Bytes)) /\ more[1] = b /\ more[n + 1] = c
      /\ \A k \in 1..n : fs[k] = Event(s, more[k])
      /\ \A k \in 1..n, l \in 1..n + 1 : k < l => more[k] + Size(s[more[k]]) <= more[l]
      /\ \A i \in b..c - 1 : \E k \in 1..n : more[k] <= i /\ i < more[k] + Size(s[more[k]])
  BY DEF Cuts
<1>5. /\ gs \in Seq(Seq(Bytes)) /\ Len(gs) = m + n
      /\ \A k \in 1..m : gs[k] = es[k]
      /\ \A k \in 1..m + n : k \notin 1..m => gs[k] = fs[k - m]
  BY <1>3, <1>4
<1>6. /\ \A k \in 1..m : k \in 1..m + n + 1 /\ k <= m
      /\ \A k \in 1..m + n + 1 : k \notin 1..m => k - m \in 1..n + 1 /\ ~(k <= m)
      /\ \A k \in 1..m + n : k \notin 1..m => k - m \in 1..n
      /\ \A k \in 1..n + 1 : k + m \in 1..m + n + 1 /\ ~(k + m <= m) /\ k + m - m = k
  BY <1>1, <1>2
<1>7. /\ \A k \in 1..m : all[k] = cut[k]
      /\ \A k \in 1..m + n + 1 : k \notin 1..m => all[k] = more[k - m]
      /\ \A k \in 1..n + 1 : all[k + m] = more[k]
  BY <1>6
<1>8. all \in [1..m + n + 1 -> Nat]
  BY <1>1, <1>2, <1>6
<1> HIDE DEF all, gs, m, n
<1>9. all[1] = a /\ all[m + n + 1] = c
  <2>1. CASE m = 0
    <3>1. a = b /\ 1 \in 1..m + n + 1 /\ 1 \notin 1..m
      BY <1>1, <1>2, <1>3, <2>1
    <3>2. all[1] = more[1]
      BY <1>7, <2>1, <3>1
    <3> QED
      BY <1>2, <1>4, <1>7, <2>1, <3>1, <3>2
  <2>2. CASE m # 0
    <3>1. 1 \in 1..m /\ n + 1 \in 1..n + 1
      BY <1>1, <1>2, <2>2
    <3>2. all[n + 1 + m] = more[n + 1] /\ n + 1 + m = m + n + 1
      BY <1>1, <1>2, <1>7, <3>1
    <3> QED
      BY <1>3, <1>4, <1>7, <3>1, <3>2
  <2> QED
    BY <2>1, <2>2
<1>10. \A k \in 1..m + n : gs[k] = Event(s, all[k])
  <2>1. SUFFICES ASSUME NEW k \in 1..m + n PROVE gs[k] = Event(s, all[k])
    OBVIOUS
  <2>2. CASE k \in 1..m
    BY <1>3, <1>5, <1>7, <2>2
  <2>3. CASE k \notin 1..m
    <3>1. k \in 1..m + n + 1 /\ k - m \in 1..n
      BY <1>1, <1>2, <1>6, <2>3
    <3> QED
      BY <1>4, <1>5, <1>7, <2>3, <3>1
  <2> QED
    BY <2>2, <2>3
<1>11. \A k \in 1..m + n, l \in 1..m + n + 1 : k < l => all[k] + Size(s[all[k]]) <= all[l]
  <2>1. SUFFICES ASSUME NEW k \in 1..m + n, NEW l \in 1..m + n + 1, k < l
                 PROVE  all[k] + Size(s[all[k]]) <= all[l]
    OBVIOUS
  <2>2. CASE k \in 1..m /\ l \in 1..m
    <3>1. l \in 1..m + 1
      BY <1>1, <2>2
    <3> QED
      BY <1>3, <1>7, <2>1, <2>2, <3>1
  <2>3. CASE k \in 1..m /\ l \notin 1..m
    <3>1. l - m \in 1..n + 1 /\ all[l] = more[l - m] /\ all[k] = cut[k]
      BY <1>6, <1>7, <2>3
    <3>2. cut[k] + Size(s[cut[k]]) <= b /\ b <= more[l - m]
      BY <1>1, <1>2, <2>3, <3>1
    <3>3. cut[k] \in Nat /\ more[l - m] \in Nat /\ Size(s[cut[k]]) \in {1, 4}
      BY <1>1, <1>2, <2>3, <3>1 DEF Size
    <3> QED
      BY <1>1, <3>1, <3>2, <3>3
  <2>4. CASE k \notin 1..m
    <3>1. k \in 1..m + n + 1 /\ l \notin 1..m /\ k - m \in 1..n /\ l - m \in 1..n + 1 /\ k - m < l - m
      BY <1>1, <1>2, <2>1, <2>4
    <3> QED
      BY <1>4, <1>7, <2>4, <3>1
  <2> QED
    BY <2>2, <2>3, <2>4
<1>12. \A i \in a..c - 1 : \E k \in 1..m + n : all[k] <= i /\ i < all[k] + Size(s[all[k]])
  <2>1. SUFFICES ASSUME NEW i \in a..c - 1
                 PROVE  \E k \in 1..m + n : all[k] <= i /\ i < all[k] + Size(s[all[k]])
    OBVIOUS
  <2>2. CASE i \in a..b - 1
    <3>1. PICK k \in 1..m : cut[k] <= i /\ i < cut[k] + Size(s[cut[k]])
      BY <1>3, <2>2
    <3>2. k \in 1..m + n
      BY <1>1, <1>2
    <3> QED
      BY <1>7, <3>1, <3>2
  <2>3. CASE i \in b..c - 1
    <3>1. PICK k \in 1..n : more[k] <= i /\ i < more[k] + Size(s[more[k]])
      BY <1>4, <2>3
    <3>2. k + m \in 1..m + n /\ k \in 1..n + 1
      BY <1>1, <1>2
    <3> QED
      BY <1>7, <3>1, <3>2
  <2> QED
    BY <1>1, <1>2, <2>2, <2>3
<1> QED
  BY <1>5, <1>8, <1>9, <1>10, <1>11, <1>12 DEF Cuts, gs, m, n

(* No event begins at a place where the bytes run out.                     *)
Waits(s, pos) == pos = Len(s) + 1 \/ (pos \in 1..Len(s) /\ Reports(s[pos]) /\ Len(s) - pos + 1 < 4)

LEMMA HeadIs ==
  ASSUME NEW s \in Seq(Bytes), NEW i \in 1..Len(s)
  PROVE  LET e == HeadEvent(SubSeq(s, i, Len(s)))
         IN  \/ e = <<>> /\ Waits(s, i)
             \/ /\ e # <<>> /\ e = Event(s, i) /\ e \in Seq(Bytes)
                /\ Len(e) = Size(s[i]) /\ i + Size(s[i]) <= Len(s) + 1
<1> DEFINE r == SubSeq(s, i, Len(s))
           n == Len(s) - i + 1
<1>1. /\ r \in Seq(Bytes) /\ Len(r) = n /\ n \in Nat /\ n >= 1 /\ Len(s) \in Nat
      /\ \A x \in 1..n : r[x] = s[i + x - 1]
  OBVIOUS
<1>2. r[1] = s[i] /\ s[i] \in Bytes
  <2>1. i + 1 - 1 = i /\ 1 \in 1..n
    BY <1>1
  <2> QED
    BY <1>1, <2>1
<1> HIDE DEF r, n
<1>3. CASE ~Reports(s[i])
  <2>1. HeadEvent(r) = <<s[i]>>
    BY <1>2, <1>3 DEF HeadEvent
  <2>2. Size(s[i]) = 1
    BY <1>3 DEF Size
  <2>3. Event(s, i) = [x \in 1..1 |-> s[i]]
    <3>1. \A x \in 1..1 : i + x - 1 = i
      OBVIOUS
    <3> QED
      BY <2>2, <3>1 DEF Event
  <2>4. <<s[i]>> = [x \in 1..1 |-> s[i]]
    OBVIOUS
  <2>5. <<s[i]>> \in Seq(Bytes) /\ Len(<<s[i]>>) = 1 /\ <<s[i]>> # <<>>
    BY <1>2
  <2>6. i + 1 <= Len(s) + 1
    BY <1>1
  <2> QED
    BY <2>1, <2>2, <2>3, <2>4, <2>5, <2>6 DEF r
<1>4. CASE Reports(s[i]) /\ n < 4
  <2>1. HeadEvent(r) = <<>>
    BY <1>1, <1>2, <1>4 DEF HeadEvent
  <2> QED
    BY <1>4, <2>1 DEF Waits, r, n
<1>5. CASE Reports(s[i]) /\ ~(n < 4)
  <2>1. HeadEvent(r) = SubSeq(r, 1, 4)
    BY <1>1, <1>2, <1>5 DEF HeadEvent
  <2>2. Size(s[i]) = 4
    BY <1>5 DEF Size
  <2>3. 4 \in 1..n /\ \A x \in 1..4 : x \in 1..n /\ i + x - 1 = i + x - 1
    BY <1>1, <1>5
  <2>4. /\ SubSeq(r, 1, 4) \in Seq(Bytes) /\ Len(SubSeq(r, 1, 4)) = 4
        /\ SubSeq(r, 1, 4) = [x \in 1..4 |-> r[x]]
    BY <1>1, <2>3
  <2>5. Event(s, i) = [x \in 1..4 |-> r[x]]
    BY <1>1, <2>2, <2>3 DEF Event
  <2>6. SubSeq(r, 1, 4) # <<>>
    <3>1. SUFFICES ASSUME SubSeq(r, 1, 4) = <<>> PROVE Len(<<>>) = 4
      OBVIOUS
    <3> QED
      BY <2>4, <3>1
  <2>7. i + 4 <= Len(s) + 1
    BY <1>1, <1>5 DEF n
  <2> QED
    BY <2>1, <2>2, <2>4, <2>5, <2>6, <2>7 DEF r
<1> QED
  BY <1>3, <1>4, <1>5

(* The first event alone.                                                  *)
LEMMA CutsOne ==
  ASSUME NEW s \in Seq(Bytes), NEW i \in 1..Len(s), Event(s, i) \in Seq(Bytes)
  PROVE  Cuts(s, <<Event(s, i)>>, [k \in 1..2 |-> IF k = 1 THEN i ELSE i + Size(s[i])],
              i, i + Size(s[i]))
<1> DEFINE es == <<Event(s, i)>>
           cut == [k \in 1..2 |-> IF k = 1 THEN i ELSE i + Size(s[i])]
           z == Size(s[i])
<1>1. z \in {1, 4} /\ i \in Nat
  BY DEF Size
<1>2. es \in Seq(Seq(Bytes)) /\ Len(es) = 1 /\ es[1] = Event(s, i)
  OBVIOUS
<1> HIDE DEF z
<1>3. cut \in [1..2 -> Nat] /\ cut[1] = i /\ cut[2] = i + z
  BY <1>1 DEF z
<1> HIDE DEF es, cut
<1>4. \A k \in 1..1 : k = 1 /\ \A l \in 1..2 : 1 < l => l = 2
  OBVIOUS
<1>5. \A k \in 1..1, l \in 1..2 : k < l => cut[k] + Size(s[cut[k]]) <= cut[l]
  BY <1>1, <1>3, <1>4 DEF z
<1>6. \A j \in i..i + z - 1 : cut[1] <= j /\ j < cut[1] + Size(s[cut[1]])
  BY <1>1, <1>3 DEF z
<1>7. Cuts(s, es, cut, i, i + z)
  BY <1>1, <1>2, <1>3, <1>4, <1>5, <1>6 DEF Cuts
<1> QED
  BY <1>7 DEF es, cut, z

(* What feed makes of the bytes from place i on.                           *)
After(s, i) == SubSeq(s, i, Len(s))
Ends(s, i)  == i > Len(s) \/ HeadEvent(After(s, i)) = <<>>

Parsed(s, f, i) ==
  IF Ends(s, i) THEN [out |-> <<>>, rest |-> After(s, i)]
  ELSE LET e == HeadEvent(After(s, i))
           after == f[i + Len(e)]
       IN  [after EXCEPT !.out = <<e>> \o @]

Parses(s, f) == f = [i \in 1 .. Len(s) + 1 |-> Parsed(s, f, i)]

LEMMA FedIsParsed == ASSUME NEW s PROVE Fed(s) = (CHOOSE f : Parses(s, f))[1]
<1> DEFINE parse[i \in 1 .. Len(s) + 1] ==
            IF i > Len(s) \/ HeadEvent(SubSeq(s, i, Len(s))) = <<>>
            THEN [out |-> <<>>, rest |-> SubSeq(s, i, Len(s))]
            ELSE LET e == HeadEvent(SubSeq(s, i, Len(s)))
                     after == parse[i + Len(e)]
                 IN  [after EXCEPT !.out = <<e>> \o @]
<1>1. parse = CHOOSE f : Parses(s, f)
  BY Zenon DEF Parses, Parsed, Ends, After
<1>2. Fed(s) = parse[1]
  BY Zenon DEF Fed
<1> HIDE DEF parse
<1> QED
  BY <1>1, <1>2

LEMMA EventsGoOn ==
  ASSUME NEW s \in Seq(Bytes), NEW i \in 1 .. Len(s) + 1, ~Ends(s, i)
  PROVE  LET e == HeadEvent(After(s, i))
         IN  /\ i \in 1..Len(s) /\ e = Event(s, i) /\ e \in Seq(Bytes)
             /\ Len(e) = Size(s[i]) /\ Len(e) \in Nat \ {0}
             /\ i + Len(e) \in 1 .. Len(s) + 1
<1>1. i \in 1..Len(s) /\ HeadEvent(After(s, i)) # <<>>
  BY DEF Ends
<1>2. /\ HeadEvent(After(s, i)) = Event(s, i) /\ HeadEvent(After(s, i)) \in Seq(Bytes)
      /\ Len(HeadEvent(After(s, i))) = Size(s[i]) /\ i + Size(s[i]) <= Len(s) + 1
  BY <1>1, HeadIs DEF After
<1>3. Size(s[i]) \in {1, 4}
  BY DEF Size
<1> QED
  BY <1>1, <1>2, <1>3

(* The recursion of feed goes up to the end of the bytes, and ends there.  *)
LEMMA ParseExists == ASSUME NEW s \in Seq(Bytes) PROVE \E f : Parses(s, f)
<1> DEFINE n == Len(s)
           UpTo(f, d) == f = [i \in n + 1 - d .. n + 1 |-> Parsed(s, f, i)]
           Bad == {d \in 0..n : ~ \E f : UpTo(f, d)}
<1>1. n \in Nat /\ Bad \subseteq Nat
  OBVIOUS
<1>2. CASE Bad = {}
  <2>1. PICK f : UpTo(f, n)
    BY <1>1, <1>2
  <2>2. n + 1 - n = 1
    BY <1>1
  <2> QED
    BY <2>1, <2>2 DEF Parses
<1>3. CASE Bad # {}
  <2>1. \E d \in Bad : \A e \in Bad : d <= e
    <3> HIDE DEF Bad
    <3> QED
      BY <1>1, <1>3, NatMin
  <2>2. PICK d \in Bad : \A e \in Bad : d <= e
    BY <2>1
  <2>3. d \in 0..n /\ ~ \E f : UpTo(f, d)
    OBVIOUS
  <2>4. d # 0
    <3> DEFINE f == [i \in n + 1 - 0 .. n + 1 |-> [out |-> <<>>, rest |-> After(s, i)]]
    <3>1. \A i \in n + 1 - 0 .. n + 1 : i > n
      BY <1>1
    <3>2. UpTo(f, 0)
      BY <3>1 DEF Parsed, Ends
    <3> QED
      BY <2>3, <3>2
  <2>5. d - 1 \in 0..n /\ d - 1 \notin Bad
    <3>1. d - 1 \in 0..n /\ ~(d <= d - 1)
      BY <1>1, <2>3, <2>4
    <3> HIDE DEF Bad
    <3> QED
      BY <2>2, <3>1
  <2>6. PICK g : UpTo(g, d - 1)
    BY <2>5
  <2> DEFINE m == n + 1 - d
             f == [i \in m .. n + 1 |-> IF i = m THEN Parsed(s, g, m) ELSE g[i]]
  <2>7. m \in 1..n /\ n + 1 - (d - 1) = m + 1
    BY <1>1, <2>3, <2>4
  <2>8. g = [i \in m + 1 .. n + 1 |-> Parsed(s, g, i)]
    BY <2>6, <2>7
  <2> HIDE DEF UpTo, Bad, m
  <2>9. \A i \in m .. n + 1 : i = m \/ i \in m + 1 .. n + 1
    BY <1>1, <2>7
  <2>10. \A i \in m + 1 .. n + 1 : f[i] = g[i]
    BY <1>1, <2>7
  <2>11. \A i \in m .. n + 1 : f[i] = Parsed(s, g, i)
    BY <2>8, <2>9
  <2>12. \A i \in m .. n + 1 : Parsed(s, f, i) = Parsed(s, g, i)
    <3>1. SUFFICES ASSUME NEW i \in m .. n + 1 PROVE Parsed(s, f, i) = Parsed(s, g, i)
      OBVIOUS
    <3> HIDE DEF f
    <3>2. CASE Ends(s, i)
      BY <3>2 DEF Parsed
    <3>3. CASE ~Ends(s, i)
      <4>1. i \in 1 .. n + 1
        BY <1>1, <2>7
      <4>2. i + Len(HeadEvent(After(s, i))) \in m + 1 .. n + 1
        <5>1. /\ Len(HeadEvent(After(s, i))) \in Nat \ {0}
              /\ i + Len(HeadEvent(After(s, i))) \in 1 .. n + 1
          BY <3>3, <4>1, EventsGoOn
        <5> QED
          BY <1>1, <2>7, <5>1
      <4>3. f[i + Len(HeadEvent(After(s, i)))] = g[i + Len(HeadEvent(After(s, i)))]
        BY <2>10, <4>2
      <4> QED
        BY <4>3 DEF Parsed
    <3> QED
      BY <3>2, <3>3
  <2>13. f = [i \in m .. n + 1 |-> Parsed(s, f, i)]
    <3>1. f = [i \in m .. n + 1 |-> Parsed(s, g, i)]
      BY <2>8, <2>9
    <3> HIDE DEF f
    <3> QED
      BY <2>12, <3>1
  <2>14. UpTo(f, d)
    BY <2>13 DEF UpTo, m
  <2> QED
    BY <2>3, <2>14 DEF UpTo
<1> QED
  BY <1>2, <1>3

LEMMA CutsNone ==
  ASSUME NEW s, NEW i \in Nat
  PROVE  Cuts(s, <<>>, [k \in 1..1 |-> i], i, i)
<1> DEFINE es == <<>>
<1>1. es \in Seq(Seq(Bytes)) /\ Len(es) = 0
  OBVIOUS
<1> HIDE DEF es
<1>2. Cuts(s, es, [k \in 1..1 |-> i], i, i)
  BY <1>1 DEF Cuts
<1> QED
  BY <1>2 DEF es

(* What feed returns: the events up to a place where the bytes run out, and*)
(* the rest from there.                                                    *)
LEMMA FedCuts ==
  ASSUME NEW s \in Seq(Bytes)
  PROVE  \E pos \in 1 .. Len(s) + 1 :
             /\ Waits(s, pos) /\ Fed(s).rest = SubSeq(s, pos, Len(s))
             /\ \E cut : Cuts(s, Fed(s).out, cut, 1, pos)
<1> DEFINE n == Len(s)
           Made(r, i) == /\ r = [out |-> r.out, rest |-> r.rest]
                         /\ \E pos \in i .. n + 1 :
                                /\ Waits(s, pos) /\ r.rest = After(s, pos)
                                /\ \E cut : Cuts(s, r.out, cut, i, pos)
<1> DEFINE f == CHOOSE g : Parses(s, g)
<1>1. Parses(s, f) /\ Fed(s) = f[1] /\ n \in Nat
  BY ParseExists, FedIsParsed
<1> HIDE DEF f
<1>2. \A i \in 1 .. n + 1 : f[i] = Parsed(s, f, i)
  BY <1>1 DEF Parses
<1>3. ASSUME NEW i \in 1 .. n + 1, Ends(s, i) PROVE Made(f[i], i)
  <2>1. f[i] = [out |-> <<>>, rest |-> After(s, i)]
    BY <1>2, <1>3 DEF Parsed
  <2>2. Waits(s, i)
    <3>1. CASE i > n
      BY <1>1, <3>1 DEF Waits
    <3>2. CASE ~(i > n)
      <4>1. i \in 1..n /\ HeadEvent(SubSeq(s, i, Len(s))) = <<>>
        BY <1>1, <1>3, <3>2 DEF Ends, After
      <4> QED
        BY <4>1, HeadIs
    <3> QED
      BY <3>1, <3>2
  <2>3. i \in i .. n + 1 /\ i \in Nat
    BY <1>1
  <2>4. \E cut : Cuts(s, <<>>, cut, i, i)
    BY <2>3, CutsNone
  <2> QED
    BY <2>1, <2>2, <2>3, <2>4
<1>4. ASSUME NEW i \in 1 .. n + 1, ~Ends(s, i)
      PROVE  \E j \in i + 1 .. n + 1 : Made(f[j], j) => Made(f[i], i)
  <2> DEFINE e == HeadEvent(After(s, i))
             j == i + Len(e)
  <2>1. /\ i \in 1..n /\ e = Event(s, i) /\ e \in Seq(Bytes)
        /\ Len(e) = Size(s[i]) /\ Len(e) \in Nat \ {0} /\ j \in 1 .. n + 1
    BY <1>4, EventsGoOn
  <2>2. f[i] = [f[j] EXCEPT !.out = <<e>> \o @]
    BY <1>2, <1>4 DEF Parsed
  <2>3. j \in i + 1 .. n + 1
    <3> HIDE DEF e
    <3> QED
      BY <1>1, <2>1
  <2> HIDE DEF e, j
  <2>4. ASSUME Made(f[j], j) PROVE Made(f[i], i)
    <3>1. PICK pos \in j .. n + 1 :
             /\ Waits(s, pos) /\ f[j].rest = After(s, pos)
             /\ \E cut : Cuts(s, f[j].out, cut, j, pos)
      BY <2>4
    <3>2. PICK cut : Cuts(s, f[j].out, cut, j, pos)
      BY <3>1
    <3>3. f[i] = [out |-> <<e>> \o f[j].out, rest |-> f[j].rest]
      BY <2>2, <2>4
    <3>4. Cuts(s, <<e>>, [k \in 1..2 |-> IF k = 1 THEN i ELSE i + Size(s[i])], i, j)
      BY <2>1, CutsOne DEF j
    <3>5. \E all : Cuts(s, <<e>> \o f[j].out, all, i, pos)
      BY <3>2, <3>4, CutsJoin
    <3>6. pos \in i .. n + 1
      BY <1>1, <2>3, <3>1
    <3> QED
      BY <3>1, <3>3, <3>5, <3>6
  <2> QED
    BY <2>3, <2>4
<1> HIDE DEF Made
<1>5. \A i \in 1 .. n + 1 : Made(f[i], i)
  <2> DEFINE Bad == {d \in 0..n : ~Made(f[n + 1 - d], n + 1 - d)}
  <2>1. CASE Bad = {}
    <3>1. SUFFICES ASSUME NEW i \in 1 .. n + 1 PROVE Made(f[i], i)
      OBVIOUS
    <3>2. n + 1 - i \in 0..n /\ n + 1 - (n + 1 - i) = i
      BY <1>1
    <3> QED
      BY <2>1, <3>2
  <2>2. CASE Bad # {}
    <3>1. Bad \subseteq Nat
      BY <1>1
    <3>2. \E d \in Bad : \A e \in Bad : d <= e
      <4> HIDE DEF Bad
      <4> QED
        BY <2>2, <3>1, NatMin
    <3>3. PICK d \in Bad : \A e \in Bad : d <= e
      BY <3>2
    <3> DEFINE i == n + 1 - d
    <3>4. i \in 1 .. n + 1 /\ ~Made(f[i], i) /\ d \in 0..n
      BY <1>1
    <3>5. ~Ends(s, i)
      <4> HIDE DEF i
      <4> QED
        BY <1>3, <3>4
    <3>6. PICK j \in i + 1 .. n + 1 : Made(f[j], j) => Made(f[i], i)
      <4> HIDE DEF i
      <4> QED
        BY <1>4, <3>4, <3>5
    <3>7. n + 1 - j \in 0..n /\ ~(d <= n + 1 - j) /\ n + 1 - (n + 1 - j) = j
      BY <1>1, <3>4
    <3>8. n + 1 - j \notin Bad
      <4> HIDE DEF Bad
      <4> QED
        BY <3>3, <3>7
    <3>9. Made(f[j], j)
      BY <3>7, <3>8
    <3> QED
      BY <3>4, <3>6, <3>9
  <2> QED
    BY <2>1, <2>2
<1>6. Made(f[1], 1)
  BY <1>1, <1>5
<1> QED
  BY <1>1, <1>6 DEF Made, After

(* What was read is cut into the events, and a rest that waits.            *)
Got == Len(sent) - Len(unread)

WireCut ==
  /\ sent \in Seq(Bytes) /\ Len(sent) <= MaxSent /\ offset \in Offsets
  /\ unread \in Seq(Bytes) /\ Len(unread) <= Len(sent)
  /\ \A i \in 1..Len(unread) : unread[i] = sent[Got + i]
  /\ \E pos \in 1 .. Got + 1 :
         /\ partial = SubSeq(sent, pos, Got)
         /\ pos = Got + 1 \/ (Reports(sent[pos]) /\ Got - pos + 1 < 4)
         /\ \E cut : Cuts(sent, events, cut, 1, pos)

LEMMA WireBegins == WireInit => WireCut
<1> SUFFICES ASSUME WireInit PROVE WireCut
    OBVIOUS
<1>1. sent = <<>> /\ unread = <<>> /\ partial = <<>> /\ events = <<>> /\ offset \in Offsets
  BY DEF WireInit
<1>2. /\ sent \in Seq(Bytes) /\ Len(sent) = 0 /\ unread \in Seq(Bytes) /\ Len(unread) = 0
      /\ Got = 0
  BY <1>1 DEF Got
<1>3. \E cut : Cuts(sent, events, cut, 1, 1)
  BY <1>1, CutsNone
<1>4. partial = SubSeq(sent, 1, 0)
  BY <1>1
<1>5. 1 \in 1 .. Got + 1 /\ 1 = Got + 1
  BY <1>2
<1> QED
  BY <1>1, <1>2, <1>3, <1>4, <1>5, WireAssumption DEF WireCut

LEMMA CutsGrow ==
  ASSUME NEW s, NEW t, NEW es, NEW pos \in Nat, \E cut : Cuts(s, es, cut, 1, pos),
         \A i \in 1 .. pos - 1 : s[i] = t[i]
  PROVE  \E cut : Cuts(t, es, cut, 1, pos)
<1>1. PICK d \in Nat : d = 0
  OBVIOUS
<1>2. \A i \in 1 .. pos - 1 : i + d = i
  BY <1>1
<1>3. PICK cut : Cuts(s, es, cut, 1, pos)
  OBVIOUS
<1>4. \A i \in 1 .. pos - 1 : s[i] = t[i + d]
  BY <1>2
<1>5. \E cuts : Cuts(t, es, cuts, 1 + d, pos + d)
  BY <1>3, <1>4, CutsMove
<1>6. 1 + d = 1 /\ pos + d = pos
  BY <1>1
<1> QED
  BY <1>5, <1>6

LEMMA SendKeeps == ASSUME WireCut, NEW b \in Bytes, GunSends(b) PROVE WireCut'
<1>1. /\ Len(sent) < MaxSent /\ sent' = Append(sent, b) /\ unread' = Append(unread, b)
      /\ UNCHANGED <<partial, events, offset>>
  BY DEF GunSends
<1>2. /\ sent \in Seq(Bytes) /\ unread \in Seq(Bytes) /\ Len(unread) <= Len(sent)
      /\ Len(sent) \in Nat /\ Len(unread) \in Nat /\ Got \in Nat /\ Got + Len(unread) = Len(sent)
      /\ \A i \in 1..Len(unread) : unread[i] = sent[Got + i]
  BY DEF WireCut, Got
<1>3. /\ sent' \in Seq(Bytes) /\ Len(sent') = Len(sent) + 1
      /\ unread' \in Seq(Bytes) /\ Len(unread') = Len(unread) + 1
      /\ \A i \in 1..Len(sent) : sent'[i] = sent[i]
      /\ sent'[Len(sent) + 1] = b /\ unread'[Len(unread) + 1] = b
      /\ \A i \in 1..Len(unread) : unread'[i] = unread[i]
  BY <1>1, <1>2
<1>4. Got' = Got
  BY <1>2, <1>3 DEF Got
<1>5. \A i \in 1..Len(unread') : unread'[i] = sent'[Got' + i]
  <2>1. SUFFICES ASSUME NEW i \in 1..Len(unread') PROVE unread'[i] = sent'[Got + i]
    BY <1>4
  <2>2. CASE i \in 1..Len(unread)
    <3>1. Got + i \in 1..Len(sent)
      BY <1>2, <2>2
    <3> QED
      BY <1>2, <1>3, <2>2, <3>1
  <2>3. CASE i = Len(unread) + 1
    <3>1. Got + i = Len(sent) + 1
      BY <1>2, <2>3
    <3> QED
      BY <1>3, <2>3, <3>1
  <2> QED
    BY <1>2, <1>3, <2>2, <2>3
<1>6. PICK pos \in 1 .. Got + 1 :
         /\ partial = SubSeq(sent, pos, Got)
         /\ pos = Got + 1 \/ (Reports(sent[pos]) /\ Got - pos + 1 < 4)
         /\ \E cut : Cuts(sent, events, cut, 1, pos)
  BY DEF WireCut
<1>7. \A i \in pos..Got : i \in 1..Len(sent)
  BY <1>2
<1>8. partial' = SubSeq(sent', pos, Got)
  <2>1. SubSeq(sent', pos, Got) = SubSeq(sent, pos, Got)
    BY <1>2, <1>3, <1>7
  <2> QED
    BY <1>1, <1>6, <2>1
<1>9. pos = Got + 1 \/ (Reports(sent'[pos]) /\ Got - pos + 1 < 4)
  <2>1. pos # Got + 1 => pos \in 1..Len(sent)
    BY <1>2
  <2> QED
    BY <1>3, <1>6, <2>1
<1>10. \E cut : Cuts(sent', events', cut, 1, pos)
  <2>1. PICK t : t = sent'
    OBVIOUS
  <2>2. \A i \in 1 .. pos - 1 : sent[i] = t[i]
    <3>1. \A i \in 1 .. pos - 1 : i \in 1..Len(sent)
      BY <1>2
    <3> QED
      BY <1>3, <2>1, <3>1
  <2>3. pos \in Nat
    BY <1>2
  <2>4. \E cut : Cuts(t, events, cut, 1, pos)
    BY <1>6, <2>2, <2>3, CutsGrow
  <2> QED
    BY <1>1, <2>1, <2>4
<1>11. Len(sent') <= MaxSent /\ Len(unread') <= Len(sent') /\ offset' \in Offsets
  BY <1>1, <1>2, <1>3, WireAssumption DEF WireCut
<1>12. pos \in 1 .. Got' + 1 /\ partial' = SubSeq(sent', pos, Got')
       /\ (pos = Got' + 1 \/ (Reports(sent'[pos]) /\ Got' - pos + 1 < 4))
  BY <1>4, <1>8, <1>9
<1> QED
  BY <1>3, <1>5, <1>10, <1>11, <1>12 DEF WireCut

LEMMA Slice ==
  ASSUME NEW s \in Seq(Bytes), NEW a \in Nat \ {0}, NEW b \in Nat, a <= b + 1, b <= Len(s)
  PROVE  /\ SubSeq(s, a, b) \in Seq(Bytes) /\ Len(SubSeq(s, a, b)) = b - a + 1
         /\ SubSeq(s, a, b) = [x \in 1 .. b - a + 1 |-> s[a + x - 1]]
         /\ \A x \in 1 .. b - a + 1 : SubSeq(s, a, b)[x] = s[a + x - 1]
<1>1. \A i \in a..b : s[i] \in Bytes
  OBVIOUS
<1> QED
  BY <1>1

(* One read of n bytes, after the rest of the last one.                    *)
LEMMA ReadCuts ==
  ASSUME NEW s \in Seq(Bytes), NEW gone \in Nat, NEW n \in Nat, NEW pos \in Nat,
         NEW es, NEW more \in Seq(Bytes)
  PROVE  (/\ gone + n <= Len(s) /\ pos \in 1 .. gone + 1 /\ \E cut : Cuts(s, es, cut, 1, pos)
          /\ Len(more) = n /\ \A x \in 1..n : more[x] = s[gone + x])
         =>
         LET fed == Fed(SubSeq(s, pos, gone) \o more)
         IN  \E next \in 1 .. gone + n + 1 :
                /\ fed.rest = SubSeq(s, next, gone + n)
                /\ next = gone + n + 1 \/ (Reports(s[next]) /\ gone + n - next + 1 < 4)
                /\ \E cut : Cuts(s, es \o fed.out, cut, 1, next)
<1>12. SUFFICES ASSUME gone + n <= Len(s), pos \in 1 .. gone + 1,
                        \E cut : Cuts(s, es, cut, 1, pos), Len(more) = n,
                        \A x \in 1..n : more[x] = s[gone + x]
       PROVE  LET fed == Fed(SubSeq(s, pos, gone) \o more)
              IN  \E next \in 1 .. gone + n + 1 :
                     /\ fed.rest = SubSeq(s, next, gone + n)
                     /\ next = gone + n + 1 \/ (Reports(s[next]) /\ gone + n - next + 1 < 4)
                     /\ \E cut : Cuts(s, es \o fed.out, cut, 1, next)
  OBVIOUS
<1> DEFINE left == SubSeq(s, pos, gone)
           t == left \o more
<1>1. PICK m \in Nat : m = gone - pos + 1
  BY <1>12
<1>2. /\ left \in Seq(Bytes) /\ Len(left) = m
      /\ \A x \in 1..m : left[x] = s[pos + x - 1]
  <2>1. pos \in Nat \ {0} /\ pos <= gone + 1 /\ gone <= Len(s)
    BY <1>12
  <2> HIDE DEF left
  <2>2. /\ left \in Seq(Bytes) /\ Len(left) = gone - pos + 1
        /\ \A x \in 1 .. gone - pos + 1 : left[x] = s[pos + x - 1]
    BY <2>1, Slice DEF left
  <2> QED
    BY <1>1, <2>2
<1> HIDE DEF left
<1>3. /\ t \in Seq(Bytes) /\ Len(t) = m + n
      /\ \A x \in 1..m : t[x] = left[x]
      /\ \A x \in 1 .. m + n : x \notin 1..m => t[x] = more[x - m]
  <2>1. \A x \in 1..m : x \in 1 .. m + n /\ x <= m
    OBVIOUS
  <2>2. \A x \in 1 .. m + n : x \notin 1..m => ~(x <= m)
    OBVIOUS
  <2>3. \A x \in 1 .. m + n : t[x] = IF x <= m THEN left[x] ELSE more[x - m]
    BY <1>2, <1>12, ConcatProperties
  <2>4. t \in Seq(Bytes) /\ Len(t) = m + n
    BY <1>2, <1>12, ConcatProperties
  <2> HIDE DEF t
  <2> QED
    BY <2>1, <2>2, <2>3, <2>4
<1>4. \A x \in 1 .. m + n : x \notin 1..m => x - m \in 1..n /\ gone + (x - m) = pos + x - 1
  <2> SUFFICES ASSUME NEW x \in 1 .. m + n, x \notin 1..m
               PROVE  x - m \in 1..n /\ gone + (x - m) = pos + x - 1
    OBVIOUS
  <2>1. m \in Int /\ n \in Int /\ gone \in Int /\ pos \in Int /\ m = gone - pos + 1
    BY <1>1, <1>12
  <2>2. x \in Int /\ x <= m + n /\ ~(x <= m)
    BY <2>1
  <2> QED
    BY ONLY <2>1, <2>2
<1> HIDE DEF t
<1>5. \A x \in 1 .. m + n : t[x] = s[pos + x - 1]
  <2>1. SUFFICES ASSUME NEW x \in 1 .. m + n PROVE t[x] = s[pos + x - 1]
    OBVIOUS
  <2>2. CASE x \in 1..m
    BY <1>2, <1>3, <2>2
  <2>3. CASE x \notin 1..m
    <3>1. t[x] = more[x - m] /\ x - m \in 1..n /\ gone + (x - m) = pos + x - 1
      BY <1>3, <1>4, <2>3
    <3>2. more[x - m] = s[gone + (x - m)]
      BY <1>12, <3>1
    <3> QED
      BY <3>1, <3>2
  <2> QED
    BY <2>2, <2>3
<1>6. PICK upto \in 1 .. m + n + 1 :
         /\ Waits(t, upto) /\ Fed(t).rest = SubSeq(t, upto, m + n)
         /\ \E cut : Cuts(t, Fed(t).out, cut, 1, upto)
  BY <1>3, FedCuts
<1>11. PICK next \in Nat : next = upto + (pos - 1)
  BY <1>6, <1>12
<1>7. /\ next \in 1 .. gone + n + 1 /\ pos - 1 \in Nat /\ upto \in Nat \ {0} /\ m + n \in Nat
      /\ (m + n) - upto + 1 = (gone + n) - next + 1 /\ next \in Nat \ {0} /\ gone + n \in Nat
      /\ upto <= m + n + 1 /\ next <= gone + n + 1
  <2>1. upto \in Nat \ {0} /\ upto <= m + n + 1 /\ pos \in Nat \ {0} /\ pos <= gone + 1
    BY <1>6, <1>12
  <2> QED
    BY <1>1, <1>11, <2>1
<1>8. Fed(t).rest = SubSeq(s, next, gone + n)
  <2>1. SubSeq(t, upto, m + n) = [x \in 1 .. (m + n) - upto + 1 |-> t[upto + x - 1]]
    BY <1>3, <1>7, Slice
  <2>2. SubSeq(s, next, gone + n) = [x \in 1 .. (gone + n) - next + 1 |-> s[next + x - 1]]
    BY <1>7, <1>12, Slice
  <2>3. \A x \in 1 .. (m + n) - upto + 1 :
             upto + x - 1 \in 1 .. m + n /\ pos + (upto + x - 1) - 1 = next + x - 1
    BY <1>11, <1>7
  <2>4. \A x \in 1 .. (m + n) - upto + 1 : t[upto + x - 1] = s[next + x - 1]
    BY <1>5, <2>3
  <2> QED
    BY <1>6, <1>7, <2>1, <2>2, <2>4
<1>9. next = gone + n + 1 \/ (Reports(s[next]) /\ gone + n - next + 1 < 4)
  <2>1. CASE upto = m + n + 1
    BY <1>1, <1>11, <2>1
  <2>2. CASE upto \in 1 .. m + n /\ Reports(t[upto]) /\ m + n - upto + 1 < 4
    <3>1. t[upto] = s[pos + upto - 1]
      BY <1>5, <2>2
    <3>2. pos + upto - 1 = next
      BY <1>11, <1>7
    <3>3. gone + n - next + 1 < 4
      BY <1>7, <2>2
    <3> QED
      BY <2>2, <3>1, <3>2, <3>3
  <2> QED
    BY <1>3, <1>6, <2>1, <2>2 DEF Waits
<1>10. \E cut : Cuts(s, es \o Fed(t).out, cut, 1, next)
  <2>1. PICK cut : Cuts(t, Fed(t).out, cut, 1, upto)
    BY <1>6
  <2>2. \A i \in 1 .. upto - 1 : i \in 1 .. m + n /\ i + (pos - 1) = pos + i - 1
    BY <1>7
  <2>3. \A i \in 1 .. upto - 1 : t[i] = s[i + (pos - 1)]
    BY <1>5, <2>2
  <2>4. \E cuts : Cuts(s, Fed(t).out, cuts, 1 + (pos - 1), upto + (pos - 1))
    BY <1>7, <2>1, <2>3, CutsMove
  <2>5. 1 + (pos - 1) = pos /\ upto + (pos - 1) = next
    BY <1>11
  <2> QED
    BY <1>12, <2>4, <2>5, CutsJoin
<1> QED
  BY <1>7, <1>8, <1>9, <1>10 DEF t, left

LEMMA PollKeeps == ASSUME WireCut, Poll PROVE WireCut'
<1>1. PICK n \in 1..MaxRead :
         /\ n <= Len(unread)
         /\ events' = events \o Fed(partial \o SubSeq(unread, 1, n)).out
         /\ partial' = Fed(partial \o SubSeq(unread, 1, n)).rest
         /\ unread' = SubSeq(unread, n + 1, Len(unread))
         /\ UNCHANGED <<sent, offset>>
  BY DEF Poll
<1>2. /\ sent \in Seq(Bytes) /\ unread \in Seq(Bytes) /\ Len(unread) <= Len(sent)
      /\ Len(sent) \in Nat /\ Len(unread) \in Nat /\ Got \in Nat /\ Got + Len(unread) = Len(sent)
      /\ \A i \in 1..Len(unread) : unread[i] = sent[Got + i]
  BY DEF WireCut, Got
<1>3. n \in Nat \ {0} /\ n <= Len(unread) /\ Got + n <= Len(sent) /\ Got + n \in Nat
  BY <1>1, <1>2, WireAssumption
<1>4. PICK pos \in 1 .. Got + 1 :
         partial = SubSeq(sent, pos, Got) /\ \E cut : Cuts(sent, events, cut, 1, pos)
  BY DEF WireCut
<1> DEFINE more == SubSeq(unread, 1, n)
<1>5. more \in Seq(Bytes) /\ Len(more) = n /\ \A x \in 1..n : more[x] = sent[Got + x]
  <2>1. n - 1 + 1 = n /\ 1 <= n + 1 /\ 1 \in Nat \ {0} /\ \A x \in 1..n : 1 + x - 1 = x /\ x \in 1..Len(unread)
    BY <1>2, <1>3
  <2>2. /\ more \in Seq(Bytes) /\ Len(more) = n - 1 + 1
        /\ \A x \in 1 .. n - 1 + 1 : more[x] = unread[1 + x - 1]
    BY <1>2, <1>3, <2>1, Slice
  <2> QED
    BY <1>2, <2>1, <2>2
<1> HIDE DEF more
<1>12. pos \in Nat
  BY <1>2
<1>6. PICK next \in 1 .. Got + n + 1 :
         /\ Fed(partial \o more).rest = SubSeq(sent, next, Got + n)
         /\ next = Got + n + 1 \/ (Reports(sent[next]) /\ Got + n - next + 1 < 4)
         /\ \E cut : Cuts(sent, events \o Fed(partial \o more).out, cut, 1, next)
  BY <1>2, <1>3, <1>4, <1>5, <1>12, ReadCuts
<1>7. /\ unread' \in Seq(Bytes) /\ Len(unread') = Len(unread) - n
      /\ \A i \in 1 .. Len(unread) - n : unread'[i] = unread[n + i]
  <2>1. /\ Len(unread) - (n + 1) + 1 = Len(unread) - n /\ n + 1 \in Nat \ {0}
        /\ n + 1 <= Len(unread) + 1
        /\ \A i \in 1 .. Len(unread) - n : n + 1 + i - 1 = n + i
    <3>1. PICK len \in Nat : len = Len(unread)
      BY <1>2
    <3>2. n \in Nat \ {0} /\ n <= len
      BY <1>3, <3>1
    <3>3. /\ len - (n + 1) + 1 = len - n /\ n + 1 \in Nat \ {0} /\ n + 1 <= len + 1
          /\ \A i \in 1 .. len - n : n + 1 + i - 1 = n + i
      BY ONLY <3>1, <3>2
    <3> QED
      BY <3>1, <3>3
  <2>2. PICK f \in Nat \ {0} : f = n + 1
    BY <2>1
  <2>3. f <= Len(unread) + 1 /\ unread' = SubSeq(unread, f, Len(unread))
    BY <1>1, <2>1, <2>2
  <2>4. /\ unread' \in Seq(Bytes) /\ Len(unread') = Len(unread) - f + 1
        /\ \A i \in 1 .. Len(unread) - f + 1 : unread'[i] = unread[f + i - 1]
    BY <1>2, <2>3, Slice
  <2> QED
    BY <2>1, <2>2, <2>4
<1>8. Got' = Got + n
  <2>1. Got' = Len(sent) - (Len(unread) - n) /\ Got = Len(sent) - Len(unread)
    BY <1>1, <1>7 DEF Got
  <2> QED
    BY <1>2, <1>3, <2>1
<1>9. \A i \in 1..Len(unread') : unread'[i] = sent'[Got' + i]
  <2>1. \A i \in 1 .. Len(unread) - n : n + i \in 1..Len(unread) /\ Got + (n + i) = Got + n + i
    BY <1>2, <1>3
  <2> QED
    BY <1>1, <1>2, <1>7, <1>8, <2>1
<1>10. Len(unread') <= Len(sent') /\ Len(sent') <= MaxSent /\ offset' \in Offsets
  <2>1. Len(unread) - n <= Len(sent)
    BY <1>2, <1>3
  <2> QED
    BY <1>1, <1>7, <2>1 DEF WireCut
<1>11. /\ next \in 1 .. Got' + 1 /\ partial' = SubSeq(sent', next, Got')
       /\ next = Got' + 1 \/ (Reports(sent'[next]) /\ Got' - next + 1 < 4)
       /\ \E cut : Cuts(sent', events', cut, 1, next)
  <2>1. events' = events \o Fed(partial \o more).out /\ partial' = Fed(partial \o more).rest
        /\ sent' = sent
    BY <1>1 DEF more
  <2>2. partial' = SubSeq(sent', next, Got')
    BY <1>6, <1>8, <2>1
  <2>3. next \in 1 .. Got' + 1
    BY <1>6, <1>8
  <2>4. next = Got' + 1 \/ (Reports(sent'[next]) /\ Got' - next + 1 < 4)
    <3>1. CASE next = Got + n + 1
      BY <1>8, <3>1
    <3>2. CASE Reports(sent[next]) /\ Got + n - next + 1 < 4
      <4>1. Reports(sent'[next])
        BY <2>1, <3>2
      <4>2. Got' - next + 1 < 4
        BY <1>2, <1>3, <1>8, <3>2
      <4> QED
        BY <4>1, <4>2
    <3> QED
      BY <1>6, <3>1, <3>2
  <2>5. \E cut : Cuts(sent', events', cut, 1, next)
    BY <1>6, <2>1
  <2> QED
    BY <2>2, <2>3, <2>4, <2>5
<1> QED
  BY <1>1, <1>2, <1>7, <1>9, <1>10, <1>11 DEF WireCut

LEMMA WireKeeps == WireCut /\ [WireNext]_wireVars => WireCut'
<1> SUFFICES ASSUME WireCut, [WireNext]_wireVars PROVE WireCut'
    OBVIOUS
<1>1. CASE UNCHANGED wireVars
  BY <1>1 DEF wireVars, WireCut, Got
<1> QED
  BY <1>1, SendKeeps, PollKeeps DEF WireNext

(* As many values as places, if no two are the same.                       *)
LEMMA CountIs ==
  ASSUME NEW f, NEW n \in Nat, \A i, j \in 1..n : i # j => f[i] # f[j]
  PROVE  Cardinality({f[i] : i \in 1..n}) = n
<1> DEFINE S == {f[i] : i \in 1..n}
           g == [i \in 1..n |-> f[i]]
<1>1. g \in Injection(1..n, S)
  BY DEF Injection, IsInjective
<1>2. g \in Surjection(1..n, S)
  BY DEF Surjection
<1>3. ExistsBijection(1..n, S)
  BY <1>1, <1>2 DEF ExistsBijection, Bijection
<1> HIDE DEF S
<1>4. Cardinality(S) = n
  BY <1>3, FS_CountingElements
<1> QED
  BY <1>4 DEF S

(* Which bytes begin an event is settled by the bytes before.              *)
Begins(s, h) == \A i \in 1..Len(s) : i \in h <=> ~ \E j \in h : Reports(s[j]) /\ j < i /\ i <= j + 3

LEMMA BeginningsAreOne ==
  ASSUME NEW s \in Seq(Bytes), NEW h \in SUBSET (1..Len(s)), Begins(s, h),
         NEW g \in SUBSET (1..Len(s)), Begins(s, g)
  PROVE  h = g
<1> DEFINE D == {i \in 1..Len(s) : ~(i \in h <=> i \in g)}
<1>1. CASE D = {}
  BY <1>1
<1>2. CASE D # {}
  <2>1. D \subseteq Nat
    OBVIOUS
  <2>2. \E i \in D : \A j \in D : i <= j
    <3> HIDE DEF D
    <3> QED
      BY <1>2, <2>1, NatMin
  <2>3. PICK i \in D : \A j \in D : i <= j
    BY <2>2
  <2>4. i \in 1..Len(s) /\ ~(i \in h <=> i \in g)
    OBVIOUS
  <2>5. \A j \in 1..Len(s) : j < i => j \notin D
    <3> HIDE DEF D
    <3> QED
      BY <2>3, <2>4
  <2>6. \A j \in 1..Len(s) : j < i => (j \in h <=> j \in g)
    BY <2>5
  <2>7. (\E j \in h : Reports(s[j]) /\ j < i /\ i <= j + 3)
          <=> (\E j \in g : Reports(s[j]) /\ j < i /\ i <= j + 3)
    <3>1. \A j \in h : j \in 1..Len(s)
      OBVIOUS
    <3>2. \A j \in g : j \in 1..Len(s)
      OBVIOUS
    <3> QED
      BY <2>6, <3>1, <3>2
  <2>8. i \in h <=> i \in g
    BY <2>4, <2>7 DEF Begins
  <2> QED
    BY <2>4, <2>8
<1> QED
  BY <1>1, <1>2

LEMMA HeadsAre ==
  ASSUME NEW s \in Seq(Bytes), NEW h \in SUBSET (1..Len(s)), Begins(s, h)
  PROVE  Heads(s) = h
<1>1. DOMAIN s = 1..Len(s)
  OBVIOUS
<1>2. Heads(s) = CHOOSE g \in SUBSET (1..Len(s)) : Begins(s, g)
  BY <1>1, Zenon DEF Heads, Begins
<1>3. PICK g : g = CHOOSE x \in SUBSET (1..Len(s)) : Begins(s, x)
  OBVIOUS
<1>4. g \in SUBSET (1..Len(s)) /\ Begins(s, g)
  BY <1>3, Zenon
<1> QED
  BY <1>2, <1>3, <1>4, BeginningsAreOne

(* The places of the cut are the beginnings, and so is the rest's.         *)
LEMMA CutsBegin ==
  ASSUME NEW s \in Seq(Bytes), NEW n \in Nat, n <= Len(s), NEW es, NEW cut, NEW pos \in 1 .. n + 1,
         Cuts(s, es, cut, 1, pos), NEW r \in Seq(Bytes), Len(r) = n, \A i \in 1..n : r[i] = s[i],
         pos = n + 1 \/ (Reports(s[pos]) /\ n - pos + 1 < 4)
  PROVE  Begins(r, {i \in 1..n : \E k \in 1..Len(es) + 1 : i = cut[k]})
<1> DEFINE h == {i \in 1..n : \E k \in 1..Len(es) + 1 : i = cut[k]}
           m == Len(es)
<1>1. /\ m \in Nat
      /\ \A k \in 1 .. m + 1 : cut[k] \in Nat /\ 1 <= cut[k] /\ cut[k] <= pos
      /\ \A k \in 1..m : cut[k] + Size(s[cut[k]]) <= pos
  BY CutsAreInside
<1>2. /\ cut[m + 1] = pos
      /\ \A k \in 1..m, l \in 1 .. m + 1 : k < l => cut[k] + Size(s[cut[k]]) <= cut[l]
      /\ \A i \in 1 .. pos - 1 : \E k \in 1..m : cut[k] <= i /\ i < cut[k] + Size(s[cut[k]])
  BY DEF Cuts
<1>3. \A b : Size(b) = IF Reports(b) THEN 4 ELSE 1
  BY DEF Size
<1> HIDE DEF m
<1>4. ASSUME NEW i \in h, NEW j \in h, Reports(r[j]), j < i PROVE j + 4 <= i
  <2>1. PICK k \in 1 .. m + 1 : i = cut[k]
    BY DEF m
  <2>2. PICK l \in 1 .. m + 1 : j = cut[l]
    BY DEF m
  <2>3. Size(s[j]) = 4
    <3>1. j \in 1..n
      OBVIOUS
    <3> QED
      BY <1>3, <1>4, <3>1
  <2>4. l # k
    BY <1>4, <2>1, <2>2
  <2>5. ~(k < l)
    <3>1. SUFFICES ASSUME k < l PROVE FALSE
      OBVIOUS
    <3>2. k \in 1..m
      BY <1>1, <3>1
    <3>3. cut[k] + Size(s[cut[k]]) <= cut[l]
      BY <1>2, <3>1, <3>2
    <3>4. Size(s[cut[k]]) \in {1, 4}
      BY <1>3
    <3>5. cut[k] \in Nat /\ cut[l] \in Nat
      BY <1>1
    <3> QED
      BY <1>4, <2>1, <2>2, <3>3, <3>4, <3>5
  <2>6. l < k /\ l \in 1..m
    BY <1>1, <2>4, <2>5
  <2>7. cut[l] + Size(s[cut[l]]) <= cut[k]
    BY <1>2, <2>6
  <2> QED
    BY <2>1, <2>2, <2>3, <2>7
<1>5. ASSUME NEW i \in 1..n, i \notin h
      PROVE  \E j \in h : Reports(r[j]) /\ j < i /\ i <= j + 3
  <2>1. CASE i < pos
    <3>1. i \in 1 .. pos - 1
      BY <2>1
    <3>2. PICK k \in 1..m : cut[k] <= i /\ i < cut[k] + Size(s[cut[k]])
      BY <1>2, <3>1
    <3>3. k \in 1 .. m + 1
      BY <1>1
    <3>4. cut[k] \in Nat /\ 1 <= cut[k]
      BY <1>1, <3>3
    <3>5. cut[k] \in 1..n
      BY <3>2, <3>4
    <3>6. cut[k] \in h
      BY <3>3, <3>5 DEF m
    <3>7. cut[k] # i
      BY <1>5, <3>6
    <3>8. Size(s[cut[k]]) \in {1, 4} /\ (Size(s[cut[k]]) = 4 => Reports(s[cut[k]]))
      BY <1>3
    <3>9. cut[k] < i /\ Size(s[cut[k]]) = 4
      BY <3>2, <3>4, <3>7, <3>8
    <3>10. i <= cut[k] + 3
      BY <3>2, <3>4, <3>9
    <3>11. Reports(r[cut[k]])
      BY <3>5, <3>8, <3>9
    <3> QED
      BY <3>6, <3>9, <3>10, <3>11
  <2>2. CASE ~(i < pos)
    <3>1. pos \in 1..n
      BY <2>2
    <3>2. pos \in h
      <4>1. m + 1 \in 1 .. m + 1
        BY <1>1
      <4> QED
        BY <1>2, <3>1, <4>1 DEF m
    <3>3. pos # i
      BY <1>5, <3>2
    <3>4. Reports(r[pos]) /\ n - pos + 1 < 4
      BY <3>1
    <3>5. pos < i /\ i <= pos + 3
      BY <2>2, <3>1, <3>3, <3>4
    <3> QED
      BY <3>2, <3>4, <3>5
  <2> QED
    BY <2>1, <2>2
<1>6. \A i \in h, j \in h : ~(Reports(r[j]) /\ j < i /\ i <= j + 3)
  <2>1. SUFFICES ASSUME NEW i \in h, NEW j \in h, Reports(r[j]), j < i, i <= j + 3 PROVE FALSE
    OBVIOUS
  <2>2. j + 4 <= i
    BY <1>4, <2>1
  <2>3. i \in Int /\ j \in Int
    OBVIOUS
  <2> QED
    BY <2>1, <2>2, <2>3
<1> HIDE DEF h
<1>7. Begins(r, h)
  BY <1>5, <1>6 DEF Begins
<1> QED
  BY <1>7 DEF h, m

Below(S, i) == {j \in S : j < i}

(* The bytes of the k-th event begin at the place with k - 1 events before.*)
LEMMA CutsAreCounted ==
  ASSUME NEW s, NEW es, NEW cut, NEW from, NEW to, Cuts(s, es, cut, from, to),
         NEW whole, whole = {cut[k] : k \in 1..Len(es)}
  PROVE  /\ Cardinality(whole) = Len(es)
         /\ \A k \in 1..Len(es), c \in whole :
                Cardinality(Below(whole, c)) = k - 1 <=> c = cut[k]
<1> DEFINE m == Len(es)
<1>1. /\ m \in Nat
      /\ \A k \in 1 .. m + 1 : cut[k] \in Nat
  BY CutsAreInside
<1>2. \A k \in 1..m, l \in 1 .. m + 1 : k < l => cut[k] + Size(s[cut[k]]) <= cut[l]
  BY DEF Cuts
<1>9. whole = {cut[k] : k \in 1..m}
  OBVIOUS
<1> HIDE DEF m
<1>3. \A k \in 1..m : cut[k] \in Nat /\ k \in 1 .. m + 1 /\ k \in Nat
  BY <1>1
<1>4. \A k, l \in 1..m : k < l => cut[k] < cut[l]
  <2>1. SUFFICES ASSUME NEW k \in 1..m, NEW l \in 1..m, k < l PROVE cut[k] < cut[l]
    OBVIOUS
  <2>2. cut[k] + Size(s[cut[k]]) <= cut[l]
    BY <1>2, <1>3, <2>1
  <2>3. Size(s[cut[k]]) \in {1, 4}
    BY DEF Size
  <2> QED
    BY <1>3, <2>2, <2>3
<1>5. \A k, l \in 1..m : k # l => cut[k] # cut[l]
  <2>1. SUFFICES ASSUME NEW k \in 1..m, NEW l \in 1..m, k # l PROVE cut[k] # cut[l]
    OBVIOUS
  <2>2. k < l \/ l < k
    BY <1>3, <2>1
  <2> QED
    BY <1>3, <1>4, <2>2
<1>6. Cardinality(whole) = m
  BY <1>1, <1>5, <1>9, CountIs
<1>7. ASSUME NEW k \in 1..m PROVE Cardinality(Below(whole, cut[k])) = k - 1
  <2>1. k - 1 \in Nat /\ \A l \in 1 .. k - 1 : l \in 1..m /\ l < k
    BY <1>1
  <2>2. \A l \in 1..m : cut[l] < cut[k] => l \in 1 .. k - 1
    <3>1. SUFFICES ASSUME NEW l \in 1..m, cut[l] < cut[k] PROVE l \in 1 .. k - 1
      OBVIOUS
    <3>2. ~(k < l) /\ k # l
      BY <1>3, <1>4, <3>1
    <3> QED
      BY <1>1, <3>2
  <2>3. Below(whole, cut[k]) = {cut[l] : l \in 1 .. k - 1}
    BY <1>4, <1>9, <2>1, <2>2 DEF Below
  <2>4. \A i, j \in 1 .. k - 1 : i # j => cut[i] # cut[j]
    BY <1>5, <2>1
  <2>5. Cardinality({cut[l] : l \in 1 .. k - 1}) = k - 1
    BY <2>1, <2>4, CountIs
  <2> QED
    BY <2>3, <2>5
<1>8. ASSUME NEW k \in 1..m, NEW c \in whole
      PROVE  Cardinality(Below(whole, c)) = k - 1 <=> c = cut[k]
  <2>1. PICK l \in 1..m : c = cut[l]
    BY <1>9
  <2>2. Cardinality(Below(whole, c)) = l - 1
    BY <1>7, <2>1
  <2>3. l - 1 = k - 1 <=> l = k
    BY <1>3
  <2>4. l = k <=> c = cut[k]
    BY <1>5, <2>1
  <2> QED
    BY <2>2, <2>3, <2>4
<1> QED
  BY <1>6, <1>8 DEF m

LEMMA EventIs ==
  ASSUME NEW s \in Seq(Bytes), NEW r \in Seq(Bytes), Len(r) <= Len(s),
         \A i \in 1..Len(r) : r[i] = s[i],
         NEW i \in 1..Len(r), i + Size(s[i]) <= Len(r) + 1
  PROVE  Event(s, i) = IF Reports(r[i]) THEN SubSeq(r, i, i + 3) ELSE <<r[i]>>
<1>1. r[i] = s[i]
  OBVIOUS
<1>2. CASE Reports(r[i])
  <2>1. Size(s[i]) = 4
    BY <1>1, <1>2 DEF Size
  <2>2. PICK b \in Nat : b = i + 3
    OBVIOUS
  <2>3. i \in Nat \ {0} /\ i <= b + 1 /\ b <= Len(r) /\ b - i + 1 = 4
    BY <2>1, <2>2
  <2>4. SubSeq(r, i, b) = [x \in 1..4 |-> r[i + x - 1]]
    BY <2>3, Slice
  <2>5. \A x \in 1..4 : i + x - 1 \in 1..Len(r)
    BY <2>2, <2>3
  <2>6. \A x \in 1..4 : r[i + x - 1] = s[i + x - 1]
    BY <2>5
  <2>7. Event(s, i) = [x \in 1..4 |-> s[i + x - 1]]
    BY <2>1 DEF Event
  <2> QED
    BY <1>2, <2>2, <2>4, <2>6, <2>7
<1>3. CASE ~Reports(r[i])
  <2>1. Size(s[i]) = 1
    BY <1>1, <1>3 DEF Size
  <2>2. \A x \in 1..1 : i + x - 1 = i
    OBVIOUS
  <2>3. Event(s, i) = [x \in 1..1 |-> s[i]]
    BY <2>1, <2>2 DEF Event
  <2>4. <<r[i]>> = [x \in 1..1 |-> r[i]]
    OBVIOUS
  <2> QED
    BY <1>1, <1>3, <2>3, <2>4
<1> QED
  BY <1>2, <1>3

LEMMA OffsetsComeBack == ASSUME NEW v \in Int PROVE Decoded(Encoded(v)) = Clamped(v)
<1>1. Clamped(v) \in Int /\ Clamped(v) <= 9900 /\ Clamped(v) >= -9900
  <2>1. CASE v > 9900
    BY <2>1 DEF Clamped
  <2>2. CASE v < -9900
    BY <2>2 DEF Clamped
  <2>3. CASE ~(v > 9900) /\ ~(v < -9900)
    BY <2>3 DEF Clamped
  <2> QED
    BY <2>1, <2>2, <2>3
<1>2. PICK c \in Int : c = Clamped(v) /\ c <= 9900 /\ c >= -9900
  BY <1>1
<1>3. (c + 10000) % 65536 = c + 10000
  BY <1>2
<1>4. Encoded(v) = c + 10000
  BY <1>2, <1>3 DEF Encoded
<1>5. Decoded(c + 10000) = c
  BY <1>2 DEF Decoded
<1> QED
  BY <1>2, <1>4, <1>5

LEMMA CutsDecide == WireCut => CutsDoNotMatter
<1> DEFINE s == sent
           n == Got
           es == events
           r == SubSeq(s, 1, n)
           whole == {i \in Heads(r) : Reports(r[i]) => i + 3 <= Len(r)}
           EventAt(i) == IF Reports(r[i]) THEN SubSeq(r, i, i + 3) ELSE <<r[i]>>
<1>1. SUFFICES ASSUME WireCut
      PROVE  es = [k \in 1..Cardinality(whole) |->
                     EventAt(CHOOSE i \in whole : Cardinality({j \in whole : j < i}) = k - 1)]
  BY DEF CutsDoNotMatter, Got
<1>2. s \in Seq(Bytes) /\ n \in Nat /\ n <= Len(s)
  BY <1>1 DEF WireCut, Got
<1>3. PICK pos \in 1 .. n + 1 :
         /\ pos = n + 1 \/ (Reports(s[pos]) /\ n - pos + 1 < 4)
         /\ \E cut : Cuts(s, es, cut, 1, pos)
  BY <1>1 DEF WireCut
<1>4. PICK cut : Cuts(s, es, cut, 1, pos)
  BY <1>3
<1> HIDE DEF s, n, es
<1>5. r \in Seq(Bytes) /\ Len(r) = n /\ \A i \in 1..n : r[i] = s[i]
  <2>1. n - 1 + 1 = n /\ 1 \in Nat \ {0} /\ 1 <= n + 1 /\ \A i \in 1..n : 1 + i - 1 = i
    BY <1>2
  <2> QED
    BY <1>2, <2>1, Slice
<1> HIDE DEF r
<1> DEFINE m == Len(es)
           h == {i \in 1..n : \E k \in 1 .. m + 1 : i = cut[k]}
<1>6. Heads(r) = h
  <2>1. Begins(r, h)
    BY <1>2, <1>3, <1>4, <1>5, CutsBegin
  <2>2. h \in SUBSET (1..Len(r))
    BY <1>5
  <2> HIDE DEF h
  <2> QED
    BY <1>5, <2>1, <2>2, HeadsAre
<1>7. /\ m \in Nat
      /\ \A k \in 1 .. m + 1 : cut[k] \in Nat /\ 1 <= cut[k] /\ cut[k] <= pos
      /\ \A k \in 1..m : cut[k] + Size(s[cut[k]]) <= pos
  BY <1>4, CutsAreInside
<1>8. cut[m + 1] = pos /\ \A k \in 1..m : es[k] = Event(s, cut[k])
  BY <1>4 DEF Cuts
<1>9. es = [k \in 1..m |-> es[k]]
  BY <1>4 DEF Cuts
<1> HIDE DEF m, h
<1>10. \A k \in 1..m : cut[k] \in 1..n /\ cut[k] + Size(s[cut[k]]) <= n + 1
  <2>1. SUFFICES ASSUME NEW k \in 1..m PROVE cut[k] \in 1..n /\ cut[k] + Size(s[cut[k]]) <= n + 1
    OBVIOUS
  <2>2. cut[k] \in Nat /\ 1 <= cut[k] /\ cut[k] + Size(s[cut[k]]) <= pos
    BY <1>7
  <2>3. Size(s[cut[k]]) \in {1, 4}
    BY DEF Size
  <2> QED
    BY <1>2, <2>2, <2>3
<1>11. whole = {cut[k] : k \in 1..m}
  <2>1. ASSUME NEW k \in 1..m PROVE cut[k] \in whole
    <3>1. cut[k] \in h
      BY <1>7, <1>10 DEF h
    <3>2. ASSUME Reports(r[cut[k]]) PROVE cut[k] + 3 <= Len(r)
      <4>1. Size(s[cut[k]]) = 4
        BY <1>5, <1>10, <3>2 DEF Size
      <4> QED
        BY <1>2, <1>5, <1>10, <4>1
    <3> QED
      BY <1>6, <3>1, <3>2
  <2>2. ASSUME NEW i \in whole PROVE i \in {cut[k] : k \in 1..m}
    <3>1. i \in h /\ (Reports(r[i]) => i + 3 <= n)
      BY <1>5, <1>6
    <3>2. i \in 1..n /\ \E k \in 1 .. m + 1 : i = cut[k]
      BY <3>1 DEF h
    <3>3. PICK k \in 1 .. m + 1 : i = cut[k]
      BY <3>2
    <3>4. CASE k = m + 1
      <4>1. i = pos
        BY <1>8, <3>3, <3>4
      <4>2. Reports(s[pos]) /\ n - pos + 1 < 4
        BY <1>2, <1>3, <3>2, <4>1
      <4>3. Reports(r[i])
        BY <1>5, <3>2, <4>1, <4>2
      <4>4. i + 3 <= n /\ i \in Nat
        BY <3>1, <3>2, <4>3
      <4> QED
        BY <1>2, <4>1, <4>2, <4>4
    <3>5. CASE k # m + 1
      BY <1>7, <3>3, <3>5
    <3> QED
      BY <3>4, <3>5
  <2> HIDE DEF whole
  <2> QED
    BY <2>1, <2>2
<1> HIDE DEF whole
<1> DEFINE Nth(k) == CHOOSE i \in whole : Cardinality({j \in whole : j < i}) = k - 1
<1>12. Cardinality(whole) = m /\ \A k \in 1..m : Nth(k) = cut[k]
  <2>1. whole = {cut[k] : k \in 1..Len(es)}
    BY <1>11 DEF m
  <2>2. /\ Cardinality(whole) = m
        /\ \A k \in 1..m, c \in whole : Cardinality(Below(whole, c)) = k - 1 <=> c = cut[k]
    BY <1>4, <2>1, CutsAreCounted DEF m
  <2>3. ASSUME NEW k \in 1..m PROVE Nth(k) = cut[k]
    <3>1. cut[k] \in whole
      BY <1>11
    <3>2. Cardinality({j \in whole : j < cut[k]}) = k - 1
      BY <2>2, <3>1 DEF Below
    <3>3. Nth(k) \in whole /\ Cardinality({j \in whole : j < Nth(k)}) = k - 1
      BY <3>1, <3>2
    <3> HIDE DEF Nth
    <3> QED
      BY <2>2, <3>3 DEF Below
  <2> QED
    BY <2>2, <2>3
<1>13. ASSUME NEW k \in 1..m PROVE EventAt(cut[k]) = es[k]
  <2>1. PICK i \in 1..n : i = cut[k] /\ i + Size(s[i]) <= n + 1
    BY <1>10
  <2>2. i \in 1..Len(r) /\ i + Size(s[i]) <= Len(r) + 1 /\ Len(r) <= Len(s)
    BY <1>2, <1>5, <2>1
  <2>3. Event(s, i) = EventAt(i)
    BY <1>2, <1>5, <2>2, EventIs
  <2> QED
    BY <1>8, <2>1, <2>3
<1>14. es = [k \in 1..Cardinality(whole) |-> EventAt(Nth(k))]
  <2> HIDE DEF EventAt, Nth
  <2> QED
    BY <1>9, <1>12, <1>13
<1> QED
  BY <1>14

LEMMA CutsHold == WireCut => WireInv
<1> SUFFICES ASSUME WireCut PROVE WireInv
  OBVIOUS
<1>1. /\ sent \in Seq(Bytes) /\ Len(sent) <= MaxSent /\ offset \in Offsets
      /\ unread \in Seq(Bytes) /\ Len(unread) <= Len(sent)
  BY DEF WireCut
<1>2. PICK pos \in 1 .. Got + 1 :
         /\ partial = SubSeq(sent, pos, Got)
         /\ pos = Got + 1 \/ (Reports(sent[pos]) /\ Got - pos + 1 < 4)
         /\ \E cut : Cuts(sent, events, cut, 1, pos)
  BY DEF WireCut
<1>3. Got \in Nat /\ Got <= Len(sent)
  BY <1>1 DEF Got
<1>4. partial \in Seq(Bytes) /\ Len(partial) < 4
  <2>1. pos \in Nat \ {0} /\ pos <= Got + 1
    BY <1>3
  <2>2. partial \in Seq(Bytes) /\ Len(partial) = Got - pos + 1
    BY <1>1, <1>2, <1>3, <2>1, Slice
  <2>3. Got - pos + 1 < 4
    BY <1>2, <1>3
  <2> QED
    BY <2>2, <2>3
<1>5. \A i \in DOMAIN events : Len(events[i]) \in {1, 4}
  <2>1. PICK cut : Cuts(sent, events, cut, 1, pos)
    BY <1>2
  <2>2. SUFFICES ASSUME NEW i \in DOMAIN events PROVE Len(events[i]) \in {1, 4}
    OBVIOUS
  <2>3. events \in Seq(Seq(Bytes)) /\ \A k \in 1..Len(events) : events[k] = Event(sent, cut[k])
    BY <2>1 DEF Cuts
  <2>4. i \in 1..Len(events) /\ events[i] \in Seq(Bytes)
    BY <2>3
  <2>5. events[i] = Event(sent, cut[i])
    BY <2>3, <2>4
  <2>6. DOMAIN events[i] = 1..Size(sent[cut[i]])
    BY <2>5 DEF Event
  <2>7. Size(sent[cut[i]]) \in {1, 4}
    BY DEF Size
  <2>8. Len(events[i]) \in Nat /\ DOMAIN events[i] = 1..Len(events[i])
    BY <2>4
  <2> QED
    BY <2>6, <2>7, <2>8
<1>6. OffsetComesBack
  BY <1>1, OffsetsComeBack, WireAssumption DEF OffsetComesBack
<1> QED
  BY <1>1, <1>4, <1>5, <1>6, CutsDecide DEF WireInv, WireTypeOK

(* However the gun sends and in whatever pieces its bytes are read: the     *)
(* events are those of the whole stream, each report with its own three     *)
(* bytes (EventParser::feed, poll_events), and an offset comes back as it   *)
(* was stored (calibration_encode, calibration_decode).                     *)
THEOREM WireIsKept == Spec => []WireInv
<1>1. Init => WireCut
  <2>1. Init => WireInit
    BY Zenon DEF Init
  <2> QED
    BY <2>1, WireBegins
<1>2. [Next]_vars => [WireNext]_wireVars
  BY DEF Next, Talk, FlashGun, Calibrate, Transmit, Draw, Display, Point, ShowPreview, FindBorder,
         TakeTurns, vars
<1>3. WireCut /\ [Next]_vars => WireCut'
  BY <1>2, WireKeeps
<1>4. WireCut => WireInv
  BY CutsHold
<1> QED
  BY <1>1, <1>3, <1>4, PTL DEF Spec

-----------------------------------------------------------------------------
(* The border.  A tab as the camera sees it: the symbol it reads as, and its *)
(* true number.                                                              *)
SeenTab == [read : 0..9, no : 1..9]

\* A piece of another sequence.
IsSlice(p, t) ==
    \E o \in 0 .. Len(t) : o + Len(p) <= Len(t) /\ \A i \in 1 .. Len(p) : p[i] = t[o + i]

\* The tabs run on, upwards or downwards.
Lined(t, rev) ==
    \E e \in Int : \A i \in 1 .. Len(t) : t[i].no = IF rev THEN e - i ELSE e + i

\* Every tab is one of the side's, and reads as it is or not at all.
OfSide(t, s)   == \A i \in 1 .. Len(t) : t[i].no \in 1 .. Len(Tabs(s))
ReadsTrue(t, s) ==
    \A i \in 1 .. Len(t) : t[i].read \in {Tabs(s)[t[i].no], Unsure, Missed, Partial}

\* No tab between two others is cut off.
CutAtEnds(t) == \A i \in 2 .. Len(t) - 1 : t[i].read # Partial

SeenInv ==
    /\ seen \in [Sides -> Seq(SeenTab)]
    /\ \A s \in Sides :
          /\ OfSide(seen[s], s) /\ Lined(seen[s], IsReversed(s, rolled))
          /\ fault # "misread" => ReadsTrue(seen[s], s)
          /\ ~CutInside => CutAtEnds(seen[s])
          /\ s \notin inView => seen[s] = <<>>

Neighbours(P) ==
    \E p, q \in P : p.no - q.no \in {-1, 1} /\ p.at - q.at \in {-1, 1}

DecodedPoints == [no : 1..9, side : Sides, at : 1..9]

DecodesTo(d, s) ==
    /\ d \in [side : 0..4, points : SUBSET DecodedPoints]
    /\ (d.side = Dropped) = (d.points = {})
    /\ \A pt \in d.points : pt.side = d.side /\ pt.at <= Len(Tabs(pt.side))
    /\ ~CutInside /\ d.points # {} => Neighbours(d.points)
    /\ ~CutInside /\ fault # "misread" => \A pt \in d.points : pt.side = s /\ pt.at = pt.no
    /\ s \notin inView => d = Nowhere

DecodedInv ==
    /\ DOMAIN decoded = Sides
    /\ \A s \in Sides : DecodesTo(decoded[s], s)

LabelsInv ==
    /\ labels \in [Sides -> 0..4] /\ Kept \subseteq inView
    /\ \A s \in Kept : decoded[s].points # {} => labels[s] = decoded[s].side
    /\ SidesAreThemselves

BorderIInv ==
    /\ glance \in {"none", "seen", "decoded", "labelled", "solved"}
    /\ rolled \in 0..3 /\ fault \in {"none"} \cup Faults /\ inView \subseteq Sides
    /\ SeenInv /\ DecodedInv /\ LabelsInv
    /\ glance \in {"none", "seen"} => \A s \in Sides : decoded[s] = Nowhere
    /\ glance \notin {"labelled", "solved"} => Kept = {}
    /\ glance # "solved" => answer = NoQuad
    /\ answer.by \in {"none", "lines", "fit"}
    /\ answer.corners \in {"none", "right", "wrong"}
    /\ NoLies

-----------------------------------------------------------------------------
(* A side has six or nine tabs, each a symbol.                             *)
LEMMA TabsAre ==
  ASSUME NEW s \in Sides
  PROVE  /\ Tabs(s) \in Seq(Symbols)
         /\ Len(Tabs(s)) \in Nat /\ Len(Tabs(s)) >= 6 /\ Len(Tabs(s)) <= 9
<1>1. CASE s = 0  BY <1>1 DEF Tabs, SEQUENCES, Symbols
<1>2. CASE s = 1  BY <1>2 DEF Tabs, SEQUENCES, Symbols
<1>3. CASE s = 2  BY <1>3 DEF Tabs, SEQUENCES, Symbols
<1>4. CASE s = 3  BY <1>4 DEF Tabs, SEQUENCES, Symbols
<1> QED BY <1>1, <1>2, <1>3, <1>4 DEF Sides

LEMMA TabsHave ==
  ASSUME NEW s \in Sides
  PROVE  /\ DOMAIN Tabs(s) = 1 .. Len(Tabs(s))
         /\ Len(Tabs(s)) \in Nat /\ Len(Tabs(s)) >= 6 /\ Len(Tabs(s)) <= 9
         /\ \A i \in 1 .. Len(Tabs(s)) : Tabs(s)[i] \in 0..3
BY TabsAre DEF Symbols

(* A piece of a sequence between two marks is a slice of it, without the   *)
(* mark.                                                                   *)
LEMMA PiecesAreSlices ==
  ASSUME NEW T, NEW t \in Seq(T), NEW mark, NEW p \in Pieces(t, mark)
  PROVE  /\ p \in Seq(T) /\ p # <<>> /\ IsSlice(p, t)
         /\ \A k \in 1 .. Len(p) : p[k].read # mark
<1> DEFINE ends == {i \in 0 .. Len(t) + 1 : i \in {0, Len(t) + 1} \/ t[i].read = mark}
<1>1. PICK e \in ends \X ends :
         /\ e[1] < e[2] /\ ends \cap (e[1] + 1 .. e[2] - 1) = {}
         /\ p = SubSeq(t, e[1] + 1, e[2] - 1) /\ p # <<>>
  BY DEF Pieces
<1> DEFINE o == e[1]
           b == e[2] - 1
<1> HIDE DEF ends
<1>2. o \in 0 .. Len(t) /\ b \in o .. Len(t) /\ Len(t) \in Nat /\ p = SubSeq(t, o + 1, b)
  BY <1>1 DEF ends
<1> HIDE DEF o, b
<1>3. b > o
  <2> SUFFICES ASSUME b = o PROVE FALSE
    BY <1>2
  <2>1. Len(p) = 0 /\ p \in Seq(T)
    BY <1>2, SubSeqProperties
  <2> QED BY <1>1, <2>1, EmptySeq
<1>4. p \in Seq(T) /\ Len(p) = b - o /\ \A k \in 1 .. b - o : p[k] = t[o + k]
  <2>1. /\ SubSeq(t, o + 1, b) \in Seq(T) /\ Len(SubSeq(t, o + 1, b)) = b - (o + 1) + 1
        /\ \A k \in 1 .. b - (o + 1) + 1 : SubSeq(t, o + 1, b)[k] = t[(o + 1) + k - 1]
    BY <1>2, <1>3, SubSeqProperties
  <2>2. b - (o + 1) + 1 = b - o /\ \A k \in 1 .. b - o : (o + 1) + k - 1 = o + k
    BY <1>2
  <2> QED BY <1>2, <2>1, <2>2
<1>5. ASSUME NEW k \in 1 .. Len(p)  PROVE p[k].read # mark
  <2>1. o + k \in o + 1 .. b /\ o + k \in 0 .. Len(t) + 1
    BY <1>2, <1>3, <1>4
  <2>2. o + k \notin ends
    BY <2>1, <1>1 DEF o, b
  <2> QED BY <2>1, <2>2, <1>4 DEF ends
<1>6. IsSlice(p, t)
  <2>1. o \in 0 .. Len(t) /\ o + Len(p) <= Len(t)
    BY <1>2, <1>3, <1>4
  <2>2. \A i \in 1 .. Len(p) : p[i] = t[o + i]
    BY <1>2, <1>3, <1>4
  <2> QED BY <2>1, <2>2 DEF IsSlice
<1> QED BY <1>1, <1>4, <1>5, <1>6

(* A slice of a slice is a slice.                                          *)
LEMMA SlicesNest ==
  ASSUME NEW T, NEW t \in Seq(T), NEW p \in Seq(T), NEW q \in Seq(T),
         IsSlice(p, t), IsSlice(q, p)
  PROVE  IsSlice(q, t)
<1>1. PICK o \in 0 .. Len(t) : o + Len(p) <= Len(t) /\ \A i \in 1 .. Len(p) : p[i] = t[o + i]
  BY DEF IsSlice
<1>2. PICK u \in 0 .. Len(p) : u + Len(q) <= Len(p) /\ \A i \in 1 .. Len(q) : q[i] = p[u + i]
  BY DEF IsSlice
<1>3. Len(t) \in Nat /\ Len(p) \in Nat /\ Len(q) \in Nat
  OBVIOUS
<1>4. o + u \in 0 .. Len(t) /\ (o + u) + Len(q) <= Len(t)
  BY <1>1, <1>2, <1>3
<1>5. ASSUME NEW i \in 1 .. Len(q)  PROVE q[i] = t[(o + u) + i]
  <2>1. u + i \in 1 .. Len(p) /\ o + (u + i) = (o + u) + i
    BY <1>2, <1>3
  <2> QED BY <2>1, <1>1, <1>2
<1> QED BY <1>4, <1>5 DEF IsSlice

(* What holds of a sequence's tabs holds of a slice's.                     *)
LEMMA SlicesKeep ==
  ASSUME NEW t \in Seq(SeenTab), NEW p \in Seq(SeenTab), IsSlice(p, t),
         NEW s \in Sides, NEW rev \in BOOLEAN
  PROVE  /\ OfSide(t, s) => OfSide(p, s)
         /\ Lined(t, rev) => Lined(p, rev)
         /\ ReadsTrue(t, s) => ReadsTrue(p, s)
         /\ CutAtEnds(t) => CutAtEnds(p)
<1>1. PICK o \in 0 .. Len(t) : o + Len(p) <= Len(t) /\ \A i \in 1 .. Len(p) : p[i] = t[o + i]
  BY DEF IsSlice
<1>2. Len(t) \in Nat /\ Len(p) \in Nat
  OBVIOUS
<1>3. \A i \in 1 .. Len(p) : o + i \in 1 .. Len(t)
  BY <1>1, <1>2
<1>4. OfSide(t, s) => OfSide(p, s)
  BY <1>1, <1>3 DEF OfSide
<1>5. ReadsTrue(t, s) => ReadsTrue(p, s)
  BY <1>1, <1>3 DEF ReadsTrue
<1>6. CutAtEnds(t) => CutAtEnds(p)
  <2>1. \A i \in 2 .. Len(p) - 1 : o + i \in 2 .. Len(t) - 1 /\ i \in 1 .. Len(p)
    BY <1>1, <1>2
  <2> QED BY <1>1, <2>1 DEF CutAtEnds
<1>7. ASSUME Lined(t, rev)  PROVE Lined(p, rev)
  <2>1. PICK e \in Int : \A i \in 1 .. Len(t) : t[i].no = IF rev THEN e - i ELSE e + i
    BY <1>7 DEF Lined
  <2> DEFINE d == IF rev THEN e - o ELSE e + o
  <2>2. d \in Int
    BY <1>2
  <2>3. \A i \in 1 .. Len(p) : p[i].no = IF rev THEN d - i ELSE d + i
    BY <2>1, <1>1, <1>2, <1>3
  <2> QED BY <2>2, <2>3 DEF Lined
<1> QED BY <1>4, <1>5, <1>6, <1>7

-----------------------------------------------------------------------------
(* Among finitely many numbers there is one with any lesser count before   *)
(* it.                                                                     *)
LEMMA RanksAreTaken ==
  ASSUME NEW n \in Nat, NEW K \in SUBSET (1 .. n), NEW k \in 1 .. Cardinality(K)
  PROVE  \E i \in K : Cardinality({j \in K : j < i}) = k - 1
<1> DEFINE F(i) == {j \in K : j < i}
           Late == {m \in Nat : Cardinality(F(m + 1)) >= k}
<1>0. \A j \in K : j \in Nat /\ 1 <= j /\ j <= n
  OBVIOUS
<1>a. \A i, j : j \in F(i) <=> j \in K /\ j < i
  OBVIOUS
<1>1. IsFiniteSet(K) /\ Cardinality(K) \in Nat
  <2>1. IsFiniteSet(1 .. n)
    BY FS_Interval
  <2> QED BY <2>1, FS_Subset, FS_CardinalityType
<1>2. \A i : IsFiniteSet(F(i)) /\ Cardinality(F(i)) \in Nat
  BY <1>1, FS_Subset, FS_CardinalityType
<1>3. n \in Late
  <2>1. F(n + 1) = K
    <3> HIDE DEF F
    <3>1. F(n + 1) \subseteq K
      BY <1>a
    <3>2. \A j \in K : j < n + 1
      BY <1>0
    <3> QED BY <1>a, <3>1, <3>2
  <2> HIDE DEF F
  <2>2. Cardinality(F(n + 1)) >= k
    BY <2>1, <1>1
  <2> QED BY <2>2
<1>4. PICK m \in Late : \A x \in Late : m <= x
  <2> HIDE DEF Late
  <2>1. Late \subseteq Nat /\ Late # {}
    BY <1>3 DEF Late
  <2> QED BY <2>1, NatMin
<1>5. m \in Nat /\ Cardinality(F(m + 1)) >= k
  BY <1>4
<1>6. Cardinality(F(m)) < k
  <2>1. CASE m = 0
    <3>1. F(m) = {}
      <4> HIDE DEF F, Late
      <4>1. \A j \in K : ~(j < m)
        BY <2>1, <1>0
      <4> QED BY <4>1, <1>a
    <3> QED BY <3>1, FS_EmptySet
  <2>2. CASE m # 0
    <3>1. m - 1 \in Nat /\ (m - 1) + 1 = m
      BY <1>5, <2>2
    <3>2. m - 1 \notin Late
      BY <1>4, <3>1
    <3>3. ~(Cardinality(F((m - 1) + 1)) >= k)
      BY <3>1, <3>2
    <3> HIDE DEF F
    <3> QED BY <3>1, <3>3, <1>2
  <2> QED BY <2>1, <2>2
<1>7. m \in K
  <2> SUFFICES ASSUME m \notin K PROVE FALSE
    OBVIOUS
  <2>1. F(m + 1) = F(m)
    <3> HIDE DEF F
    <3>1. \A j \in K : j < m + 1 <=> j < m
      BY <1>5, <1>0
    <3> QED BY <1>a, <3>1
  <2> HIDE DEF F
  <2> QED BY <2>1, <1>5, <1>6, <1>2
<1>8. Cardinality(F(m + 1)) = Cardinality(F(m)) + 1
  <2>1. F(m + 1) = F(m) \cup {m} /\ m \notin F(m)
    <3> HIDE DEF F
    <3>1. \A j \in K : j < m + 1 <=> j < m \/ j = m
      BY <1>5, <1>0
    <3>2. ~(m < m)
      BY <1>5
    <3> QED BY <1>a, <1>7, <3>1, <3>2
  <2> HIDE DEF F
  <2> QED BY <2>1, <1>2, FS_AddElement
<1>9. Cardinality(F(m)) = k - 1
  <2> HIDE DEF F
  <2> QED BY <1>2, <1>5, <1>6, <1>8
<1> QED BY <1>7, <1>9

(* The tabs of a run that can be read are tabs of it that are not cut off; *)
(* a piece of it where none is cut off between two others.                 *)
LEMMA ReadableIs ==
  ASSUME NEW run \in Seq(SeenTab)
  PROVE  /\ Readable(run) \in Seq(SeenTab)
         /\ \A k \in 1 .. Len(Readable(run)) : Readable(run)[k].read # Partial
         /\ CutAtEnds(run) => IsSlice(Readable(run), run)
<1> DEFINE Whole(i) == i \in DOMAIN run /\ run[i].read # Partial
           kept == {i \in DOMAIN run : Whole(i) /\ (Whole(i - 1) \/ Whole(i + 1))}
           At(k) == CHOOSE i \in kept : Cardinality({j \in kept : j < i}) = k - 1
           c == Cardinality(kept)
           out == [k \in 1 .. c |-> run[At(k)]]
<1>1. Readable(run) = out
  BY DEF Readable
<1>2. Len(run) \in Nat /\ DOMAIN run = 1 .. Len(run) /\ kept \subseteq 1 .. Len(run)
  OBVIOUS
<1>3. IsFiniteSet(kept) /\ c \in Nat
  <2> HIDE DEF kept
  <2>1. IsFiniteSet(1 .. Len(run))
    BY <1>2, FS_Interval
  <2> QED BY <1>2, <2>1, FS_Subset, FS_CardinalityType
<1>4. ASSUME NEW k \in 1 .. c
      PROVE  At(k) \in kept /\ Cardinality({j \in kept : j < At(k)}) = k - 1
  <2> HIDE DEF kept
  <2>1. \E i \in kept : Cardinality({j \in kept : j < i}) = k - 1
    BY <1>2, RanksAreTaken
  <2> QED BY <2>1
<1>5. \A i \in kept : i \in 1 .. Len(run) /\ run[i] \in SeenTab /\ run[i].read # Partial
  BY <1>2
<1>6. out \in Seq(SeenTab) /\ Len(out) = c
  <2> HIDE DEF kept, At
  <2>1. out \in [1 .. c -> SeenTab]
    BY <1>4, <1>5
  <2> QED BY <2>1, <1>3, SeqDef
<1>7. \A k \in 1 .. Len(out) : out[k].read # Partial
  <2> HIDE DEF kept, At
  <2> QED BY <1>4, <1>5, <1>6
<1>8. ASSUME CutAtEnds(run)  PROVE IsSlice(out, run)
  <2> DEFINE L == Len(run)
             a == IF L >= 1 /\ run[1].read = Partial THEN 2 ELSE 1
             b == IF L >= 1 /\ run[L].read = Partial THEN L - 1 ELSE L
  <2>1. a \in {1, 2} /\ b \in Int /\ b <= L /\ L \in Nat
    BY <1>2
  <2>2. \A i \in Int : Whole(i) <=> i \in a .. b
    BY <1>2, <1>8 DEF CutAtEnds
  <2>3. CASE a < b
    <3>1. kept = a .. b
      <4> HIDE DEF Whole, a, b
      <4>1. kept \subseteq a .. b
        BY <2>2, <1>2
      <4>2. ASSUME NEW i \in a .. b  PROVE i \in kept
        <5>1. i \in DOMAIN run
          BY <2>2 DEF Whole
        <5>2. i - 1 \in a .. b \/ i + 1 \in a .. b
          BY <2>1, <2>3
        <5> QED BY <5>1, <5>2, <2>1, <2>2
      <4> QED BY <4>1, <4>2
    <3> HIDE DEF kept, a, b
    <3>2. c = b - a + 1
      BY <3>1, <2>1, <2>3, FS_Interval
    <3>3. ASSUME NEW k \in 1 .. c  PROVE At(k) = a - 1 + k
      <4> DEFINE i == At(k)
      <4>1. i \in a .. b /\ Cardinality({j \in kept : j < i}) = k - 1
        BY <1>4, <3>1
      <4> HIDE DEF i, At
      <4>2. {j \in kept : j < i} = a .. i - 1
        BY <4>1, <3>1, <2>1
      <4>3. Cardinality(a .. i - 1) = i - a
        <5>1. a \in Int /\ i \in Int /\ i - 1 \in Int /\ a <= i
          BY <4>1, <2>1
        <5>2. Cardinality(a .. i - 1) = IF a > i - 1 THEN 0 ELSE i - 1 - a + 1
          BY <5>1, FS_Interval
        <5> QED BY <5>1, <5>2
      <4>4. i = a - 1 + k
        <5>1. i - a = k - 1
          BY <4>1, <4>2, <4>3
        <5>2. i \in Int /\ a \in Int /\ k \in Int
          BY <4>1, <2>1
        <5> QED BY <5>1, <5>2
      <4> QED BY <4>4 DEF i
    <3> HIDE DEF At
    <3>4. a - 1 \in 0 .. Len(run) /\ a - 1 + Len(out) <= Len(run)
      BY <2>1, <2>3, <3>2, <1>6
    <3>5. \A k \in 1 .. Len(out) : out[k] = run[a - 1 + k]
      BY <3>3, <1>6
    <3> QED BY <3>4, <3>5 DEF IsSlice
  <2>4. CASE ~(a < b)
    <3>1. kept = {}
      <4> HIDE DEF Whole, a, b
      <4> SUFFICES ASSUME NEW i \in kept PROVE FALSE
        OBVIOUS
      <4>1. i \in Int /\ Whole(i) /\ (Whole(i - 1) \/ Whole(i + 1))
        BY <1>2
      <4> QED BY <4>1, <2>1, <2>2, <2>4
    <3> HIDE DEF kept
    <3>2. c = 0
      BY <3>1, FS_EmptySet
    <3>3. 0 \in 0 .. Len(run) /\ 0 + Len(out) <= Len(run)
      BY <3>2, <1>6, <1>2
    <3>4. \A k \in 1 .. Len(out) : out[k] = run[0 + k]
      BY <3>2, <1>6
    <3> QED BY <3>3, <3>4 DEF IsSlice
  <2> QED BY <2>3, <2>4
<1> HIDE DEF out
<1> QED BY <1>1, <1>6, <1>7, <1>8

-----------------------------------------------------------------------------
(* A stretch: tabs that can be told; where no tab is cut off between two   *)
(* others, a piece of the edge without a gap.                              *)
LEMMA StretchesAre ==
  ASSUME NEW t \in Seq(SeenTab), NEW least \in Nat, NEW st \in Stretches(t, least)
  PROVE  /\ st \in Seq(SeenTab) /\ Len(st) >= least
         /\ \A k \in 1 .. Len(st) : st[k].read \notin {Unsure, Partial}
         /\ CutAtEnds(t) => /\ IsSlice(st, t)
                            /\ \A k \in 1 .. Len(st) : st[k].read # Missed
<1>1. PICK run \in Runs(t) : st \in Pieces(Readable(run), Unsure)
  BY DEF Stretches
<1>2. Len(st) >= least
  BY DEF Stretches
<1>3. /\ run \in Seq(SeenTab) /\ IsSlice(run, t)
      /\ \A k \in 1 .. Len(run) : run[k].read # Missed
  BY <1>1, PiecesAreSlices DEF Runs
<1> DEFINE R == Readable(run)
<1>4. /\ R \in Seq(SeenTab) /\ \A k \in 1 .. Len(R) : R[k].read # Partial
      /\ CutAtEnds(run) => IsSlice(R, run)
  BY <1>3, ReadableIs
<1> HIDE DEF R
<1>5. /\ st \in Seq(SeenTab) /\ IsSlice(st, R)
      /\ \A k \in 1 .. Len(st) : st[k].read # Unsure
  BY <1>1, <1>4, PiecesAreSlices DEF R
<1>6. \A k \in 1 .. Len(st) : st[k].read # Partial
  <2>1. PICK o \in 0 .. Len(R) : o + Len(st) <= Len(R) /\ \A i \in 1 .. Len(st) : st[i] = R[o + i]
    BY <1>5 DEF IsSlice
  <2>2. \A i \in 1 .. Len(st) : o + i \in 1 .. Len(R)
    BY <2>1, <1>4, <1>5
  <2> QED BY <2>1, <2>2, <1>4
<1>7. ASSUME CutAtEnds(t)
      PROVE  IsSlice(st, t) /\ \A k \in 1 .. Len(st) : st[k].read # Missed
  <2>1. CutAtEnds(run)
    <3>1. 0 \in Sides /\ TRUE \in BOOLEAN
      BY DEF Sides
    <3> QED BY <3>1, <1>3, <1>7, SlicesKeep
  <2>2. IsSlice(st, run)
    BY <2>1, <1>3, <1>4, <1>5, SlicesNest
  <2>3. PICK o \in 0 .. Len(run) :
           o + Len(st) <= Len(run) /\ \A i \in 1 .. Len(st) : st[i] = run[o + i]
    BY <2>2 DEF IsSlice
  <2>4. \A i \in 1 .. Len(st) : o + i \in 1 .. Len(run)
    BY <2>3, <1>3, <1>5
  <2>5. IsSlice(st, t)
    BY <2>2, <1>3, <1>5, SlicesNest
  <2> QED BY <2>3, <2>4, <2>5, <1>3
<1> QED BY <1>2, <1>5, <1>6, <1>7

\* Nothing known of an edge, or its side and the direction of its tabs.
Knowns == {<<>>} \cup (Sides \X BOOLEAN)

\* A stretch of the tabs of s, each read as it is.
IsTrue(st, s, rev) ==
    /\ OfSide(st, s) /\ Lined(st, rev)
    /\ \A k \in 1 .. Len(st) : st[k].read = Tabs(s)[st[k].no]

PlacedTabs(st) ==
    [lo : 1 .. Len(st), len : 2 .. Len(st), side : Sides, index : 1..9, reversed : BOOLEAN]

(* Where a sub-run may stand.                                              *)
LEMMA PlacementsAre ==
  ASSUME NEW T, NEW run \in Seq(T), NEW known \in Knowns, NEW pl \in Place(known, run)
  PROVE  /\ pl \in [side : Sides, index : 1..9, reversed : BOOLEAN]
         /\ pl.index + Len(run) - 1 <= Len(Tabs(pl.side))
         /\ known # <<>> => pl.side = known[1]
<1>1. pl \in Placements(run)
  BY DEF Place, Identify, Locate, OnlyOne
<1>2. known # <<>> => pl.side = known[1]
  BY DEF Place, Locate, OnlyOne
<1>3. pl \in [side : Sides, index : 1..9, reversed : BOOLEAN]
  BY <1>1 DEF Placements
<1>4. Len(Reverse(run)) = Len(run)
  BY DEF Reverse
<1>5. Stands(IF pl.reversed THEN Reverse(run) ELSE run, pl.side, pl.index)
  BY <1>1 DEF Placements
<1>6. pl.index + Len(run) - 1 <= Len(Tabs(pl.side))
  BY <1>3, <1>4, <1>5 DEF Stands
<1> QED BY <1>2, <1>3, <1>6

\* Symbols of the tabs that go down from e, or up, and where such tabs stand.
NoFrom(e, rev, i) == IF rev THEN e - i ELSE e + i
ReadsFrom(run, n, s, e, rev) ==
    /\ run \in [1 .. n -> 0..9]
    /\ \A i \in 1 .. n : /\ NoFrom(e, rev, i) \in 1 .. Len(Tabs(s))
                        /\ run[i] = Tabs(s)[NoFrom(e, rev, i)]
Truth(s, n, e, rev) ==
    [side |-> s, index |-> IF rev THEN e - n ELSE e + 1, reversed |-> rev]

(* A sub-run that was read right stands where its tabs are, so that when   *)
(* it is placed at all it is placed there.                                 *)
LEMMA TruthIsPlaced ==
  ASSUME NEW s \in Sides, NEW rev \in BOOLEAN, NEW n \in Nat \ {0}, NEW e \in Int,
         NEW run, ReadsFrom(run, n, s, e, rev),
         NEW known, known \in {<<>>, <<s, rev>>}, NEW pl \in Place(known, run)
  PROVE  pl = Truth(s, n, e, rev)
<1> DEFINE no == [i \in 1 .. n |-> NoFrom(e, rev, i)]
           place == IF rev THEN e - n ELSE e + 1
           truth == Truth(s, n, e, rev)
           back == IF rev THEN Reverse(run) ELSE run
<1>1. /\ DOMAIN Tabs(s) = 1 .. Len(Tabs(s)) /\ Tabs(s) \in Seq(Symbols)
      /\ Len(Tabs(s)) \in Nat /\ Len(Tabs(s)) <= 9
  BY TabsHave, TabsAre
<1>a. \A i \in 1 .. n : no[i] = IF rev THEN e - i ELSE e + i
  BY DEF NoFrom
<1>b. /\ run \in [1 .. n -> 0..9]
      /\ \A i \in 1 .. n : no[i] \in 1 .. Len(Tabs(s)) /\ run[i] = Tabs(s)[no[i]]
  BY DEF ReadsFrom
<1> HIDE DEF no
<1>2. place \in 1 .. 9 /\ place + n - 1 <= Len(Tabs(s)) /\ place >= 1
  <2> DEFINE L == Len(Tabs(s))
  <2>0. L \in Nat /\ L <= 9
    BY TabsHave
  <2>1. no[1] \in 1 .. L /\ no[n] \in 1 .. L
    BY <1>b
  <2>2. CASE rev
    <3>1. e - 1 <= L /\ e - n >= 1
      <4>1. no[1] = e - 1 /\ no[n] = e - n
        BY <1>a, <2>2
      <4> QED BY <2>1, <4>1
    <3>2. place = e - n /\ e \in Int /\ n \in Nat /\ n >= 1
      BY <2>2
    <3> HIDE DEF place
    <3> QED BY ONLY <2>0, <3>1, <3>2
  <2>3. CASE ~rev
    <3>1. e + 1 >= 1 /\ e + n <= L
      <4>1. no[1] = e + 1 /\ no[n] = e + n
        BY <1>a, <2>3
      <4> QED BY <2>1, <4>1
    <3>2. place = e + 1 /\ e \in Int /\ n \in Nat /\ n >= 1
      BY <2>3
    <3> HIDE DEF place
    <3> QED BY ONLY <2>0, <3>1, <3>2
  <2> QED BY <2>2, <2>3
<1>3. run \in Seq(Symbols) /\ Len(run) = n
  <2>1. run \in [1 .. n -> Symbols]
    BY <1>1, <1>b, TabsHave DEF Symbols
  <2> QED BY <2>1, SeqDef
<1>4. /\ back \in [1 .. n -> Symbols] /\ Len(back) = n
      /\ \A i \in 1 .. n : back[i] = Tabs(s)[place + i - 1]
  <2>1. CASE rev
    <3>1. back = [i \in 1 .. n |-> run[(n - i) + 1]]
      BY <2>1, <1>3 DEF Reverse
    <3>2. \A i \in 1 .. n : (n - i) + 1 \in 1 .. n
      OBVIOUS
    <3>3. \A i \in 1 .. n : no[(n - i) + 1] = place + i - 1
      BY <1>a, <2>1, <3>2
    <3>4. \A i \in 1 .. n : /\ run[(n - i) + 1] = Tabs(s)[no[(n - i) + 1]]
                           /\ run[(n - i) + 1] \in Symbols
      BY <3>2, <1>3, <1>b
    <3> HIDE DEF back, place
    <3>5. \A i \in 1 .. n : back[i] = Tabs(s)[place + i - 1]
      BY <3>1, <3>3, <3>4
    <3>6. back \in [1 .. n -> Symbols]
      BY <3>1, <3>4
    <3>7. back \in Seq(Symbols) /\ Len(back) = n
      BY <3>6, SeqDef
    <3> QED BY <3>5, <3>6, <3>7
  <2>2. CASE ~rev
    <3>1. \A i \in 1 .. n : no[i] = place + i - 1
      BY <1>a, <2>2
    <3> QED BY <2>2, <3>1, <1>3, <1>b
  <2> QED BY <2>1, <2>2
<1> HIDE DEF place, back
<1>5. SubSeq(Tabs(s), place, place + n - 1) = back
  <2> DEFINE u == SubSeq(Tabs(s), place, place + n - 1)
  <2>1. u \in Seq(Symbols) /\ Len(u) = n /\ \A i \in 1 .. n : u[i] = Tabs(s)[place + i - 1]
    <3>1. /\ place \in 1 .. Len(Tabs(s)) + 1 /\ place + n - 1 \in place - 1 .. Len(Tabs(s))
          /\ place + n - 1 - place + 1 = n
      BY <1>1, <1>2
    <3> QED BY <1>1, <1>2, <3>1, SubSeqProperties
  <2> HIDE DEF u
  <2>2. u \in [1 .. n -> Symbols]
    BY <2>1, LenProperties
  <2>3. u = back
    <3>1. \A i \in 1 .. n : u[i] = back[i]
      BY <2>1, <1>4
    <3>2. u = [i \in 1 .. n |-> u[i]] /\ back = [i \in 1 .. n |-> back[i]]
      BY <2>2, <1>4
    <3> QED BY <3>1, <3>2
  <2> QED BY <2>3 DEF u
<1>6. truth \in Placements(run)
  <2>1. truth \in [side : Sides, index : 1..9, reversed : BOOLEAN]
    BY <1>2 DEF Truth, place
  <2>2. Stands(back, s, place)
    BY <1>2, <1>4, <1>5 DEF Stands
  <2> QED BY <2>1, <2>2 DEF Placements, back, Truth, place
<1> HIDE DEF truth
<1>7. CASE known = <<>>
  <2>1. pl \in OnlyOne(Placements(run))
    BY <1>7 DEF Place, Identify
  <2> QED BY <2>1, <1>6 DEF OnlyOne, truth
<1>8. CASE known = <<s, rev>>
  <2> DEFINE C == {p \in Placements(run) : p.side = s /\ p.reversed = rev}
  <2>1. pl \in OnlyOne(C)
    BY <1>8 DEF Place, Locate
  <2>2. truth \in C
    BY <1>6 DEF truth, Truth
  <2> HIDE DEF C
  <2> QED BY <2>1, <2>2 DEF OnlyOne, truth
<1> QED BY <1>7, <1>8

(* A stretch that is placed is within its side, and one that was read      *)
(* right is placed where its tabs are.                                     *)
LEMMA PlacedAre ==
  ASSUME NEW st \in Seq(SeenTab), NEW known \in Knowns, NEW pl \in Placed(st, known)
  PROVE  /\ pl \in PlacedTabs(st)
         /\ pl.lo + pl.len - 1 <= Len(st) /\ pl.index + pl.len - 1 <= Len(Tabs(pl.side))
         /\ known # <<>> => pl.side = known[1]
         /\ \A s \in Sides, rev \in BOOLEAN :
               IsTrue(st, s, rev) /\ known \in {<<>>, <<s, rev>>} =>
                   \A pt \in PointsOf(st, pl) : pt.side = s /\ pt.at = pt.no
<1> DEFINE n == Len(st)
           Sub(w) == [i \in 1 .. w.len |-> st[w.lo + i - 1].read]
<1>1. PICK w \in [lo : 1 .. n, len : 2 .. n] :
        /\ w.lo + w.len - 1 <= n
        /\ \E p \in Place(known, Sub(w)) :
               pl = [lo |-> w.lo, len |-> w.len, side |-> p.side, index |-> p.index,
                     reversed |-> p.reversed]
  BY DEF Placed
<1>2. PICK p \in Place(known, Sub(w)) :
        pl = [lo |-> w.lo, len |-> w.len, side |-> p.side, index |-> p.index,
              reversed |-> p.reversed]
  BY <1>1
<1>3. n \in Nat /\ w.lo \in 1 .. n /\ w.len \in 2 .. n
  BY <1>1
<1>4. \A i \in 1 .. w.len : w.lo + i - 1 \in 1 .. n /\ st[w.lo + i - 1] \in SeenTab
  BY <1>1, <1>3
<1>5. Sub(w) \in Seq(0..9) /\ Len(Sub(w)) = w.len
  <2>1. Sub(w) \in [1 .. w.len -> 0..9]
    BY <1>4 DEF SeenTab
  <2> HIDE DEF Sub
  <2> QED BY <2>1, <1>3, SeqDef
<1> HIDE DEF Sub
<1>6. /\ p \in [side : Sides, index : 1..9, reversed : BOOLEAN]
      /\ p.index + w.len - 1 <= Len(Tabs(p.side))
      /\ known # <<>> => p.side = known[1]
  BY <1>2, <1>5, PlacementsAre
<1>7. /\ pl.lo = w.lo /\ pl.len = w.len /\ pl.side = p.side /\ pl.index = p.index
      /\ pl.reversed = p.reversed
  BY <1>2
<1>8. pl \in PlacedTabs(st)
  BY <1>2, <1>3, <1>6 DEF PlacedTabs
<1>9. ASSUME NEW s \in Sides, NEW rev \in BOOLEAN, IsTrue(st, s, rev),
             known \in {<<>>, <<s, rev>>}, NEW pt \in PointsOf(st, pl)
      PROVE  pt.side = s /\ pt.at = pt.no
  <2>1. PICK e \in Int : \A i \in 1 .. n : st[i].no = IF rev THEN e - i ELSE e + i
    BY <1>9 DEF IsTrue, Lined
  <2> DEFINE u == w.len
             run == Sub(w)
             d == IF rev THEN e - (w.lo - 1) ELSE e + (w.lo - 1)
  <2>2. d \in Int /\ u \in Nat \ {0}
    BY <1>3
  <2>3. ReadsFrom(run, u, s, d, rev)
    <3>1. run \in [1 .. u -> 0..9]
      BY <1>5, LenProperties
    <3>2. ASSUME NEW i \in 1 .. u
          PROVE  NoFrom(d, rev, i) \in 1 .. Len(Tabs(s)) /\ run[i] = Tabs(s)[NoFrom(d, rev, i)]
      <4>1. st[w.lo + i - 1].no = NoFrom(d, rev, i)
        <5>1. st[w.lo + i - 1].no = IF rev THEN e - (w.lo + i - 1) ELSE e + (w.lo + i - 1)
          BY <1>4, <2>1
        <5>2. w.lo \in Int
          BY <1>3
        <5> QED BY <5>1, <5>2 DEF NoFrom
      <4>2. run[i] = st[w.lo + i - 1].read
        BY DEF Sub
      <4> QED BY <4>1, <4>2, <1>4, <1>9 DEF IsTrue, OfSide
    <3> QED BY <3>1, <3>2 DEF ReadsFrom
  <2>4. p \in Place(known, run) /\ known \in {<<>>, <<s, rev>>}
    BY <1>2, <1>9
  <2> HIDE DEF d, u, run
  <2>5. p = Truth(s, u, d, rev)
    BY <2>2, <2>3, <2>4, TruthIsPlaced
  <2>6. PICK i \in 0 .. w.len - 1 :
          pt = [no |-> st[w.lo + i].no, side |-> p.side,
                at |-> IF p.reversed THEN p.index + w.len - 1 - i ELSE p.index + i]
    BY <1>7, <1>9 DEF PointsOf
  <2>7. w.lo + i \in 1 .. n /\ i \in Int
    BY <1>1, <1>3, <2>6
  <2>8. st[w.lo + i].no = IF rev THEN e - (w.lo + i) ELSE e + (w.lo + i)
    BY <2>1, <2>7
  <2>9. pt.at = IF rev THEN (d - w.len) + w.len - 1 - i ELSE (d + 1) + i
    BY <2>5, <2>6 DEF Truth, u
  <2>10. pt.at = pt.no
    <3>1. pt.no = IF rev THEN e - (w.lo + i) ELSE e + (w.lo + i)
      BY <2>6, <2>8
    <3>2. w.lo \in Int /\ w.len \in Int /\ e \in Int
      BY <1>3
    <3> QED BY <3>1, <3>2, <2>7, <2>9 DEF d
  <2> QED BY <2>5, <2>6, <2>10 DEF Truth
<1>10. pl.lo + pl.len - 1 <= Len(st) /\ pl.index + pl.len - 1 <= Len(Tabs(pl.side))
  BY <1>1, <1>6, <1>7
<1>11. known # <<>> => pl.side = known[1]
  BY <1>6, <1>7
<1> QED BY <1>8, <1>9, <1>10, <1>11

(* Among the sub-runs that are placed there is a longest, first one.       *)
LEMMA BestIs ==
  ASSUME NEW st \in Seq(SeenTab), NEW S, S \subseteq PlacedTabs(st), S # {}
  PROVE  Best(S) \in S
<1> DEFINE n == Len(st)
           Short == {n - pl.len : pl \in S}
<1>1. n \in Nat /\ \A pl \in S : pl.lo \in 1 .. n /\ pl.len \in 2 .. n
  BY DEF PlacedTabs
<1>2. PICK m \in Short : \A x \in Short : m <= x
  <2>1. Short \subseteq Nat /\ Short # {}
    BY <1>1
  <2> HIDE DEF Short
  <2> QED BY <2>1, NatMin
<1> DEFINE Longest == {pl \in S : n - pl.len = m}
           Los == {pl.lo : pl \in Longest}
<1>3. PICK k \in Los : \A x \in Los : k <= x
  <2>1. Los \subseteq Nat /\ Los # {}
    BY <1>1, <1>2
  <2> HIDE DEF Los
  <2> QED BY <2>1, NatMin
<1>4. PICK pl \in Longest : k = pl.lo
  BY <1>3
<1>5. ASSUME NEW q \in S  PROVE q.len < pl.len \/ (q.len = pl.len /\ pl.lo <= q.lo)
  <2>1. n - pl.len <= n - q.len
    BY <1>2, <1>4
  <2>2. CASE q.len = pl.len
    BY <2>2, <1>3, <1>4
  <2>3. CASE q.len # pl.len
    BY <2>1, <2>3, <1>1, <1>4
  <2> QED BY <2>2, <2>3
<1> HIDE DEF Longest
<1>6. pl \in S
  BY <1>4 DEF Longest
<1> QED BY <1>5, <1>6 DEF Best

(* The tabs of a stretch that is placed: on one side, within it, and two   *)
(* of them beside each other where no tab was passed over.                 *)
LEMMA PointsAre ==
  ASSUME NEW st \in Seq(SeenTab), NEW pl \in PlacedTabs(st),
         pl.lo + pl.len - 1 <= Len(st), pl.index + pl.len - 1 <= Len(Tabs(pl.side))
  PROVE  /\ PointsOf(st, pl) \in SUBSET DecodedPoints /\ PointsOf(st, pl) # {}
         /\ \A pt \in PointsOf(st, pl) : pt.side = pl.side /\ pt.at <= Len(Tabs(pt.side))
         /\ \A rev \in BOOLEAN : Lined(st, rev) => Neighbours(PointsOf(st, pl))
<1> DEFINE Pt(i) == [no |-> st[pl.lo + i].no, side |-> pl.side,
                     at |-> IF pl.reversed THEN pl.index + pl.len - 1 - i ELSE pl.index + i]
<1>1. /\ Len(st) \in Nat /\ pl.lo \in 1 .. Len(st) /\ pl.len \in 2 .. Len(st) /\ pl.side \in Sides
      /\ pl.index \in 1..9
  BY DEF PlacedTabs
<1>2. Len(Tabs(pl.side)) \in Nat /\ Len(Tabs(pl.side)) <= 9
  BY <1>1, TabsHave
<1>3. PointsOf(st, pl) = {Pt(i) : i \in 0 .. pl.len - 1}
  BY DEF PointsOf
<1>4. ASSUME NEW i \in 0 .. pl.len - 1
      PROVE  /\ pl.lo + i \in 1 .. Len(st) /\ Pt(i).no = st[pl.lo + i].no /\ Pt(i).no \in 1..9
             /\ Pt(i).side = pl.side
             /\ Pt(i).at = IF pl.reversed THEN pl.index + pl.len - 1 - i ELSE pl.index + i
             /\ Pt(i).at \in 1..9 /\ Pt(i).at <= Len(Tabs(pl.side))
  <2>1. pl.lo + i \in 1 .. Len(st)
    BY <1>1
  <2>2. st[pl.lo + i].no \in 1..9
    <3>1. st[pl.lo + i] \in SeenTab
      BY <2>1
    <3> QED BY <3>1 DEF SeenTab
  <2>3. Pt(i).at \in 1..9 /\ Pt(i).at <= Len(Tabs(pl.side))
    <3> DEFINE place == IF pl.reversed THEN pl.index + pl.len - 1 - i ELSE pl.index + i
    <3>1. /\ pl.index \in Int /\ pl.len \in Int /\ i \in Int /\ pl.index >= 1
          /\ 0 <= i /\ i <= pl.len - 1
      BY <1>1
    <3>2. place \in Int /\ place >= 1 /\ place <= Len(Tabs(pl.side))
      <4>1. CASE pl.reversed
        BY <3>1, <1>2, <4>1
      <4>2. CASE ~pl.reversed
        BY <3>1, <1>2, <4>2
      <4> QED BY <4>1, <4>2
    <3>3. Pt(i).at = place
      OBVIOUS
    <3> HIDE DEF place, Pt
    <3> QED BY <3>2, <3>3, <1>2
  <2> QED BY <2>1, <2>2, <2>3
<1>5. \A i \in 0 .. pl.len - 1 : Pt(i) \in DecodedPoints
  <2> SUFFICES ASSUME NEW i \in 0 .. pl.len - 1 PROVE Pt(i) \in DecodedPoints
    OBVIOUS
  <2>1. Pt(i).no \in 1..9 /\ Pt(i).side \in Sides /\ Pt(i).at \in 1..9
    BY <1>1, <1>4
  <2> QED BY <2>1 DEF DecodedPoints
<1>6. 0 \in 0 .. pl.len - 1 /\ 1 \in 0 .. pl.len - 1
  BY <1>1
<1>7. ASSUME NEW rev \in BOOLEAN, Lined(st, rev)  PROVE Neighbours(PointsOf(st, pl))
  <2>1. PICK e \in Int : \A i \in 1 .. Len(st) : st[i].no = IF rev THEN e - i ELSE e + i
    BY <1>7 DEF Lined
  <2>2. Pt(1).no - Pt(0).no \in {-1, 1}
    <3>1. Pt(1).no = st[pl.lo + 1].no /\ Pt(0).no = st[pl.lo].no
      BY <1>1
    <3>2. pl.lo \in 1 .. Len(st) /\ pl.lo + 1 \in 1 .. Len(st)
      BY <1>1
    <3> HIDE DEF Pt
    <3>3. /\ st[pl.lo].no = IF rev THEN e - pl.lo ELSE e + pl.lo
          /\ st[pl.lo + 1].no = IF rev THEN e - (pl.lo + 1) ELSE e + (pl.lo + 1)
      BY <3>2, <2>1
    <3>4. pl.lo \in Int
      BY <1>1
    <3> QED BY <3>1, <3>3, <3>4
  <2>3. Pt(1).at - Pt(0).at \in {-1, 1}
    <3>1. pl.index \in Int /\ pl.len \in Int
      BY <1>1
    <3>2. CASE pl.reversed
      BY <3>1, <3>2
    <3>3. CASE ~pl.reversed
      BY <3>1, <3>3
    <3> QED BY <3>2, <3>3
  <2>4. Pt(0) \in PointsOf(st, pl) /\ Pt(1) \in PointsOf(st, pl)
    BY <1>3, <1>6
  <2> HIDE DEF Pt
  <2> QED BY <2>2, <2>3, <2>4 DEF Neighbours
<1> HIDE DEF Pt
<1>8. PointsOf(st, pl) \in SUBSET DecodedPoints /\ PointsOf(st, pl) # {}
  BY <1>3, <1>5, <1>6
<1>9. \A pt \in PointsOf(st, pl) : pt.side = pl.side /\ pt.at <= Len(Tabs(pt.side))
  BY <1>3, <1>4
<1> QED BY <1>7, <1>8, <1>9

(* The edge's tabs as they are decoded.  Nothing comes of no tabs; what    *)
(* was read right is placed where it is; a name that was given is kept.    *)
LEMMA DecodeIs ==
  ASSUME NEW s \in Sides, NEW rev \in BOOLEAN, NEW t \in Seq(SeenTab),
         OfSide(t, s), Lined(t, rev), NEW known \in Knowns, NEW d, d = DecodeTabs(t, known)
  PROVE  /\ d \in [side : 0..4, points : SUBSET DecodedPoints]
         /\ (d.side = Dropped) = (d.points = {})
         /\ \A pt \in d.points : pt.side = d.side /\ pt.at <= Len(Tabs(pt.side))
         /\ CutAtEnds(t) /\ d.points # {} => Neighbours(d.points)
         /\ CutAtEnds(t) /\ ReadsTrue(t, s) /\ known \in {<<>>, <<s, rev>>} =>
                \A pt \in d.points : pt.side = s /\ pt.at = pt.no
         /\ known # <<>> => d.side \in {known[1], Dropped}
         /\ t = <<>> => d = Nowhere
<1> DEFINE least == IF known = <<>> THEN 3 ELSE 2
           found == {st \in Stretches(t, least) : Placed(st, known) # {}}
           names == {Best(Placed(st, known)).side : st \in found}
           BestOf(st) == Best(Placed(st, known))
<1>0. least \in Nat /\ least >= 2
  OBVIOUS
<1>1. CASE OnlyOne(names) = {}
  <2>1. d = Nowhere
    BY <1>1 DEF DecodeTabs
  <2>2. /\ Nowhere \in [side : 0..4, points : SUBSET DecodedPoints]
        /\ Nowhere.side = Dropped /\ Nowhere.points = {}
    BY DEF Nowhere, Dropped
  <2> QED BY <2>1, <2>2
<1>2. CASE OnlyOne(names) # {}
  <2> DEFINE sd == CHOOSE x \in names : TRUE
  <2>1. d = [side |-> sd, points |-> UNION {PointsOf(st, BestOf(st)) : st \in found}]
    BY <1>2 DEF DecodeTabs
  <2>2. names = {sd}
    <3> HIDE DEF names
    <3>1. PICK x : x \in names /\ names = {x}
      BY <1>2 DEF OnlyOne
    <3> QED BY <3>1
  <2>3. ASSUME NEW st \in found
        PROVE  /\ st \in Seq(SeenTab) /\ BestOf(st) \in Placed(st, known)
               /\ BestOf(st) \in PlacedTabs(st) /\ BestOf(st).side = sd
               /\ BestOf(st).lo + BestOf(st).len - 1 <= Len(st)
               /\ BestOf(st).index + BestOf(st).len - 1 <= Len(Tabs(BestOf(st).side))
               /\ known # <<>> => sd = known[1]
    <3>1. st \in Seq(SeenTab)
      BY <1>0, StretchesAre
    <3>2. Placed(st, known) \subseteq PlacedTabs(st) /\ Placed(st, known) # {}
      BY <3>1, PlacedAre
    <3>3. BestOf(st) \in Placed(st, known)
      BY <3>1, <3>2, BestIs
    <3>4. BestOf(st).side = sd
      BY <2>2
    <3> HIDE DEF BestOf, sd
    <3>5. /\ BestOf(st) \in PlacedTabs(st)
          /\ BestOf(st).lo + BestOf(st).len - 1 <= Len(st)
          /\ BestOf(st).index + BestOf(st).len - 1 <= Len(Tabs(BestOf(st).side))
          /\ known # <<>> => BestOf(st).side = known[1]
      BY <3>1, <3>3, PlacedAre
    <3> QED BY <3>1, <3>3, <3>4, <3>5
  <2>4. PICK st0 \in found : TRUE
    BY <2>2
  <2> HIDE DEF found, names, sd, BestOf, least
  <2>5. sd \in Sides
    BY <2>3, <2>4 DEF PlacedTabs
  <2>6. ASSUME NEW st \in found
        PROVE  /\ PointsOf(st, BestOf(st)) \in SUBSET DecodedPoints
               /\ PointsOf(st, BestOf(st)) # {}
               /\ \A pt \in PointsOf(st, BestOf(st)) :
                      pt.side = sd /\ pt.at <= Len(Tabs(pt.side))
               /\ \A r \in BOOLEAN : Lined(st, r) => Neighbours(PointsOf(st, BestOf(st)))
    BY <2>3, PointsAre
  <2>7. d.points = UNION {PointsOf(st, BestOf(st)) : st \in found} /\ d.side = sd
    BY <2>1
  <2>8. d.points \in SUBSET DecodedPoints /\ d.points # {}
    BY <2>4, <2>6, <2>7
  <2>9. \A pt \in d.points : pt.side = d.side /\ pt.at <= Len(Tabs(pt.side))
    BY <2>6, <2>7
  <2>10. d.side # Dropped /\ d.side \in 0..4
    BY <2>5, <2>7 DEF Sides, Dropped
  <2>11. d \in [side : 0..4, points : SUBSET DecodedPoints]
    BY <2>1, <2>7, <2>8, <2>10
  <2>12. ASSUME CutAtEnds(t), NEW st \in found
         PROVE  /\ Len(st) >= 2 /\ IsSlice(st, t) /\ Lined(st, rev) /\ OfSide(st, s)
                /\ \A k \in 1 .. Len(st) : st[k].read \notin {Unsure, Partial, Missed}
                /\ ReadsTrue(t, s) => ReadsTrue(st, s)
    <3>1. /\ Len(st) >= least /\ Len(st) \in Nat /\ IsSlice(st, t)
          /\ \A k \in 1 .. Len(st) : st[k].read \notin {Unsure, Partial}
          /\ \A k \in 1 .. Len(st) : st[k].read # Missed
      BY <1>0, <2>3, <2>12, StretchesAre DEF found
    <3>2. Len(st) >= 2
      BY <1>0, <3>1
    <3> QED BY <2>3, <3>1, <3>2, SlicesKeep
  <2>13. CutAtEnds(t) => Neighbours(d.points)
    <3> SUFFICES ASSUME CutAtEnds(t) PROVE Neighbours(d.points)
      OBVIOUS
    <3>1. Neighbours(PointsOf(st0, BestOf(st0)))
      BY <2>4, <2>6, <2>12
    <3>2. PointsOf(st0, BestOf(st0)) \subseteq d.points
      BY <2>4, <2>7
    <3> QED BY <3>1, <3>2 DEF Neighbours
  <2>14. ASSUME CutAtEnds(t), ReadsTrue(t, s), known \in {<<>>, <<s, rev>>},
                NEW pt \in d.points
         PROVE  pt.side = s /\ pt.at = pt.no
    <3>1. PICK st \in found : pt \in PointsOf(st, BestOf(st))
      BY <2>7
    <3>2. IsTrue(st, s, rev)
      <4>1. /\ OfSide(st, s) /\ Lined(st, rev) /\ ReadsTrue(st, s)
            /\ \A k \in 1 .. Len(st) : st[k].read \notin {Unsure, Partial, Missed}
        BY <2>12, <2>14
      <4> QED BY <4>1 DEF IsTrue, ReadsTrue
    <3> QED BY <2>3, <2>14, <3>1, <3>2, PlacedAre
  <2>15. known # <<>> => d.side \in {known[1], Dropped}
    BY <2>3, <2>4, <2>7
  <2>16. t # <<>>
    <3> SUFFICES ASSUME t = <<>> PROVE FALSE
      OBVIOUS
    <3>1. Len(t) = 0
      OBVIOUS
    <3>2. CutAtEnds(t)
      BY <3>1 DEF CutAtEnds
    <3>3. Len(st0) >= 2 /\ IsSlice(st0, t) /\ Len(st0) \in Nat
      BY <2>3, <2>4, <2>12, <3>2
    <3> QED BY <3>1, <3>3 DEF IsSlice
  <2> QED BY <2>8, <2>9, <2>10, <2>11, <2>13, <2>14, <2>15, <2>16
<1> QED BY <1>1, <1>2

-----------------------------------------------------------------------------
(* The tabs the camera sees are tabs of the side, in order, each as it is. *)
LEMMA TabsFromAre ==
  ASSUME NEW s \in Sides, NEW n \in Nat, NEW first \in Nat, first >= 1,
         first + n - 1 <= Len(Tabs(s)), NEW r \in 0..3, NEW t, t = TabsFrom(s, first, n, r)
  PROVE  /\ t \in Seq(SeenTab) /\ OfSide(t, s) /\ Lined(t, IsReversed(s, r))
         /\ \A i \in 1 .. Len(t) : t[i].read = Tabs(s)[t[i].no] /\ t[i].read \in 0..3
<1> DEFINE own == [i \in 1 .. n |-> [read |-> Tabs(s)[first + i - 1], no |-> first + i - 1]]
           At(i) == IF IsReversed(s, r) THEN first + n - i ELSE first + i - 1
<1>1. t = IF IsReversed(s, r) THEN Reverse(own) ELSE own
  BY DEF TabsFrom
<1>2. /\ Len(Tabs(s)) \in Nat /\ Len(Tabs(s)) <= 9
      /\ \A i \in 1 .. Len(Tabs(s)) : Tabs(s)[i] \in 0..3
  BY TabsHave
<1>3. ASSUME NEW i \in 1 .. n
      PROVE  At(i) \in 1 .. Len(Tabs(s)) /\ At(i) \in 1..9
  BY <1>2
<1>4. Len(own) = n
  OBVIOUS
<1>5. t = [i \in 1 .. n |-> [read |-> Tabs(s)[At(i)], no |-> At(i)]]
  <2>1. CASE IsReversed(s, r)
    <3>1. t = [i \in 1 .. n |-> own[(n - i) + 1]]
      BY <1>1, <1>4, <2>1 DEF Reverse
    <3>2. ASSUME NEW i \in 1 .. n
          PROVE  own[(n - i) + 1] = [read |-> Tabs(s)[At(i)], no |-> At(i)]
      <4>1. (n - i) + 1 \in 1 .. n /\ first + ((n - i) + 1) - 1 = At(i)
        BY <2>1
      <4> QED BY <4>1
    <3> HIDE DEF own, At
    <3> QED BY <3>1, <3>2
  <2>2. CASE ~IsReversed(s, r)
    BY <1>1, <2>2
  <2> QED BY <2>1, <2>2
<1> HIDE DEF own, At
<1>6. \A i \in 1 .. n : t[i] = [read |-> Tabs(s)[At(i)], no |-> At(i)] /\ t[i] \in SeenTab
  BY <1>2, <1>3, <1>5 DEF SeenTab
<1>7. t \in Seq(SeenTab) /\ Len(t) = n
  <2>1. t \in [1 .. n -> SeenTab]
    BY <1>5, <1>6
  <2> QED BY <2>1, SeqDef
<1>8. OfSide(t, s)
  BY <1>3, <1>6, <1>7 DEF OfSide
<1>9. Lined(t, IsReversed(s, r))
  <2> DEFINE e == IF IsReversed(s, r) THEN first + n ELSE first - 1
  <2>1. e \in Int
    OBVIOUS
  <2>2. ASSUME NEW i \in 1 .. Len(t)
        PROVE  t[i].no = IF IsReversed(s, r) THEN e - i ELSE e + i
    <3>1. t[i].no = At(i) /\ i \in Int
      BY <1>6, <1>7
    <3> QED BY <3>1 DEF At
  <2> HIDE DEF e
  <2> QED BY <2>1, <2>2 DEF Lined
<1>10. \A i \in 1 .. Len(t) : t[i].read = Tabs(s)[t[i].no] /\ t[i].read \in 0..3
  <2> SUFFICES ASSUME NEW i \in 1 .. Len(t)
               PROVE  t[i].read = Tabs(s)[t[i].no] /\ t[i].read \in 0..3
    OBVIOUS
  <2>1. t[i] = [read |-> Tabs(s)[At(i)], no |-> At(i)] /\ At(i) \in 1 .. Len(Tabs(s))
    BY <1>3, <1>6, <1>7
  <2> QED BY <2>1, <1>2
<1> QED BY <1>7, <1>8, <1>9, <1>10

FaultNames == {"none", "unsure", "missed", "partial", "misread"}

(* With a fault they are the same tabs, which read otherwise; as another   *)
(* symbol, or as cut off, only for a fault of that name.                   *)
LEMMA FaultyAre ==
  ASSUME NEW s \in Sides, NEW rev \in BOOLEAN, NEW t \in Seq(SeenTab),
         OfSide(t, s), Lined(t, rev),
         \A i \in 1 .. Len(t) : t[i].read = Tabs(s)[t[i].no] /\ t[i].read \in 0..3,
         NEW f \in FaultNames, NEW u \in Faulty(t, f)
  PROVE  /\ u \in Seq(SeenTab) /\ OfSide(u, s) /\ Lined(u, rev)
         /\ f # "misread" => ReadsTrue(u, s)
         /\ f # "partial" => CutAtEnds(u)
<1>0. Len(t) \in Nat /\ DOMAIN t = 1 .. Len(t)
  OBVIOUS
<1>1. CASE u = t
  <2>1. ReadsTrue(t, s)
    BY DEF ReadsTrue
  <2>2. CutAtEnds(t)
    <3>1. \A i \in 2 .. Len(t) - 1 : i \in 1 .. Len(t)
      BY <1>0
    <3>2. \A i \in 1 .. Len(t) : t[i].read # Partial
      BY DEF Partial
    <3> QED BY <3>1, <3>2 DEF CutAtEnds
  <2> QED BY <1>1, <2>1, <2>2
<1>2. CASE \E what : /\ u \in ReadAs(t, what)
                     /\ \/ f = "unsure" /\ what = {Unsure}
                        \/ f = "missed" /\ what = {Missed}
                        \/ f = "partial" /\ what = {Partial}
                        \/ f = "misread" /\ what = Symbols
  <2>1. PICK what : /\ u \in ReadAs(t, what)
                    /\ \/ f = "unsure" /\ what = {Unsure}
                       \/ f = "missed" /\ what = {Missed}
                       \/ f = "partial" /\ what = {Partial}
                       \/ f = "misread" /\ what = Symbols
    BY <1>2
  <2>2. PICK j \in DOMAIN t, x \in what : u = [t EXCEPT ![j].read = x]
    BY <2>1 DEF ReadAs
  <2>3. x \in 0..9 /\ (f # "misread" => x \in {Unsure, Missed, Partial})
        /\ (f # "partial" => x # Partial)
    BY <2>1 DEF Unsure, Missed, Partial, Symbols
  <2>4. ASSUME NEW i \in 1 .. Len(t)
        PROVE  /\ u[i] \in SeenTab /\ u[i].no = t[i].no
               /\ u[i].read = IF i = j THEN x ELSE t[i].read
    <3>1. t[i] \in SeenTab
      BY <1>0
    <3>2. CASE i = j
      <4>1. u[i] = [t[i] EXCEPT !.read = x]
        BY <2>2, <3>2, <1>0
      <4> QED BY <4>1, <3>1, <3>2, <2>3 DEF SeenTab
    <3>3. CASE i # j
      <4>1. u[i] = t[i]
        BY <2>2, <3>3, <1>0
      <4> QED BY <4>1, <3>1, <3>3
    <3> QED BY <3>2, <3>3
  <2>5. u \in Seq(SeenTab) /\ Len(u) = Len(t)
    <3>1. u \in [1 .. Len(t) -> SeenTab]
      BY <1>0, <2>2, <2>4
    <3> QED BY <1>0, <3>1, SeqDef
  <2>6. OfSide(u, s) /\ Lined(u, rev)
    BY <2>4, <2>5 DEF OfSide, Lined
  <2>7. f # "misread" => ReadsTrue(u, s)
    BY <2>3, <2>4, <2>5 DEF ReadsTrue
  <2>8. f # "partial" => CutAtEnds(u)
    <3> SUFFICES ASSUME f # "partial", NEW i \in 2 .. Len(u) - 1  PROVE u[i].read # Partial
      BY DEF CutAtEnds
    <3>1. i \in 1 .. Len(t)
      BY <1>0, <2>5
    <3> QED BY <3>1, <2>3, <2>4 DEF Partial
  <2> QED BY <2>5, <2>6, <2>7, <2>8
<1>3. u = t \/ \E what : /\ u \in ReadAs(t, what)
                         /\ \/ f = "unsure" /\ what = {Unsure}
                            \/ f = "missed" /\ what = {Missed}
                            \/ f = "partial" /\ what = {Partial}
                            \/ f = "misread" /\ what = Symbols
  <2>1. CASE f = "none"
    BY <2>1 DEF Faulty
  <2>2. CASE f = "unsure"
    BY <2>2 DEF Faulty
  <2>3. CASE f = "missed"
    BY <2>3 DEF Faulty
  <2>4. CASE f = "partial"
    BY <2>4 DEF Faulty
  <2>5. CASE f = "misread"
    BY <2>5 DEF Faulty
  <2> QED BY <2>1, <2>2, <2>3, <2>4, <2>5 DEF FaultNames
<1> QED BY <1>1, <1>2, <1>3

-----------------------------------------------------------------------------
(* The border before a frame.                                              *)
LEMMA FreshBorder == BorderInit => BorderIInv
<1> SUFFICES ASSUME BorderInit PROVE BorderIInv
  OBVIOUS
<1>1. \A s \in Sides : seen[s] = <<>> /\ decoded[s] = Nowhere /\ labels[s] = Dropped
  BY DEF BorderInit
<1>2. SeenInv
  <2>1. seen \in [Sides -> Seq(SeenTab)]
    BY DEF BorderInit
  <2>2. ASSUME NEW s \in Sides
        PROVE  /\ OfSide(seen[s], s) /\ Lined(seen[s], IsReversed(s, rolled))
               /\ ReadsTrue(seen[s], s) /\ CutAtEnds(seen[s])
    <3>1. Len(seen[s]) = 0
      BY <1>1
    <3>2. OfSide(seen[s], s) /\ ReadsTrue(seen[s], s) /\ CutAtEnds(seen[s])
      BY <3>1 DEF OfSide, ReadsTrue, CutAtEnds
    <3>3. \A i \in 1 .. Len(seen[s]) :
             seen[s][i].no = IF IsReversed(s, rolled) THEN 0 - i ELSE 0 + i
      BY <3>1
    <3> QED BY <3>2, <3>3 DEF Lined
  <2> QED BY <1>1, <2>1, <2>2 DEF SeenInv
<1>3. \A s \in Sides : DecodesTo(decoded[s], s)
  BY <1>1 DEF DecodesTo, Nowhere, Dropped
<1>4. DecodedInv
  BY <1>3 DEF DecodedInv, BorderInit
<1>5. Kept = {} /\ labels \in [Sides -> 0..4]
  BY DEF BorderInit, Kept, Dropped
<1>6. LabelsInv
  BY <1>5 DEF LabelsInv, SidesAreThemselves, BorderInit
<1>7. answer = NoQuad /\ glance = "none" /\ rolled = 0 /\ fault = "none" /\ inView = {}
  BY DEF BorderInit
<1> QED BY <1>1, <1>2, <1>4, <1>5, <1>6, <1>7 DEF BorderIInv, NoLies, NoQuad

(* A frame.                                                                *)
LEMMA SeeKeeps ==
  ASSUME BorderIInv, SeeBorder  PROVE BorderIInv'
<1> USE BorderAssumption
<1>a. PICK a \in Sides, n \in Lengths, m \in Glimpses, rest \in BOOLEAN :
        \E first \in Windows(a, n), second \in {1, Len(Tabs(NextSide(a))) + 1 - m} :
          \E tabs \in Faulty(TabsFrom(a, first, n, rolled'), fault') :
            /\ inView' = IF rest THEN Sides ELSE {a, NextSide(a)}
            /\ seen' = [s \in Sides |-> IF s = a THEN tabs
                                        ELSE IF s = NextSide(a) THEN TabsFrom(s, second, m, rolled')
                                        ELSE <<>>]
  BY DEF SeeBorder
<1>b. PICK first \in Windows(a, n), second \in {1, Len(Tabs(NextSide(a))) + 1 - m} :
        \E tabs \in Faulty(TabsFrom(a, first, n, rolled'), fault') :
          /\ inView' = IF rest THEN Sides ELSE {a, NextSide(a)}
          /\ seen' = [s \in Sides |-> IF s = a THEN tabs
                                      ELSE IF s = NextSide(a) THEN TabsFrom(s, second, m, rolled')
                                      ELSE <<>>]
  BY <1>a
<1>1. PICK tabs \in Faulty(TabsFrom(a, first, n, rolled'), fault') :
        /\ inView' = IF rest THEN Sides ELSE {a, NextSide(a)}
        /\ seen' = [s \in Sides |-> IF s = a THEN tabs
                                    ELSE IF s = NextSide(a) THEN TabsFrom(s, second, m, rolled')
                                    ELSE <<>>]
  BY <1>b
<1>2. /\ rolled' \in 0..3 /\ fault' \in {"none"} \cup Faults /\ glance' = "seen" /\ glance = "none"
      /\ decoded' = decoded /\ labels' = labels /\ answer' = answer
  BY DEF SeeBorder
<1>3. fault' \in FaultNames
  BY <1>2 DEF FaultNames
<1>4. NextSide(a) \in Sides /\ NextSide(a) # a
  BY DEF NextSide, Sides
<1> DEFINE b == NextSide(a)
           t1 == TabsFrom(a, first, n, rolled')
           t2 == TabsFrom(b, second, m, rolled')
<1> HIDE DEF b
<1>5. /\ n \in Nat /\ first \in Nat /\ first >= 1 /\ first + n - 1 <= Len(Tabs(a))
  BY TabsHave DEF Windows
<1>6. /\ t1 \in Seq(SeenTab) /\ OfSide(t1, a) /\ Lined(t1, IsReversed(a, rolled'))
      /\ \A i \in 1 .. Len(t1) : t1[i].read = Tabs(a)[t1[i].no] /\ t1[i].read \in 0..3
  BY <1>2, <1>5, TabsFromAre
<1>7. /\ m \in Nat /\ second \in Nat /\ second >= 1 /\ second + m - 1 <= Len(Tabs(b))
  <2>1. Len(Tabs(b)) \in Nat /\ Len(Tabs(b)) >= 6 /\ m \in Nat /\ m <= 6
    BY <1>4, TabsHave DEF b
  <2>2. second = 1 \/ second = Len(Tabs(b)) + 1 - m
    BY DEF b
  <2> QED BY <2>1, <2>2
<1>8. /\ t2 \in Seq(SeenTab) /\ OfSide(t2, b) /\ Lined(t2, IsReversed(b, rolled'))
      /\ \A i \in 1 .. Len(t2) : t2[i].read = Tabs(b)[t2[i].no] /\ t2[i].read \in 0..3
  BY <1>2, <1>4, <1>7, TabsFromAre DEF b
<1> HIDE DEF t1, t2
<1>9. /\ tabs \in Seq(SeenTab) /\ OfSide(tabs, a) /\ Lined(tabs, IsReversed(a, rolled'))
      /\ fault' # "misread" => ReadsTrue(tabs, a)
      /\ fault' # "partial" => CutAtEnds(tabs)
  <2>1. IsReversed(a, rolled') \in BOOLEAN /\ tabs \in Faulty(t1, fault')
    BY <1>1 DEF IsReversed, t1
  <2> QED BY <1>3, <1>6, <2>1, FaultyAre
<1>10. ReadsTrue(t2, b) /\ CutAtEnds(t2)
  <2>1. \A i \in 2 .. Len(t2) - 1 : i \in 1 .. Len(t2)
    BY <1>8
  <2>2. \A i \in 1 .. Len(t2) : t2[i].read # Partial
    BY <1>8 DEF Partial
  <2>3. ReadsTrue(t2, b)
    BY <1>8 DEF ReadsTrue
  <2> QED BY <2>1, <2>2, <2>3 DEF CutAtEnds
<1>11. seen' = [s \in Sides |-> IF s = a THEN tabs ELSE IF s = b THEN t2 ELSE <<>>]
  BY <1>1, <1>4 DEF b, t2
<1>12. seen' \in [Sides -> Seq(SeenTab)]
  BY <1>8, <1>9, <1>11
<1>13. ASSUME NEW s \in Sides
       PROVE  /\ OfSide(seen'[s], s) /\ Lined(seen'[s], IsReversed(s, rolled'))
              /\ fault' # "misread" => ReadsTrue(seen'[s], s)
              /\ ~CutInside' => CutAtEnds(seen'[s])
              /\ s \notin inView' => seen'[s] = <<>>
  <2>1. CASE s = a
    <3>1. seen'[s] = tabs
      BY <1>11, <2>1
    <3>2. ASSUME ~CutInside', fault' = "partial"  PROVE CutAtEnds(tabs)
      BY <3>1, <3>2 DEF CutInside, CutAtEnds
    <3> QED BY <1>1, <1>9, <2>1, <3>1, <3>2
  <2>2. CASE s = b
    <3>1. seen'[s] = t2
      BY <1>4, <1>11, <2>2 DEF b
    <3> QED BY <1>1, <1>8, <1>10, <2>2, <3>1 DEF b
  <2>3. CASE s # a /\ s # b
    <3>1. seen'[s] = <<>>
      BY <1>11, <2>3
    <3>2. Len(seen'[s]) = 0
      BY <3>1
    <3>3. OfSide(seen'[s], s) /\ ReadsTrue(seen'[s], s) /\ CutAtEnds(seen'[s])
      BY <3>2 DEF OfSide, ReadsTrue, CutAtEnds
    <3>4. \A i \in 1 .. Len(seen'[s]) :
             seen'[s][i].no = IF IsReversed(s, rolled') THEN 0 - i ELSE 0 + i
      BY <3>2
    <3> QED BY <3>1, <3>3, <3>4 DEF Lined
  <2> QED BY <2>1, <2>2, <2>3
<1>14. SeenInv'
  BY <1>12, <1>13 DEF SeenInv
<1>15. inView' \subseteq Sides
  BY <1>1, <1>4
<1>16. (\A s \in Sides : decoded[s] = Nowhere) /\ DOMAIN decoded = Sides /\ Kept = {}
       /\ answer = NoQuad /\ labels \in [Sides -> 0..4]
  BY <1>2 DEF BorderIInv, DecodedInv, LabelsInv
<1>17. DecodedInv'
  <2>1. ASSUME NEW s \in Sides  PROVE DecodesTo(decoded[s], s)'
    <3>1. decoded'[s] = Nowhere
      BY <1>2, <1>16
    <3> QED BY <3>1 DEF DecodesTo, Nowhere, Dropped
  <2> QED BY <2>1, <1>2, <1>16 DEF DecodedInv
<1>18. Kept' = {}
  BY <1>2, <1>16 DEF Kept
<1>19. LabelsInv'
  BY <1>2, <1>16, <1>18 DEF LabelsInv, SidesAreThemselves
<1> QED BY <1>2, <1>14, <1>15, <1>16, <1>17, <1>18, <1>19 DEF BorderIInv, NoLies, NoQuad

\* What the steps after it leave as it was.
FrameStays == UNCHANGED <<rolled, inView, seen, fault>>

LEMMA FrameIsKept ==
  ASSUME SeenInv, FrameStays
  PROVE  SeenInv' /\ CutInside' = CutInside
BY DEF SeenInv, FrameStays, CutInside

(* What is decoded of an edge in view.                                     *)
LEMMA EdgeIsDecoded ==
  ASSUME BorderIInv, FrameStays, NEW s \in Sides, NEW known \in Knowns,
         ~CutInside /\ fault # "misread" => known \in {<<>>, <<s, IsReversed(s, rolled)>>}
  PROVE  /\ DecodesTo(DecodeTabs(seen[s], known), s)
         /\ known # <<>> => DecodeTabs(seen[s], known).side \in {known[1], Dropped}
<1> DEFINE t == seen[s]
           rev == IsReversed(s, rolled)
           d == DecodeTabs(t, known)
<1>1. rev \in BOOLEAN
  BY DEF IsReversed
<1>2. /\ t \in Seq(SeenTab) /\ OfSide(t, s) /\ Lined(t, rev)
      /\ fault # "misread" => ReadsTrue(t, s)
      /\ ~CutInside => CutAtEnds(t)
      /\ s \notin inView => t = <<>>
  BY DEF BorderIInv, SeenInv
<1> HIDE DEF t, rev, d
<1>3. /\ d \in [side : 0..4, points : SUBSET DecodedPoints]
      /\ (d.side = Dropped) = (d.points = {})
      /\ \A pt \in d.points : pt.side = d.side /\ pt.at <= Len(Tabs(pt.side))
      /\ CutAtEnds(t) /\ d.points # {} => Neighbours(d.points)
      /\ CutAtEnds(t) /\ ReadsTrue(t, s) /\ known \in {<<>>, <<s, rev>>} =>
             \A pt \in d.points : pt.side = s /\ pt.at = pt.no
      /\ known # <<>> => d.side \in {known[1], Dropped}
      /\ t = <<>> => d = Nowhere
  BY <1>1, <1>2, DecodeIs DEF d
<1>4. ~CutInside /\ fault # "misread" => \A pt \in d.points : pt.side = s /\ pt.at = pt.no
  BY <1>2, <1>3 DEF rev
<1>5. DecodesTo(d, s)
  BY <1>2, <1>3, <1>4 DEF DecodesTo
<1> QED BY <1>3, <1>5 DEF d, t

LEMMA DecodeKeeps ==
  ASSUME BorderIInv, DecodeEdges  PROVE BorderIInv'
<1>1. /\ FrameStays /\ glance = "seen" /\ glance' = "decoded" /\ labels' = labels /\ answer' = answer
      /\ decoded' = [s \in Sides |-> DecodeTabs(seen[s], <<>>)]
  BY DEF DecodeEdges, FrameStays
<1>2. SeenInv' /\ CutInside' = CutInside
  BY <1>1, FrameIsKept DEF BorderIInv
<1>3. ASSUME NEW s \in Sides  PROVE DecodesTo(decoded[s], s)'
  <2>1. DecodesTo(DecodeTabs(seen[s], <<>>), s)
    BY <1>1, EdgeIsDecoded DEF Knowns
  <2>2. DecodesTo(decoded'[s], s)
    BY <1>1, <2>1
  <2> QED BY <1>1, <1>2, <2>2 DEF DecodesTo, FrameStays
<1>4. DecodedInv'
  BY <1>1, <1>3 DEF DecodedInv
<1>5. Kept' = {} /\ labels' \in [Sides -> 0..4]
  BY <1>1 DEF BorderIInv, LabelsInv, Kept
<1>6. LabelsInv'
  BY <1>1, <1>5 DEF LabelsInv, SidesAreThemselves
<1>7. answer' = NoQuad
  BY <1>1 DEF BorderIInv
<1>8. /\ rolled' \in 0..3 /\ fault' \in {"none"} \cup Faults /\ inView' \subseteq Sides
  BY <1>1 DEF BorderIInv, FrameStays
<1> QED BY <1>1, <1>2, <1>4, <1>5, <1>6, <1>7, <1>8 DEF BorderIInv, NoLies, NoQuad

-----------------------------------------------------------------------------
(* The quarters of roll.                                                   *)
LEMMA Quarters ==
  ASSUME NEW s \in Sides, NEW r \in 0..3
  PROVE  /\ Guess(s, r) \in Sides /\ (Guess(s, r) - s) % 4 = r /\ (Guess(s, r) - r) % 4 = s
         /\ ((Heading(Guess(s, r)) - r) % 4 \in {2, 3}) = IsReversed(s, r)
<1>1. s \in {0, 1, 2, 3} /\ r \in {0, 1, 2, 3}
  BY DEF Sides
<1>2. CASE r = 0  BY <1>1, <1>2 DEF Guess, Heading, IsReversed, Sides
<1>3. CASE r = 1  BY <1>1, <1>3 DEF Guess, Heading, IsReversed, Sides
<1>4. CASE r = 2  BY <1>1, <1>4 DEF Guess, Heading, IsReversed, Sides
<1>5. CASE r = 3  BY <1>1, <1>5 DEF Guess, Heading, IsReversed, Sides
<1> QED BY <1>1, <1>2, <1>3, <1>4, <1>5

(* What was read right tells the roll: every edge that was read votes for  *)
(* it.                                                                     *)
LEMMA ReadEdgesTellTheRoll ==
  ASSUME BorderIInv, ~CutInside, fault # "misread", Read # {}
  PROVE  Turns = {rolled} /\ \A s \in Read : decoded[s].side = s
<1>1. ASSUME NEW s \in Read  PROVE s \in Sides /\ decoded[s].side = s
  <2>1. s \in Sides /\ DecodesTo(decoded[s], s) /\ decoded[s].side # Dropped
    BY DEF Read, BorderIInv, DecodedInv
  <2>2. PICK pt \in decoded[s].points : TRUE
    BY <2>1 DEF DecodesTo
  <2> QED BY <2>1, <2>2 DEF DecodesTo
<1>2. rolled \in 0..3
  BY DEF BorderIInv
<1> DEFINE Votes(q) == Cardinality({s \in Read : (Guess(s, rolled) - decoded[s].side) % 4 = q})
           Along(q) == Votes(q) - Votes((q + 2) % 4)
<1>3. Turns = {q \in 0..3 : Read # {} /\ \A p \in 0..3 : Along(q) >= Along(p)}
  BY DEF Turns
<1>4. \A s \in Read : (Guess(s, rolled) - decoded[s].side) % 4 = rolled
  BY <1>1, <1>2, Quarters
<1>5. Cardinality(Read) \in Nat /\ Cardinality(Read) > 0
  <2>1. IsFiniteSet(Sides) /\ Read \in SUBSET Sides
    <3>1. IsFiniteSet(0..3)
      <4>1. \A a, b \in Int : IsFiniteSet(a..b)
        BY FS_Interval
      <4>2. 0 \in Int /\ 3 \in Int
        OBVIOUS
      <4> QED BY <4>1, <4>2, Zenon
    <3> QED BY <3>1 DEF Sides, Read
  <2>2. IsFiniteSet(Read)
    BY <2>1, FS_Subset
  <2> QED BY <2>2, FS_CardinalityType, FS_EmptySet
<1>6. Votes(rolled) = Cardinality(Read)
  <2>1. {s \in Read : (Guess(s, rolled) - decoded[s].side) % 4 = rolled} = Read
    BY <1>4
  <2> QED BY <2>1
<1>7. \A q : q # rolled => Votes(q) = 0
  <2> SUFFICES ASSUME NEW q, q # rolled PROVE Votes(q) = 0
    OBVIOUS
  <2>1. {s \in Read : (Guess(s, rolled) - decoded[s].side) % 4 = q} = {}
    BY <1>4
  <2> QED BY <2>1, FS_EmptySet
<1> HIDE DEF Votes
<1>8. \A q \in 0..3 : (q + 2) % 4 \in 0..3 /\ (q + 2) % 4 # q
  OBVIOUS
<1>9. Along(rolled) = Cardinality(Read)
  BY <1>2, <1>5, <1>6, <1>7, <1>8
<1>10. ASSUME NEW q \in 0..3, q # rolled  PROVE Along(q) < Cardinality(Read) /\ Along(q) \in Int
  <2>1. Votes(q) = 0
    BY <1>7, <1>10
  <2>2. Votes((q + 2) % 4) \in {0, Cardinality(Read)}
    BY <1>6, <1>7
  <2> QED BY <2>1, <2>2, <1>5
<1> HIDE DEF Along
<1>11. Turns = {rolled}
  <2>1. rolled \in Turns
    BY <1>2, <1>3, <1>5, <1>9, <1>10
  <2>2. \A q \in Turns : q = rolled
    BY <1>2, <1>3, <1>5, <1>9, <1>10
  <2> QED BY <2>1, <2>2
<1> QED BY <1>1, <1>11

(* The edges get their names.                                              *)
LEMMA LabelKeeps ==
  ASSUME BorderIInv, LabelEdges  PROVE BorderIInv'
<1>1. /\ FrameStays /\ glance = "decoded" /\ glance' = "labelled" /\ answer' = answer
  BY DEF LabelEdges, FrameStays
<1>2. PICK th \in IF Turns = {} THEN {<<>>} ELSE {<<q>> : q \in Turns} :
        LET again == [s \in Sides |-> IF s \in inView THEN ReadAgain(s, th) ELSE Nowhere]
            Beats(s, t) ==
                LET n == Cardinality(again[s].points)
                    m == Cardinality(again[t].points)
                IN  n > m \/ (n = m /\ Guess(s, rolled) < Guess(t, rolled))
        IN  /\ decoded' = again
            /\ labels' = [s \in Sides |->
                   IF s \in inView /\ \A t \in inView \ {s} :
                          LabelOf(t, th) = LabelOf(s, th) => Beats(s, t)
                   THEN LabelOf(s, th) ELSE Dropped]
  BY DEF LabelEdges
<1> DEFINE Wins(s) == \A t \in inView \ {s} : LabelOf(t, th) = LabelOf(s, th) =>
                          \/ Cardinality(decoded'[s].points) > Cardinality(decoded'[t].points)
                          \/ /\ Cardinality(decoded'[s].points) = Cardinality(decoded'[t].points)
                             /\ Guess(s, rolled) < Guess(t, rolled)
<1>3. /\ decoded' = [s \in Sides |-> IF s \in inView THEN ReadAgain(s, th) ELSE Nowhere]
      /\ labels' = [s \in Sides |-> IF s \in inView /\ Wins(s) THEN LabelOf(s, th) ELSE Dropped]
  BY <1>2
<1>4. th = <<>> \/ \E q \in Turns : th = <<q>>
  BY <1>2
<1>5. Turns \subseteq 0..3 /\ (Read = {} => th = <<>>)
  BY <1>2 DEF Turns
<1>6. rolled \in 0..3 /\ SeenInv /\ DecodedInv
  BY DEF BorderIInv
<1> DEFINE Good == ~CutInside /\ fault # "misread"
           Dir(s) == (Heading(Guess(s, rolled)) - th[1]) % 4 \in {2, 3}
<1> HIDE DEF Wins
<1>7. Good /\ Read # {} => /\ th = <<rolled>>
                          /\ \A s \in Sides : LabelOf(s, th) = s /\ Dir(s) = IsReversed(s, rolled)
  <2> SUFFICES ASSUME Good, Read # {}
               PROVE  /\ th = <<rolled>>
                      /\ \A s \in Sides : LabelOf(s, th) = s /\ Dir(s) = IsReversed(s, rolled)
    OBVIOUS
  <2>1. Turns = {rolled} /\ \A s \in Read : decoded[s].side = s
    BY ReadEdgesTellTheRoll
  <2>2. th = <<rolled>>
    BY <1>2, <2>1
  <2>3. ASSUME NEW s \in Sides
        PROVE  LabelOf(s, th) = s /\ Dir(s) = IsReversed(s, rolled)
    BY <1>6, <2>1, <2>2, <2>3, Quarters DEF LabelOf
  <2> QED BY <2>2, <2>3
<1>8. ASSUME NEW s \in Sides  PROVE LabelOf(s, th) \in Sides
  <2>1. CASE s \in Read
    BY <2>1, <1>6 DEF LabelOf, Read, DecodedInv, DecodesTo, Sides, Dropped
  <2>2. CASE s \notin Read /\ th = <<>>
    <3>1. LabelOf(s, th) = (Guess(s, rolled) - 0) % 4
      BY <2>2 DEF LabelOf
    <3> QED BY <3>1, <1>6, Quarters DEF Sides
  <2>3. CASE s \notin Read /\ th # <<>>
    <3>1. PICK q \in 0..3 : th = <<q>>
      BY <2>3, <1>4, <1>5
    <3>2. LabelOf(s, th) = (Guess(s, rolled) - q) % 4
      BY <2>3, <3>1 DEF LabelOf
    <3> QED BY <3>2, <1>6, Quarters DEF Sides
  <2> QED BY <2>1, <2>2, <2>3
<1> DEFINE known(s) == <<LabelOf(s, th), Dir(s)>>
<1>9. ASSUME NEW s \in Sides, s \notin Read, th # <<>>
      PROVE  /\ ReadAgain(s, th) = DecodeTabs(seen[s], known(s)) /\ known(s) \in Knowns
             /\ DecodesTo(ReadAgain(s, th), s)
             /\ ReadAgain(s, th).side \in {LabelOf(s, th), Dropped}
  <2>1. ReadAgain(s, th) = DecodeTabs(seen[s], known(s))
    BY <1>9 DEF ReadAgain
  <2>2. known(s) \in Knowns /\ known(s) # <<>> /\ known(s)[1] = LabelOf(s, th)
    <3>1. Dir(s) \in BOOLEAN /\ LabelOf(s, th) \in Sides
      BY <1>8, <1>9
    <3> HIDE DEF Dir
    <3>2. <<LabelOf(s, th), Dir(s)>> \in Sides \X BOOLEAN
      BY <3>1
    <3> QED BY <3>2 DEF Knowns
  <2>3. Good => known(s) = <<s, IsReversed(s, rolled)>>
    BY <1>5, <1>7, <1>9
  <2> HIDE DEF known
  <2>4. /\ DecodesTo(DecodeTabs(seen[s], known(s)), s)
        /\ DecodeTabs(seen[s], known(s)).side \in {LabelOf(s, th), Dropped}
    BY <1>1, <2>2, <2>3, EdgeIsDecoded
  <2> QED BY <2>1, <2>2, <2>4
<1>10. ASSUME NEW s \in Sides  PROVE DecodesTo(decoded'[s], s)
  <2>1. CASE s \notin inView
    BY <1>3, <2>1 DEF DecodesTo, Nowhere, Dropped
  <2>2. CASE s \in inView /\ (s \in Read \/ th = <<>>)
    BY <1>3, <1>6, <2>2 DEF ReadAgain, DecodedInv
  <2>3. CASE s \in inView /\ ~(s \in Read \/ th = <<>>)
    BY <1>3, <1>9, <2>3
  <2> QED BY <2>1, <2>2, <2>3
<1>11. SeenInv' /\ CutInside' = CutInside
  BY <1>1, <1>6, FrameIsKept
<1>12. DecodedInv'
  <2>1. ASSUME NEW s \in Sides  PROVE DecodesTo(decoded[s], s)'
    BY <1>1, <1>10, <1>11 DEF DecodesTo, FrameStays
  <2> QED BY <2>1, <1>3 DEF DecodedInv
<1>13. labels' \in [Sides -> 0..4]
  BY <1>3, <1>8 DEF Sides, Dropped
<1>14. /\ Kept' \subseteq inView'
       /\ \A s \in Kept' : s \in Sides /\ s \in inView /\ labels'[s] = LabelOf(s, th)
  BY <1>1, <1>3 DEF Kept, FrameStays
<1>15. ASSUME NEW s \in Kept', decoded'[s].points # {}  PROVE labels'[s] = decoded'[s].side
  <2>1. DecodesTo(decoded'[s], s) /\ decoded'[s].side # Dropped
    BY <1>10, <1>14, <1>15 DEF DecodesTo
  <2>2. decoded'[s] = ReadAgain(s, th) /\ labels'[s] = LabelOf(s, th)
    BY <1>3, <1>14
  <2>3. CASE s \in Read
    BY <2>2, <2>3 DEF ReadAgain, LabelOf
  <2>4. CASE s \notin Read /\ th = <<>>
    <3>1. decoded'[s] = decoded[s] /\ decoded[s].side = Dropped
      BY <1>14, <2>2, <2>4 DEF ReadAgain, Read
    <3> QED BY <2>1, <3>1
  <2>5. CASE s \notin Read /\ th # <<>>
    BY <1>9, <1>14, <2>1, <2>2, <2>5
  <2> QED BY <2>3, <2>4, <2>5
<1>16. ASSUME Good, \E s \in Sides : decoded'[s].side # Dropped
       PROVE  \A s \in inView : labels'[s] = s
  <2>1. Read # {}
    <3> SUFFICES ASSUME Read = {}, NEW s \in Sides PROVE decoded'[s].side = Dropped
      BY <1>16
    <3>1. th = <<>>
      BY <1>5
    <3>2. decoded'[s] = decoded[s] \/ decoded'[s] = Nowhere
      BY <1>3, <3>1 DEF ReadAgain
    <3> QED BY <3>2 DEF Read, Nowhere
  <2>2. \A s \in Sides : LabelOf(s, th) = s
    BY <1>7, <1>16, <2>1
  <2>3. inView \subseteq Sides
    BY DEF BorderIInv
  <2>4. \A s \in inView : Wins(s)
    BY <2>2, <2>3 DEF Wins
  <2> QED BY <1>3, <2>2, <2>3, <2>4
<1>17. SidesAreThemselves'
  BY <1>1, <1>11, <1>16 DEF SidesAreThemselves, FrameStays
<1>18. LabelsInv'
  BY <1>13, <1>14, <1>15, <1>17 DEF LabelsInv
<1>19. answer' = NoQuad
  BY <1>1 DEF BorderIInv
<1>20. /\ rolled' \in 0..3 /\ fault' \in {"none"} \cup Faults /\ inView' \subseteq Sides
  BY <1>1 DEF BorderIInv, FrameStays
<1> QED BY <1>1, <1>11, <1>12, <1>18, <1>19, <1>20 DEF BorderIInv, NoLies, NoQuad

-----------------------------------------------------------------------------
(* No wrong name of the sides lands two tabs beside each other.            *)
LEMMA WrongNamesMiss ==
  ASSUME NEW s \in Sides, NEW q \in 1..3,
         NEW n1 \in 1..9, NEW n2 \in 1..9, n1 - n2 \in {-1, 1},
         NEW a1 \in 1..9, NEW a2 \in 1..9, a1 - a2 \in {-1, 1},
         NEW d1, d1 = TurnedTo(s, q, Centre(s, n1)) - Centre((s + q) % 4, a1),
         NEW d2, d2 = TurnedTo(s, q, Centre(s, n2)) - Centre((s + q) % 4, a2),
         d1 < 20, d1 > -20, d2 < 20, d2 > -20
  PROVE  FALSE
<1>1. s \in {0, 1, 2, 3} /\ q \in {1, 2, 3}
  BY DEF Sides
<1>2. CASE q = 1
  <2>1. CASE s \in {0, 2}
    BY <1>2, <2>1 DEF TurnedTo, Centre, IsReversed, Heading
  <2>2. CASE s \in {1, 3}
    BY <1>2, <2>2 DEF TurnedTo, Centre, IsReversed, Heading
  <2> QED BY <1>1, <2>1, <2>2
<1>3. CASE q = 2
  <2>1. CASE s \in {0, 2}
    BY <1>3, <2>1 DEF TurnedTo, Centre, IsReversed, Heading
  <2>2. CASE s \in {1, 3}
    BY <1>3, <2>2 DEF TurnedTo, Centre, IsReversed, Heading
  <2> QED BY <1>1, <2>1, <2>2
<1>4. CASE q = 3
  <2>1. CASE s \in {0, 2}
    BY <1>4, <2>1 DEF TurnedTo, Centre, IsReversed, Heading
  <2>2. CASE s \in {1, 3}
    BY <1>4, <2>2 DEF TurnedTo, Centre, IsReversed, Heading
  <2> QED BY <1>1, <2>1, <2>2
<1> QED BY <1>1, <1>2, <1>3, <1>4

(* Corners of four lines that land the tabs are the screen's.              *)
LEMMA LandedIsTrue ==
  ASSUME BorderIInv, ~CutInside, Kept = Sides, Points # {}, NEW q \in 0..3, FitTurned(q)
  PROVE  True(Sides)
<1> DEFINE Pt(s, pt) == [of |-> s, no |-> pt.no, side |-> pt.side, at |-> pt.at]
<1>1. /\ \A s \in Sides : labels[s] = (s + q) % 4
      /\ \A pt \in Points :
           LET off == TurnedTo(pt.of, q, Centre(pt.of, pt.no)) - Centre(pt.side, pt.at)
           IN  off < 20 /\ off > -20
  BY DEF FitTurned
<1>2. Points = UNION {{Pt(s, pt) : pt \in decoded[s].points} : s \in Sides}
  BY DEF Points
<1>3. ASSUME NEW s \in Sides, NEW pt \in decoded[s].points
      PROVE  /\ pt.no \in 1..9 /\ pt.at \in 1..9 /\ pt.side = (s + q) % 4
             /\ Neighbours(decoded[s].points)
             /\ LET off == TurnedTo(s, q, Centre(s, pt.no)) - Centre((s + q) % 4, pt.at)
                IN  off < 20 /\ off > -20
  <2>1. DecodesTo(decoded[s], s) /\ decoded[s].points # {}
    BY <1>3 DEF BorderIInv, DecodedInv
  <2>2. pt \in DecodedPoints /\ pt.side = decoded[s].side /\ Neighbours(decoded[s].points)
    BY <2>1 DEF DecodesTo
  <2>3. labels[s] = decoded[s].side
    BY <2>1 DEF BorderIInv, LabelsInv
  <2>4. Pt(s, pt) \in Points
    BY <1>2
  <2>5. /\ Pt(s, pt).of = s /\ Pt(s, pt).no = pt.no /\ Pt(s, pt).side = pt.side
        /\ Pt(s, pt).at = pt.at
    OBVIOUS
  <2> HIDE DEF Pt
  <2>6. pt.side = (s + q) % 4
    BY <1>1, <2>2, <2>3
  <2> QED BY <1>1, <2>2, <2>4, <2>5, <2>6 DEF DecodedPoints
<1>4. PICK s \in Sides : decoded[s].points # {}
  BY <1>2
<1>5. q = 0
  <2> SUFFICES ASSUME q # 0 PROVE FALSE
    OBVIOUS
  <2>1. PICK p \in decoded[s].points, r \in decoded[s].points :
           p.no - r.no \in {-1, 1} /\ p.at - r.at \in {-1, 1}
    BY <1>3, <1>4 DEF Neighbours
  <2>2. q \in 1..3
    OBVIOUS
  <2> QED BY <1>3, <2>1, <2>2, WrongNamesMiss
<1>6. ASSUME NEW z \in Sides, NEW p \in decoded[z].points
      PROVE  p.side = z /\ p.at = p.no
  <2>1. (z + q) % 4 = z
    BY <1>5 DEF Sides
  <2>2. TurnedTo(z, q, Centre(z, p.no)) = Centre(z, p.no)
    BY <1>5 DEF TurnedTo, IsReversed, Heading, Sides
  <2>3. Centre(z, p.no) - Centre(z, p.at) < 20 /\ Centre(z, p.no) - Centre(z, p.at) > -20
    BY <1>3, <2>1, <2>2
  <2>4. p.no \in Int /\ p.at \in Int /\ p.side = z
    BY <1>3, <2>1
  <2>5. p.at = p.no
    BY <2>3, <2>4 DEF Centre
  <2> QED BY <2>4, <2>5
<1>7. \A z \in Sides : labels[z] = z
  BY <1>1, <1>5 DEF Sides
<1>8. \A p \in Points : p.side = p.of /\ p.at = p.no
  BY <1>2, <1>6
<1> QED BY <1>7, <1>8 DEF True

(* Where every symbol that was read is right, so are names and places.     *)
LEMMA ReadRightIsTrue ==
  ASSUME BorderIInv, glance = "labelled", ~CutInside, fault # "misread", Points # {},
         NEW K, K \subseteq Kept
  PROVE  True(K)
<1>1. PICK s \in Kept : decoded[s].points # {}
  BY DEF Points
<1>2. Kept \subseteq Sides /\ Kept \subseteq inView
  BY DEF Kept, BorderIInv, LabelsInv
<1>3. \A z \in Sides : DecodesTo(decoded[z], z)
  BY DEF BorderIInv, DecodedInv
<1>4. decoded[s].side # Dropped
  BY <1>1, <1>2, <1>3 DEF DecodesTo
<1>5. \A z \in Kept : labels[z] = z
  BY <1>1, <1>2, <1>4 DEF BorderIInv, LabelsInv, SidesAreThemselves
<1>6. ASSUME NEW z \in Kept, NEW pt \in decoded[z].points  PROVE pt.side = z /\ pt.at = pt.no
  BY <1>2, <1>3 DEF DecodesTo
<1>7. \A p \in Points : p.side = p.of /\ p.at = p.no
  BY <1>6 DEF Points
<1> QED BY <1>5, <1>7 DEF True

(* The corners.                                                            *)
LEMMA SolveKeeps ==
  ASSUME BorderIInv, Solve  PROVE BorderIInv'
<1>1. /\ FrameStays /\ decoded' = decoded /\ labels' = labels
      /\ glance = "labelled" /\ glance' = "solved"
  BY DEF Solve, FrameStays
<1>2. PICK thin \in SUBSET {s \in Kept : PerSide(s) = 0} :
        \/ answer' = NoQuad
        \/ /\ Kept = Sides
           /\ thin # {} \/ \E q \in 0..3 : FitTurned(q)
           /\ answer' = Quad("lines", Sides, thin)
        \/ answer' = Quad("fit", Kept \ thin, thin)
  BY DEF Solve
<1>3. SeenInv' /\ CutInside' = CutInside
  BY <1>1, FrameIsKept DEF BorderIInv
<1>4. DecodedInv'
  BY <1>1, <1>3 DEF BorderIInv, DecodedInv, DecodesTo, FrameStays
<1>5. LabelsInv'
  BY <1>1, <1>3 DEF BorderIInv, LabelsInv, SidesAreThemselves, Kept, FrameStays
<1>6. answer'.by \in {"none", "lines", "fit"} /\ answer'.corners \in {"none", "right", "wrong"}
  BY <1>2 DEF NoQuad, Quad
<1>7. ASSUME answer'.corners = "wrong", answer'.tabs > 0, ~CutInside,
             answer'.lines \cap answer'.thin = {}
      PROVE  answer'.by = "fit" /\ fault = "misread"
  <2>1. answer' # NoQuad
    BY <1>7 DEF NoQuad
  <2>2. PICK by \in {"lines", "fit"}, K \in SUBSET Kept : answer' = Quad(by, K, thin)
    BY <1>2, <2>1
  <2>3. K \cap thin = {} /\ ~True(K) /\ Cardinality(Points) > 0 /\ answer'.by = by
    BY <1>7, <2>2 DEF Quad
  <2>4. Points # {}
    BY <2>3, FS_EmptySet
  <2>5. fault = "misread"
    BY <1>1, <1>7, <2>3, <2>4, ReadRightIsTrue
  <2>6. CASE by = "lines"
    <3>1. /\ Kept = Sides /\ answer' = Quad("lines", Sides, thin)
          /\ thin # {} \/ \E q \in 0..3 : FitTurned(q)
      BY <1>2, <2>1, <2>3, <2>6 DEF Quad
    <3>2. Sides \cap thin = {} /\ ~True(Sides)
      BY <1>7, <3>1 DEF Quad
    <3>3. thin = {}
      BY <3>1, <3>2
    <3> QED BY <1>7, <2>4, <3>1, <3>2, <3>3, LandedIsTrue
  <2> QED BY <2>2, <2>3, <2>5, <2>6
<1>8. NoLies'
  BY <1>1, <1>3, <1>7 DEF NoLies, FrameStays
<1>9. /\ rolled' \in 0..3 /\ fault' \in {"none"} \cup Faults /\ inView' \subseteq Sides
  BY <1>1 DEF BorderIInv, FrameStays
<1> QED BY <1>1, <1>3, <1>4, <1>5, <1>6, <1>8, <1>9 DEF BorderIInv

LEMMA BorderKeeps ==
  ASSUME BorderIInv, [BorderNext]_borderVars  PROVE BorderIInv'
<1>1. CASE SeeBorder
  BY <1>1, SeeKeeps
<1>2. CASE DecodeEdges
  BY <1>2, DecodeKeeps
<1>3. CASE LabelEdges
  BY <1>3, LabelKeeps
<1>4. CASE Solve
  BY <1>4, SolveKeeps
<1>5. CASE AnotherFrame
  <2>1. BorderInit'
    BY <1>5 DEF AnotherFrame, BorderInit
  <2> QED BY <2>1, FreshBorder, PTL
<1>6. CASE UNCHANGED borderVars
  BY <1>6 DEF borderVars, BorderIInv, SeenInv, DecodedInv, DecodesTo, LabelsInv, Kept, CutInside,
              SidesAreThemselves, NoLies
<1> QED BY <1>1, <1>2, <1>3, <1>4, <1>5, <1>6 DEF BorderNext

LEMMA ReadingIsRight ==
  ASSUME BorderIInv  PROVE BorderInv
<1>1. \A s \in Sides : DecodesTo(decoded[s], s)
  BY DEF BorderIInv, DecodedInv
<1>2. TabsAreThemselves
  BY <1>1 DEF TabsAreThemselves, DecodesTo
<1>3. ASSUME NEW s \in Sides
      PROVE  /\ labels[s] \in Sides \cup {Dropped}
             /\ decoded[s].side \in Sides \cup {Dropped}
             /\ (decoded[s].side = Dropped) = (decoded[s].points = {})
             /\ \A pt \in decoded[s].points : pt.at \in DOMAIN Tabs(pt.side)
  <2>1. labels[s] \in 0..4 /\ decoded[s].side \in 0..4
    BY <1>1 DEF BorderIInv, LabelsInv, DecodesTo
  <2>2. ASSUME NEW pt \in decoded[s].points  PROVE pt.at \in DOMAIN Tabs(pt.side)
    <3>1. pt \in DecodedPoints /\ pt.at <= Len(Tabs(pt.side))
      BY <1>1 DEF DecodesTo
    <3> QED BY <3>1, TabsHave DEF DecodedPoints
  <2> QED BY <1>1, <2>1, <2>2 DEF DecodesTo, Sides, Dropped
<1>4. BorderTypeOK
  BY <1>3 DEF BorderTypeOK, BorderIInv, LabelsInv
<1> QED BY <1>2, <1>4 DEF BorderInv, BorderIInv, LabelsInv

(* Whichever tabs of whichever edges are in view, at whatever roll, and    *)
(* whichever fault one of them has: a tab that is placed is placed where   *)
(* it is unless a symbol was misread (decode_tabs, identify, locate), the  *)
(* edges get their own names from one that is read (Report::solve), and    *)
(* four lines whose corners land the tabs are the screen's also when a     *)
(* symbol was misread (sane_quad).                                         *)
THEOREM BorderIsRight == Spec => []BorderInv
<1>1. Init => BorderIInv
  <2>1. Init => BorderInit
    BY Zenon DEF Init
  <2> QED BY <2>1, FreshBorder
<1>2. [Next]_vars => [BorderNext]_borderVars
  BY DEF Next, Talk, FlashGun, Calibrate, Transmit, Draw, Display, Point, ShowPreview, FindBorder,
         TakeTurns, vars
<1>3. BorderIInv /\ [Next]_vars => BorderIInv'
  BY <1>2, BorderKeeps
<1>4. BorderIInv => BorderInv
  BY ReadingIsRight
<1> QED
  BY <1>1, <1>3, <1>4, PTL DEF Spec

-----------------------------------------------------------------------------
News == [size : WindowSizes \cup {None}, exposed : BOOLEAN, restacked : BOOLEAN,
         closed : BOOLEAN]

(* What the loop believes of its window, between two rounds and while it   *)
(* pumps; while it presents, it knows better than to believe anything.     *)
BeliefInv ==
  /\ news \in News
  /\ drawing = "closed" => glass = last
  /\ Alive => winSize \in WindowSizes
  /\ drawing = "pumping" => sized = winSize
  /\ drawing \in {"top", "pumping"} /\ ~news.exposed /\ last.size = winSize => glass = last

LEMMA NoNewsIsNews == NoNews \in News /\ ~NoNews.exposed
BY DEF NoNews, News

LEMMA BeliefBegins == OverlayInit => BeliefInv
BY NoNewsIsNews DEF OverlayInit, BeliefInv, Alive

LEMMA OpeningKeeps == BeliefInv /\ OpenWindow => BeliefInv'
<1> SUFFICES ASSUME BeliefInv, OpenWindow PROVE BeliefInv'
    OBVIOUS
<1>1. /\ drawing = "closed" /\ drawing' = IF system' = None THEN "failed" ELSE "top"
      /\ system' # None => winSize' \in WindowSizes
      /\ UNCHANGED <<last, glass, news>>
  BY DEF OpenWindow, localVars
<1> QED
  BY <1>1 DEF BeliefInv, Alive

LEMMA OutsideKeeps ==
  ASSUME BeliefInv, ChangeScene \/ FlashEnds \/ StopAll \/ TimePasses \/ Resized \/ Exposed
                    \/ Covered \/ ClosedByServer \/ \E i \in DOMAIN shm : Releases(i)
  PROVE  BeliefInv'
<1>1. CASE ChangeScene \/ FlashEnds \/ StopAll \/ TimePasses \/ \E i \in DOMAIN shm : Releases(i)
  <2>1. UNCHANGED <<drawing, news, glass, last, winSize, sized>>
    BY <1>1 DEF ChangeScene, FlashEnds, StopAll, TimePasses, Releases, localVars, windowVars
  <2> QED
    BY <2>1 DEF BeliefInv, Alive
<1>2. CASE Resized \/ Covered \/ ClosedByServer
  <2>1. news' \in News /\ news'.exposed = news.exposed
    BY <1>2 DEF Resized, Covered, ClosedByServer, BeliefInv, News
  <2>2. UNCHANGED <<drawing, glass, last, winSize, sized>>
    BY <1>2 DEF Resized, Covered, ClosedByServer, Happens, localVars
  <2> QED
    BY <2>1, <2>2 DEF BeliefInv, Alive
<1>3. CASE Exposed
  <2>1. news' \in News /\ news'.exposed
    BY <1>3 DEF Exposed, BeliefInv, News
  <2>2. Alive /\ UNCHANGED <<drawing, last, winSize, sized>>
    BY <1>3 DEF Exposed, Happens, localVars
  <2> QED
    BY <2>1, <2>2 DEF BeliefInv, Alive
<1> QED
  BY <1>1, <1>2, <1>3

(* A round that does not draw leaves what was drawn before, and that is    *)
(* what would have been drawn.                                             *)
LEMMA PumpKeeps == ASSUME BeliefInv, Pump PROVE BeliefInv'
<1> DEFINE told   == IF news.size = None THEN winSize ELSE news.size
           redraw == told # winSize \/ news.exposed
           now    == [of |-> cur, size |-> sized]
<1>1. /\ drawing = "pumping" /\ winSize' = told /\ news' = NoNews
      /\ drawing' = IF MustDraw(redraw, now) /\ sized # Unsized THEN "presenting" ELSE "top"
      /\ UNCHANGED <<sized, last, glass>>
  BY DEF Pump, localVars
<1>2. sized = winSize /\ winSize \in WindowSizes /\ sized # Unsized /\ told \in WindowSizes
  BY <1>1, OverlayAssumption DEF BeliefInv, Alive, News
<1>3. CASE MustDraw(redraw, now)
  BY <1>1, <1>2, <1>3, NoNewsIsNews DEF BeliefInv, Alive
<1>4. CASE ~MustDraw(redraw, now)
  <2>1. drawing' = "top" /\ told = winSize /\ ~news.exposed
    BY <1>1, <1>2, <1>4 DEF MustDraw
  <2> QED
    BY <1>1, <1>2, <2>1, NoNewsIsNews DEF BeliefInv, Alive
<1> QED
  BY <1>3, <1>4

LEMMA PresentingKeeps ==
  ASSUME BeliefInv, PresentX11 \/ PresentMac \/ PresentWayland
  PROVE  BeliefInv'
<1>1. /\ drawing = "presenting" /\ drawing' = "top" /\ last' = [of |-> cur, size |-> sized]
      /\ glass' = Picture /\ UNCHANGED <<sized, winSize, news>>
  BY DEF PresentX11, PresentMac, PresentWayland, Presented
<1>2. last'.size = winSize' => glass' = last'
  BY <1>1 DEF Picture
<1> QED
  BY <1>1, <1>2 DEF BeliefInv, Alive

LEMMA BeliefKeeps == BeliefInv /\ [OverlayNext]_overlayVars => BeliefInv'
<1> SUFFICES ASSUME BeliefInv, [OverlayNext]_overlayVars PROVE BeliefInv'
    OBVIOUS
<1>1. CASE LookAtScene
  BY <1>1 DEF LookAtScene, windowVars, BeliefInv, Alive
<1>2. CASE StopDrawing \/ WindowGone \/ PresentFails
  <2>1. drawing' \in {"ended", "failed"} /\ UNCHANGED news
    BY <1>2 DEF StopDrawing, WindowGone, PresentFails, Finish
  <2> QED
    BY <2>1 DEF BeliefInv, Alive
<1>3. CASE UNCHANGED overlayVars
  BY <1>3 DEF overlayVars, localVars, windowVars, BeliefInv, Alive
<1> QED
  BY <1>1, <1>2, <1>3, OpeningKeeps, OutsideKeeps, PumpKeeps, PresentingKeeps
     DEF OverlayNext, LoopSteps

USE OverlayAssumption

Buffers == [shows : Scenes, sent : Scenes, busy : BOOLEAN, size : WindowSizes \cup {Unsized}]
Drawn   == [of : Scenes, size : WindowSizes]

(* The types, with what a presenting round and a closed window are sure of.*)
OverlayTyped ==
  /\ system \in {None, "x11", "wayland", "macos"}
  /\ drawing \in {"closed", "top", "pumping", "presenting", "ended", "failed"}
  /\ owner \in {"run", "run_until"} /\ stopped \in BOOLEAN
  /\ scene \in Scenes /\ cur \in Scenes
  /\ drawing = "closed" => scene = [shows |-> "border", flash |-> "no"]
  /\ sized \in WindowSizes \cup {Unsized} /\ winSize \in WindowSizes \cup {Unsized}
  /\ drawing = "presenting" => sized \in WindowSizes
  /\ last \in {None} \cup Drawn /\ glass \in {None} \cup Drawn
  /\ news \in [size : WindowSizes \cup {Unsized, None}, exposed : BOOLEAN,
               restacked : BOOLEAN, closed : BOOLEAN]
  /\ shm \in Seq(Buffers) /\ Len(shm) <= MaxHeld
  /\ covered \in BOOLEAN /\ sinceRaise \in {"just", "while", "long"}
  /\ scenes \in 0..MaxScenes /\ happenings \in 0..MaxNews

BuffersKept == \A i \in 1..Len(shm) : shm[i].busy => shm[i].shows = shm[i].sent

DrawInv == OverlayTyped /\ BuffersKept

LEMMA ScenesAre ==
  /\ [shows |-> "border", flash |-> "no"] \in Scenes
  /\ [shows |-> "targets", flash |-> "no"] \in Scenes
  /\ \A s \in Scenes : Now(s) \in Scenes
  /\ \A s \in Scenes : s.flash = "on" => [s EXCEPT !.flash = "over"] \in Scenes
  /\ \A o \in {"run", "run_until"} : ScenesOf[o] \subseteq Scenes
<1>1. \A s \in Scenes : Now(s) \in Scenes
  BY DEF Now, Scenes
<1>2. \A s \in Scenes : s.flash = "on" => [s EXCEPT !.flash = "over"] \in Scenes
  BY DEF Scenes
<1>3. \A o \in {"run", "run_until"} : ScenesOf[o] \subseteq Scenes
  BY DEF ScenesOf
<1> QED
  BY <1>1, <1>2, <1>3 DEF Scenes

LEMMA DrawBegins == OverlayInit => DrawInv
<1> SUFFICES ASSUME OverlayInit PROVE DrawInv
  OBVIOUS
<1>1. NoNews \in [size : WindowSizes \cup {Unsized, None}, exposed : BOOLEAN,
                  restacked : BOOLEAN, closed : BOOLEAN]
  BY DEF NoNews
<1>2. shm \in Seq(Buffers) /\ Len(shm) = 0 /\ Len(shm) <= MaxHeld
  BY DEF OverlayInit
<1>3. scenes \in 0..MaxScenes /\ happenings \in 0..MaxNews
  BY DEF OverlayInit
<1>4. /\ system = None /\ drawing = "closed" /\ owner = "run_until" /\ stopped = FALSE
      /\ scene = [shows |-> "border", flash |-> "no"] /\ cur = scene /\ sized = Unsized
      /\ winSize = Unsized /\ last = None /\ glass = None /\ news = NoNews
      /\ covered = FALSE /\ sinceRaise = "just"
  BY DEF OverlayInit
<1>5. OverlayTyped
  BY <1>1, <1>2, <1>3, <1>4, ScenesAre DEF OverlayTyped
<1> QED
  BY <1>2, <1>5 DEF DrawInv, BuffersKept

LEMMA OpenDraws == ASSUME DrawInv, OpenWindow PROVE DrawInv'
<1>1. /\ drawing = "closed" /\ owner' \in {"run", "run_until"}
      /\ scene' = [scene EXCEPT !.shows = IF owner' = "run" THEN "targets" ELSE "border"]
      /\ drawing' = IF system' = None THEN "failed" ELSE "top"
      /\ stopped' = (drawing' = "failed" /\ owner' = "run")
      /\ UNCHANGED <<cur, sized, last, glass, shm, covered, sinceRaise, news, scenes, happenings>>
  BY DEF OpenWindow, localVars
<1>2. system' \in {None, "x11", "wayland", "macos"} /\ winSize' \in WindowSizes \cup {Unsized}
  <2>1. PICK available \in SUBSET {"x11", "wayland", "macos"},
             works \in SUBSET {"x11", "wayland", "macos"}, s \in WindowSizes :
               /\ system' = OpenOn(available, works)
               /\ winSize' = IF system' = None THEN Unsized ELSE s
    BY DEF OpenWindow
  <2>2. OpenOn(available, works) \in {None, "x11", "wayland", "macos"}
    BY DEF OpenOn
  <2> QED
    BY <2>1, <2>2
<1>3. scene' \in Scenes
  <2>1. scene' = [shows |-> "targets", flash |-> "no"] \/ scene' = [shows |-> "border", flash |-> "no"]
    BY <1>1 DEF DrawInv, OverlayTyped
  <2> QED
    BY <2>1, ScenesAre
<1> QED
  BY <1>1, <1>2, <1>3 DEF DrawInv, OverlayTyped, BuffersKept

LEMMA OutsideDraws ==
  ASSUME DrawInv, ChangeScene \/ FlashEnds \/ StopAll \/ TimePasses
  PROVE  DrawInv'
<1>1. /\ UNCHANGED <<system, drawing, owner, cur, sized, last, winSize, glass, shm, news, happenings>>
      /\ covered' = covered /\ sinceRaise' \in {"just", "while", "long"}
  BY DEF ChangeScene, FlashEnds, StopAll, TimePasses, localVars, windowVars, outsideVars, DrawInv,
         OverlayTyped
<1>2. scene' \in Scenes /\ scenes' \in 0..MaxScenes /\ stopped' \in BOOLEAN
  <2>1. CASE ChangeScene
    <3>1. scene' \in ScenesOf[owner] /\ scenes < MaxScenes /\ scenes' = scenes + 1 /\ stopped' = stopped
      BY <2>1 DEF ChangeScene
    <3>2. scenes \in 0..MaxScenes
      BY DEF DrawInv, OverlayTyped
    <3>3. scenes' \in 0..MaxScenes
      BY <3>1, <3>2
    <3> QED
      BY <3>1, <3>3, ScenesAre DEF DrawInv, OverlayTyped
  <2>2. CASE FlashEnds
    BY <2>2, ScenesAre DEF FlashEnds, DrawInv, OverlayTyped
  <2>3. CASE StopAll \/ TimePasses
    BY <2>3 DEF StopAll, TimePasses, outsideVars, DrawInv, OverlayTyped
  <2> QED
    BY <2>1, <2>2, <2>3
<1>3. drawing = "closed" => scene' = scene
  BY DEF ChangeScene, FlashEnds, StopAll, TimePasses, DrawInv, OverlayTyped, outsideVars
<1> QED
  BY <1>1, <1>2, <1>3 DEF DrawInv, OverlayTyped, BuffersKept

LEMMA WindowDraws ==
  ASSUME DrawInv, Resized \/ Exposed \/ Covered \/ ClosedByServer
  PROVE  DrawInv'
<1>1. /\ UNCHANGED <<system, drawing, owner, stopped, cur, sized, last, winSize, shm, sinceRaise,
                     scene, scenes>>
      /\ happenings < MaxNews /\ happenings' = happenings + 1
      /\ covered' \in BOOLEAN /\ glass' \in {None} \cup Drawn
  BY DEF Resized, Exposed, Covered, ClosedByServer, Happens, localVars, DrawInv, OverlayTyped
<1>2. happenings' \in 0..MaxNews
  <2>1. happenings \in 0..MaxNews
    BY DEF DrawInv, OverlayTyped
  <2> QED
    BY <1>1, <2>1
<1>3. news' \in [size : WindowSizes \cup {Unsized, None}, exposed : BOOLEAN,
                 restacked : BOOLEAN, closed : BOOLEAN]
  BY DEF Resized, Exposed, Covered, ClosedByServer, DrawInv, OverlayTyped
<1> QED
  BY <1>1, <1>2, <1>3 DEF DrawInv, OverlayTyped, BuffersKept

LEMMA ReleaseDraws == ASSUME DrawInv, NEW i \in DOMAIN shm, Releases(i) PROVE DrawInv'
<1> DEFINE Free(b) == [b EXCEPT !.busy = FALSE]
<1>1. /\ UNCHANGED <<system, drawing, owner, stopped, cur, sized, last, winSize, glass, covered,
                     sinceRaise, news, scene, scenes, happenings>>
  BY DEF Releases, localVars, outsideVars
<1>2. shm' = [shm EXCEPT ![i] = Free(shm[i])]
  BY DEF Releases
<1>3. \A b \in Buffers : Free(b) \in Buffers /\ ~Free(b).busy
  BY DEF Buffers
<1> HIDE DEF Free
<1>4. shm \in Seq(Buffers) /\ i \in 1..Len(shm) /\ shm[i] \in Buffers
  BY DEF DrawInv, OverlayTyped
<1>5. /\ shm' \in Seq(Buffers) /\ Len(shm') = Len(shm)
      /\ \A j \in 1..Len(shm) : shm'[j] = IF j = i THEN Free(shm[i]) ELSE shm[j]
  BY <1>2, <1>3, <1>4
<1>6. BuffersKept'
  BY <1>3, <1>4, <1>5 DEF DrawInv, BuffersKept
<1> QED
  BY <1>1, <1>5, <1>6 DEF DrawInv, OverlayTyped

LEMMA RoundDraws ==
  ASSUME DrawInv, LookAtScene \/ StopDrawing \/ WindowGone \/ PresentFails
  PROVE  DrawInv'
<1>1. CASE LookAtScene
  <2>1. /\ cur' \in Scenes /\ sized' = winSize /\ drawing' = "pumping"
        /\ UNCHANGED <<system, owner, stopped, last, winSize, glass, shm, covered, sinceRaise,
                       news, scene, scenes, happenings>>
    BY <1>1, ScenesAre DEF LookAtScene, windowVars, outsideVars, DrawInv, OverlayTyped
  <2> QED
    BY <2>1 DEF DrawInv, OverlayTyped, BuffersKept
<1>2. CASE StopDrawing \/ WindowGone \/ PresentFails
  <2>1. /\ drawing' \in {"ended", "failed"} /\ stopped' \in BOOLEAN
        /\ glass' = None /\ shm' = <<>>
        /\ UNCHANGED <<system, owner, cur, sized, last, winSize, covered, sinceRaise, news,
                       scene, scenes, happenings>>
    BY <1>2 DEF StopDrawing, WindowGone, PresentFails, Finish, localVars, outsideVars
  <2>2. shm' \in Seq(Buffers) /\ Len(shm') = 0
    BY <2>1
  <2> QED
    BY <2>1, <2>2 DEF DrawInv, OverlayTyped, BuffersKept
<1> QED
  BY <1>1, <1>2

LEMMA PumpDraws == ASSUME DrawInv, BeliefInv, Pump PROVE DrawInv'
<1>1. /\ drawing = "pumping" /\ drawing' \in {"presenting", "top"}
      /\ winSize' = IF news.size = None THEN winSize ELSE news.size
      /\ news' = NoNews /\ covered' \in {FALSE, covered} /\ sinceRaise' \in {"just", sinceRaise}
      /\ UNCHANGED <<system, owner, stopped, cur, sized, last, glass, shm, scene, scenes,
                     happenings>>
  BY DEF Pump, localVars, outsideVars
<1>2. winSize' \in WindowSizes \cup {Unsized}
  BY <1>1 DEF DrawInv, OverlayTyped
<1>3. news' \in [size : WindowSizes \cup {Unsized, None}, exposed : BOOLEAN,
                 restacked : BOOLEAN, closed : BOOLEAN]
  BY <1>1 DEF NoNews
<1>4. sized \in WindowSizes
  BY <1>1 DEF BeliefInv, Alive
<1> QED
  BY <1>1, <1>2, <1>3, <1>4 DEF DrawInv, OverlayTyped, BuffersKept

(* The buffer that is drawn into is one the compositor does not read: one  *)
(* it has released, or a new one.                                          *)
LEMMA BuffersFit ==
  ASSUME DrawInv, winSize \in WindowSizes
  PROVE  LET all == BuffersFor(winSize)
             i == FreeBuffer(all)
             s == IF i = 0 THEN WithNewBuffer(all, winSize) ELSE all
             k == IF i = 0 THEN Len(s) ELSE i
         IN  /\ s \in Seq(Buffers) /\ Len(s) <= MaxHeld /\ k \in 1..Len(s)
             /\ \A j \in 1..Len(s) : s[j].busy => s[j].shows = s[j].sent
             /\ ~s[k].busy
<1> DEFINE all == BuffersFor(winSize)
<1>1. /\ all \in Seq(Buffers) /\ Len(all) \in Nat /\ Len(all) <= MaxHeld
      /\ \A j \in 1..Len(all) : all[j].busy => all[j].shows = all[j].sent
      /\ DOMAIN all = 1..Len(all)
  <2>1. CASE all = shm
    BY <2>1 DEF DrawInv, OverlayTyped, BuffersKept
  <2>2. CASE all = <<>>
    BY <2>2
  <2> QED
    BY <2>1, <2>2 DEF BuffersFor
<1> HIDE DEF all
<1>2. FreeBuffer(all) = 0 \/ (FreeBuffer(all) \in 1..Len(all) /\ ~all[FreeBuffer(all)].busy)
  <2> DEFINE free == {i \in DOMAIN all : ~all[i].busy}
  <2>1. CASE free = {}
    BY <2>1 DEF FreeBuffer
  <2>2. CASE free # {}
    <3>1. free \subseteq Nat
      BY <1>1
    <3>2. \E i \in free : \A j \in free : i <= j
      BY <2>2, <3>1, NatMin
    <3>3. FreeBuffer(all) \in free
      BY <2>2, <3>2 DEF FreeBuffer
    <3> QED
      BY <1>1, <3>3
  <2> QED
    BY <2>1, <2>2
<1>3. CASE FreeBuffer(all) = 0
  <2> DEFINE new  == [shows |-> cur, sent |-> cur, busy |-> FALSE, size |-> winSize]
             kept == IF Len(all) >= MaxHeld THEN Tail(all) ELSE all
  <2>1. new \in Buffers /\ ~new.busy
    BY DEF Buffers, DrawInv, OverlayTyped
  <2>2. WithNewBuffer(all, winSize) = Append(kept, new)
    BY DEF WithNewBuffer
  <2>3. /\ kept \in Seq(Buffers) /\ Len(kept) \in Nat /\ Len(kept) < MaxHeld
        /\ \A j \in 1..Len(kept) : kept[j].busy => kept[j].shows = kept[j].sent
    <3>1. CASE Len(all) >= MaxHeld
      <4>1. all # <<>> /\ Len(all) = MaxHeld
        <5>1. Len(all) = MaxHeld
          <6>1. \A n \in Nat, max \in Nat : n <= max /\ n >= max => n = max
            OBVIOUS
          <6>2. Len(all) \in Nat /\ Len(all) <= MaxHeld
            BY <1>1
          <6> QED
            BY <3>1, <6>1, <6>2
        <5>2. all = <<>> => Len(all) = 0
          OBVIOUS
        <5> QED
          BY <5>1, <5>2
      <4>2. /\ Tail(all) \in Seq(Buffers) /\ Len(Tail(all)) = Len(all) - 1
            /\ \A j \in 1..Len(Tail(all)) : Tail(all)[j] = all[j + 1]
        BY <1>1, <4>1
      <4>3. \A j \in 1..Len(Tail(all)) : j + 1 \in 1..Len(all)
        BY <1>1, <4>2
      <4> QED
        BY <1>1, <3>1, <4>1, <4>2, <4>3
    <3>2. CASE ~(Len(all) >= MaxHeld)
      BY <1>1, <3>2
    <3> QED
      BY <3>1, <3>2
  <2> HIDE DEF new, kept
  <2>4. /\ Append(kept, new) \in Seq(Buffers) /\ Len(Append(kept, new)) = Len(kept) + 1
        /\ \A j \in 1..Len(kept) : Append(kept, new)[j] = kept[j]
        /\ Append(kept, new)[Len(kept) + 1] = new
    BY <2>1, <2>3
  <2>5. \A j \in 1..Len(kept) + 1 : j \in 1..Len(kept) \/ j = Len(kept) + 1
    BY <2>3
  <2> QED
    BY <1>3, <2>1, <2>2, <2>3, <2>4, <2>5 DEF all
<1>4. CASE FreeBuffer(all) # 0
  BY <1>1, <1>2, <1>4 DEF all
<1> QED
  BY <1>3, <1>4

LEMMA PresentDraws ==
  ASSUME DrawInv, BeliefInv, PresentX11 \/ PresentMac \/ PresentWayland
  PROVE  DrawInv'
<1>1. /\ drawing = "presenting" /\ drawing' = "top" /\ last' = [of |-> cur, size |-> sized]
      /\ glass' = Picture /\ covered' \in {FALSE, covered} /\ sinceRaise' \in {"just", sinceRaise}
      /\ UNCHANGED <<system, owner, stopped, cur, sized, winSize, news, scene, scenes, happenings>>
      /\ winSize \in WindowSizes
  BY DEF PresentX11, PresentMac, PresentWayland, Presented, outsideVars, BeliefInv, Alive
<1>2. last' \in Drawn /\ glass' \in {None} \cup Drawn
  BY <1>1 DEF DrawInv, OverlayTyped, Drawn, Picture
<1>3. shm' \in Seq(Buffers) /\ Len(shm') <= MaxHeld /\ BuffersKept'
  <2>1. CASE shm' = shm
    BY <2>1 DEF DrawInv, OverlayTyped, BuffersKept
  <2>2. CASE PresentWayland
    <3> DEFINE all == BuffersFor(winSize)
               i == FreeBuffer(all)
               s == IF i = 0 THEN WithNewBuffer(all, winSize) ELSE all
               k == IF i = 0 THEN Len(s) ELSE i
    <3>1. shm' = [s EXCEPT ![k] = Handed(s[k])]
      BY <2>2 DEF PresentWayland
    <3>2. /\ s \in Seq(Buffers) /\ Len(s) <= MaxHeld /\ k \in 1..Len(s)
          /\ \A j \in 1..Len(s) : s[j].busy => s[j].shows = s[j].sent
          /\ ~s[k].busy
      BY <1>1, BuffersFit
    <3>3. \A b \in Buffers : ~b.busy => Handed(b) \in Buffers /\ Handed(b).shows = Handed(b).sent
      BY DEF Handed, Buffers, DrawInv, OverlayTyped
    <3> HIDE DEF s, k
    <3>4. s[k] \in Buffers
      BY <3>2
    <3>5. /\ shm' \in Seq(Buffers) /\ Len(shm') = Len(s)
          /\ \A j \in 1..Len(s) : shm'[j] = IF j = k THEN Handed(s[k]) ELSE s[j]
      BY <3>1, <3>2, <3>3, <3>4
    <3> QED
      BY <3>2, <3>3, <3>4, <3>5 DEF BuffersKept
  <2> QED
    BY <2>1, <2>2 DEF PresentX11, PresentMac
<1>4. covered' \in BOOLEAN /\ sinceRaise' \in {"just", "while", "long"}
  BY <1>1 DEF DrawInv, OverlayTyped
<1> QED
  BY <1>1, <1>2, <1>3, <1>4 DEF DrawInv, OverlayTyped

LEMMA DrawKeeps == DrawInv /\ BeliefInv /\ [OverlayNext]_overlayVars => DrawInv'
<1> SUFFICES ASSUME DrawInv, BeliefInv, [OverlayNext]_overlayVars PROVE DrawInv'
    OBVIOUS
<1>1. CASE UNCHANGED overlayVars
  BY <1>1 DEF overlayVars, localVars, windowVars, outsideVars, DrawInv, OverlayTyped, BuffersKept
<1>2. CASE \E i \in DOMAIN shm : Releases(i)
  BY <1>2, ReleaseDraws
<1> QED
  BY <1>1, <1>2, OpenDraws, OutsideDraws, WindowDraws, RoundDraws, PumpDraws, PresentDraws
     DEF OverlayNext, LoopSteps

LEMMA DrawnRight == ASSUME DrawInv, BeliefInv PROVE OverlayInv
<1>1. DOMAIN shm = 1..Len(shm) /\ \A i \in 1..Len(shm) : shm[i] \in Buffers
  BY DEF DrawInv, OverlayTyped
<1>2. {sized, winSize} \subseteq WindowSizes \cup {Unsized}
  BY DEF DrawInv, OverlayTyped
<1>3. {last, glass} \subseteq {None} \cup [of : Scenes, size : WindowSizes]
  BY DEF DrawInv, OverlayTyped, Drawn
<1>4. OverlayTypeOK
  BY <1>1, <1>2, <1>3 DEF DrawInv, OverlayTyped, OverlayTypeOK, Buffers
<1>5. SentBuffersAreKept
  BY <1>1 DEF DrawInv, BuffersKept, SentBuffersAreKept
<1>6. BelievesRightly
  BY NoNewsIsNews DEF BeliefInv, BelievesRightly
<1> QED
  BY <1>4, <1>5, <1>6 DEF OverlayInv

(* In whatever order changes, resizes, exposures, flashes and releases     *)
(* come in, and whatever the sizes: a loop that sees nothing to draw has a *)
(* window that shows the scene whole (last and Event::Redraw in            *)
(* run_inner), and no buffer is drawn over while the compositor reads it   *)
(* (WaylandBackend::free_buffer, present).                                 *)
THEOREM OverlayIsKept == Spec => []OverlayInv
<1>1. Init => DrawInv /\ BeliefInv
  <2>1. Init => OverlayInit
    BY Zenon DEF Init
  <2> QED
    BY <2>1, BeliefBegins, DrawBegins
<1>2. [Next]_vars => [OverlayNext]_overlayVars
  BY DEF Next, Talk, FlashGun, Calibrate, Transmit, Draw, Display, Point, ShowPreview, FindBorder,
         TakeTurns, vars
<1>3. DrawInv /\ BeliefInv /\ [Next]_vars => (DrawInv /\ BeliefInv)'
  BY <1>2, DrawKeeps, BeliefKeeps
<1>4. DrawInv /\ BeliefInv => OverlayInv
  BY DrawnRight
<1> QED
  BY <1>1, <1>3, <1>4, PTL DEF Spec

-----------------------------------------------------------------------------
(* A dwell that is armed has been armed by a move, or by the start; and    *)
(* without a trigger to look at no pull is ever latched.                   *)
DwellInv == (armed => moved) /\ (capture = "dwell" => pull = Unseen) /\ idx \in Nat

LEMMA NoPullToLatch ==
  ASSUME DwellInv, capture = "dwell", NEW gap, NEW signals
  PROVE  Latched(gap, signals) = Unseen /\ ~TooLate(Latched(gap, signals))
BY DEF DwellInv, Latched, TooLate

LEMMA DwellStep ==
  ASSUME DwellInv, NEW s \in Sights, NEW gap \in FrameGaps, NEW signals,
         NotYet(s, gap, signals) \/ Unsteady(s, gap, signals) \/ Capture(s, gap, signals)
  PROVE  DwellInv' /\ (idx' > idx /\ capture = "dwell" => moved)
<1>1. CASE NotYet(s, gap, signals)
  <2>1. /\ armed' = (armed \/ MovedOff(s)) /\ moved' = (moved \/ MovedOff(s))
        /\ pull' = IF TooLate(Latched(gap, signals)) THEN Unseen ELSE Latched(gap, signals)
        /\ UNCHANGED <<capture, idx>>
    BY <1>1 DEF NotYet
  <2>2. capture = "dwell" => pull' = Unseen
    BY <2>1, NoPullToLatch
  <2>3. armed' => moved'
    <3> HIDE DEF DwellInv
    <3>1. armed => moved
      BY Zenon DEF DwellInv
    <3> QED
      BY <2>1, <3>1, Zenon
  <2>4. idx' \in Nat /\ ~(idx' > idx)
    BY <2>1 DEF DwellInv
  <2> QED
    BY <2>1, <2>2, <2>3, <2>4, Zenon DEF DwellInv
<1>2. CASE Unsteady(s, gap, signals)
  <2>1. /\ moved' = (moved \/ MovedOff(s)) /\ pull' = Unseen
        /\ UNCHANGED <<armed, capture, idx>>
    BY <1>2, Zenon DEF Unsteady
  <2>2. armed' => moved'
    BY <2>1, Zenon DEF DwellInv
  <2>3. idx' \in Nat /\ ~(idx' > idx)
    BY <2>1 DEF DwellInv
  <2> QED
    BY <2>1, <2>2, <2>3, Zenon DEF DwellInv
<1>3. CASE Capture(s, gap, signals)
  <2>1. /\ Steady(Windowed(ring, gap, s.aim)) \/ Latched(gap, signals) # Unseen
        /\ pull' = Unseen /\ armed' = FALSE /\ moved' = FALSE /\ idx' = idx + 1
        /\ UNCHANGED capture
    BY <1>3 DEF Capture
  <2>2. capture = "dwell" => armed
    BY <2>1, NoPullToLatch DEF Steady
  <2> QED
    BY <2>1, <2>2 DEF DwellInv
<1> QED
  BY <1>1, <1>2, <1>3

LEMMA DwellKeeps ==
  DwellInv /\ [CalNext]_calVars
    => DwellInv' /\ [idx' > idx /\ capture = "dwell" /\ idx > 0 => moved]_calVars
<1> SUFFICES ASSUME DwellInv, [CalNext]_calVars
             PROVE  DwellInv' /\ (idx' > idx /\ capture = "dwell" => moved)
    OBVIOUS
<1>1. CASE FrameSeen
  BY <1>1, DwellStep DEF FrameSeen
<1>2. CASE StopMeasuring \/ SaveBore
  BY <1>2 DEF StopMeasuring, SaveBore, DwellInv
<1>3. CASE UNCHANGED calVars
  BY <1>3 DEF calVars, DwellInv
<1> QED
  BY <1>1, <1>2, <1>3 DEF CalNext

(* Whatever is seen and in whatever rhythm frames come, no target after    *)
(* the first is captured by steadiness before the aim has left the last.   *)
THEOREM DwellWaits == Spec => DwellWaitsForMove
<1>1. Init => DwellInv
  <2>1. Init => CalInit
    BY Zenon DEF Init
  <2>2. CalInit => (armed => moved) /\ pull = Unseen /\ idx = 0
    BY DEF CalInit
  <2>3. CalInit => DwellInv
    BY <2>2 DEF DwellInv
  <2> QED
    BY <2>1, <2>3, Zenon
<1>2. [Next]_vars => [CalNext]_calVars
  BY DEF Next, Talk, FlashGun, Calibrate, Transmit, Draw, Display, Point, ShowPreview, FindBorder,
         TakeTurns, vars
<1>3. DwellInv /\ [Next]_vars
        => DwellInv' /\ [idx' > idx /\ capture = "dwell" /\ idx > 0 => moved]_calVars
  BY <1>2, DwellKeeps
<1> QED
  BY <1>1, <1>3, PTL DEF Spec, DwellWaitsForMove

(* The values of a sequence have a greatest, and places of a sort.         *)
LEMMA Bounded ==
  ASSUME NEW s \in Seq(Nat)
  PROVE  \E b \in Nat : \A i \in 1..Len(s) : s[i] <= b
<1> DEFINE Bad == {n \in 0..Len(s) : ~ \E b \in Nat : \A i \in 1..n : s[i] <= b}
<1>1. CASE Bad = {}
  <2>1. Len(s) \in 0..Len(s)
    OBVIOUS
  <2> QED
    BY <1>1, <2>1
<1>2. CASE Bad # {}
  <2>1. Bad \subseteq Nat /\ Len(s) \in Nat /\ \A i \in 1..Len(s) : s[i] \in Nat
    OBVIOUS
  <2>2. \E m \in Bad : \A n \in Bad : m <= n
    <3> HIDE DEF Bad
    <3> QED
      BY <1>2, <2>1, NatMin
  <2>3. PICK m \in Bad : \A n \in Bad : m <= n
    BY <2>2
  <2>4. m \in 0..Len(s) /\ ~ \E b \in Nat : \A i \in 1..m : s[i] <= b
    OBVIOUS
  <2>5. m # 0
    <3>1. \A i \in 1..0 : s[i] <= 0
      OBVIOUS
    <3> QED
      BY <2>4, <3>1
  <2>6. m \in 1..Len(s) /\ m - 1 \in 0..Len(s) /\ s[m] \in Nat /\ m \in Nat
    BY <2>1, <2>4, <2>5
  <2>7. m - 1 \notin Bad
    <3> HIDE DEF Bad
    <3> QED
      BY <2>3, <2>6
  <2>8. PICK b \in Nat : \A i \in 1..m - 1 : s[i] <= b
    BY <2>6, <2>7
  <2> HIDE DEF Bad
  <2>9. PICK c \in Nat : b <= c /\ s[m] <= c
    <3>1. b <= b + s[m] /\ s[m] <= b + s[m] /\ b + s[m] \in Nat
      BY <2>6
    <3> QED
      BY <3>1
  <2>10. \A i \in 1..m : i \in 1..m - 1 \/ i = m
    BY <2>6
  <2>11. \A i \in 1..m : s[i] <= c
    BY <2>1, <2>6, <2>8, <2>9, <2>10
  <2> QED
    BY <2>4, <2>11
<1> QED
  BY <1>1, <1>2

LEMMA Greatest ==
  ASSUME NEW s \in Seq(Nat), s # <<>>
  PROVE  \E m \in 1..Len(s) : \A i \in 1..Len(s) : s[i] <= s[m]
<1> DEFINE above == {b \in Nat : \A i \in 1..Len(s) : s[i] <= b}
<1>1. PICK b \in above : \A c \in above : b <= c
  BY Bounded, NatMin
<1>2. 1 \in 1..Len(s)
  BY EmptySeq
<1>3. SUFFICES ASSUME \A m \in 1..Len(s) : s[m] # b PROVE FALSE
  BY <1>1
<1>4. \A i \in 1..Len(s) : s[i] \in Nat /\ s[i] < b
  BY <1>1, <1>3
<1>5. b - 1 \in above
  BY <1>2, <1>4
<1> QED
  BY <1>1, <1>5

LEMMA RankedIsOne ==
  ASSUME NEW s \in Seq(Nat), NEW k \in 1..Len(s)
  PROVE  Ranked(s, k) \in Nat
<1> DEFINE values == {s[i] : i \in DOMAIN s}
           enough == {v \in values : k <= Cardinality({i \in DOMAIN s : s[i] <= v})}
<1>1. s # <<>>
  BY EmptySeq
<1>2. PICK m \in 1..Len(s) : \A i \in 1..Len(s) : s[i] <= s[m]
  BY <1>1, Greatest
<1>3. {i \in DOMAIN s : s[i] <= s[m]} = 1..Len(s)
  BY <1>2
<1>4. Cardinality(1..Len(s)) = Len(s)
  <2>1. Len(s) \in Int /\ 1 \in Int /\ ~(1 > Len(s)) /\ Len(s) - 1 + 1 = Len(s)
    OBVIOUS
  <2>2. Cardinality(1..Len(s)) = IF 1 > Len(s) THEN 0 ELSE Len(s) - 1 + 1
    BY <2>1, FS_Interval
  <2> QED
    BY <2>1, <2>2
<1>5. s[m] \in enough
  <2>1. k <= Cardinality({i \in DOMAIN s : s[i] <= s[m]})
    <3> DEFINE upto == {i \in DOMAIN s : s[i] <= s[m]}
    <3>1. Cardinality(upto) = Len(s)
      BY <1>3, <1>4
    <3> HIDE DEF upto
    <3>2. k <= Cardinality(upto)
      BY <3>1
    <3> QED
      BY <3>2 DEF upto
  <2>2. s[m] \in values
    BY <1>2
  <2> HIDE DEF values
  <2> QED
    BY <2>1, <2>2
<1>6. enough \subseteq Nat
  OBVIOUS
<1>7. \E v \in enough : \A w \in enough : v <= w
  BY <1>5, <1>6, NatMin
<1>8. Ranked(s, k) \in enough
  BY <1>7 DEF Ranked
<1> QED
  BY <1>6, <1>8

LEMMA MedianIsOne == ASSUME NEW s \in Seq(Nat), s # <<>> PROVE MedianOf(s) \in Nat
<1> DEFINE h == Len(s) \div 2
<1>1. Len(s) \in Nat /\ Len(s) # 0
  BY EmptySeq
<1>2. CASE Len(s) % 2 = 1
  <2>1. h + 1 \in 1..Len(s)
    BY <1>1, <1>2
  <2> QED
    BY <1>2, <2>1, RankedIsOne DEF MedianOf
<1>3. CASE Len(s) % 2 # 1
  <2>1. h \in 1..Len(s) /\ h + 1 \in 1..Len(s)
    BY <1>1, <1>3
  <2>2. Ranked(s, h) \in Nat /\ Ranked(s, h + 1) \in Nat
    BY <2>1, RankedIsOne
  <2> QED
    BY <1>3, <2>2 DEF MedianOf
<1> QED
  BY <1>2, <1>3

(* The ring as it is kept: the aims of one target, the oldest in front.    *)
RingFits(r) ==
  /\ r \in Seq([age : Nat, aim : Aims, target : {idx}])
  /\ \A i, j \in 1..Len(r) : i < j => r[i].age >= r[j].age

LEMMA RecentFits ==
  ASSUME NEW r, RingFits(r)
  PROVE  RingFits(Recent(r)) /\ \A i \in 1..Len(Recent(r)) : Recent(r)[i].age <= Spell
<1> DEFINE Shots == [age : Nat, aim : Aims, target : {idx}]
           good(i) == /\ i <= Len(r) => r[i].age <= Spell
                      /\ \A j \in 1 .. i - 1 : r[j].age > Spell
           young == {i \in 1 .. Len(r) + 1 : i <= Len(r) => r[i].age <= Spell}
           first == CHOOSE i \in 1 .. Len(r) + 1 : good(i)
<1>1. /\ r \in Seq(Shots) /\ Len(r) \in Nat
      /\ \A i \in 1..Len(r) : r[i] \in Shots /\ r[i].age \in Nat
      /\ \A i, j \in 1..Len(r) : i < j => r[i].age >= r[j].age
  <2>1. r \in Seq(Shots) /\ \A i, j \in 1..Len(r) : i < j => r[i].age >= r[j].age
    BY DEF RingFits
  <2>2. \A e \in Shots : e.age \in Nat
    OBVIOUS
  <2> HIDE DEF Shots
  <2> QED
    BY <2>1, <2>2
<1>2. \E i \in 1 .. Len(r) + 1 : good(i)
  <2>1. young \subseteq Nat /\ Len(r) + 1 \in young
    BY <1>1
  <2>2. \E i \in young : \A j \in young : i <= j
    <3> HIDE DEF young
    <3> QED
      BY <2>1, NatMin
  <2>3. PICK i \in young : \A j \in young : i <= j
    BY <2>2
  <2>4. ASSUME NEW j \in 1 .. i - 1 PROVE r[j].age > Spell
    <3>1. j \in 1..Len(r) /\ ~(i <= j)
      BY <1>1, <2>3
    <3>2. j \notin young
      <4> HIDE DEF young
      <4> QED
        BY <2>3, <3>1
    <3>3. ~(r[j].age <= Spell)
      BY <1>1, <3>1, <3>2
    <3> QED
      BY <1>1, <3>1, <3>3, CalibrationAssumption
  <2> QED
    BY <2>3, <2>4
<1>3. first \in 1 .. Len(r) + 1 /\ good(first)
  BY <1>2
<1>4. Recent(r) = SubSeq(r, first, Len(r))
  BY DEF Recent
<1>5. first <= Len(r) => r[first].age <= Spell
  BY <1>3
<1> HIDE DEF first, good, young, Shots
<1>6. /\ Recent(r) \in Seq(Shots) /\ Len(Recent(r)) = Len(r) - first + 1
      /\ \A i \in 1..Len(Recent(r)) : Recent(r)[i] = r[first + i - 1]
  <2>1. \A i \in first..Len(r) : r[i] \in Shots
    BY <1>1, <1>3
  <2>2. Len(r) - first + 1 \in Nat
    BY <1>1, <1>3
  <2> QED
    BY <1>1, <1>3, <1>4, <2>1, <2>2
<1>7. \A i \in 1..Len(Recent(r)) : first + i - 1 \in first..Len(r) /\ first + i - 1 \in 1..Len(r)
  BY <1>1, <1>3, <1>6
<1>8. \A i \in 1..Len(r) : first < i => r[first].age >= r[i].age
  BY <1>1, <1>3
<1>9. \A i \in first..Len(r) : r[i].age <= Spell
  <2>1. SUFFICES ASSUME NEW i \in first..Len(r) PROVE r[i].age <= Spell
    OBVIOUS
  <2>2. first <= Len(r) /\ first \in 1..Len(r) /\ i \in 1..Len(r) /\ (first = i \/ first < i)
    BY <1>1, <1>3, <2>1
  <2>3. r[first].age \in Nat /\ r[i].age \in Nat /\ Spell \in Nat
    BY <1>1, <2>2, CalibrationAssumption
  <2> QED
    BY <1>5, <1>8, <2>2, <2>3
<1>10. \A i \in 1..Len(Recent(r)) : Recent(r)[i].age <= Spell
  BY <1>6, <1>7, <1>9
<1>11. \A i, j \in 1..Len(Recent(r)) : i < j => Recent(r)[i].age >= Recent(r)[j].age
  <2>1. SUFFICES ASSUME NEW i \in 1..Len(Recent(r)), NEW j \in 1..Len(Recent(r)), i < j
                 PROVE  Recent(r)[i].age >= Recent(r)[j].age
    OBVIOUS
  <2>2. first + i - 1 < first + j - 1
    BY <1>1, <1>3, <1>6, <2>1
  <2>3. r[first + i - 1].age >= r[first + j - 1].age
    BY <1>1, <1>7, <2>2
  <2> QED
    BY <1>6, <2>3
<1> QED
  BY <1>6, <1>10, <1>11 DEF RingFits, Shots

LEMMA WindowFits ==
  ASSUME RingFits(ring), idx \in Nat, NEW gap \in Nat, NEW aim \in Aims \cup {Unseen}
  PROVE  LET r == Windowed(ring, gap, aim)
         IN  RingFits(r) /\ \A i \in 1..Len(r) : r[i].age <= Spell
<1> DEFINE Shots == [age : Nat, aim : Aims, target : {idx}]
           old == Aged(ring, gap)
           Older(e) == [e EXCEPT !.age = @ + gap]
           new == [age |-> 0, aim |-> aim, target |-> idx]
<1>1. /\ ring \in Seq(Shots) /\ Len(ring) \in Nat /\ DOMAIN ring = 1..Len(ring)
      /\ \A i \in 1..Len(ring) : ring[i] \in Shots /\ ring[i].age \in Nat
      /\ \A i, j \in 1..Len(ring) : i < j => ring[i].age >= ring[j].age
  <2>1. ring \in Seq(Shots) /\ \A i, j \in 1..Len(ring) : i < j => ring[i].age >= ring[j].age
    BY DEF RingFits
  <2>2. \A e \in Shots : e.age \in Nat
    OBVIOUS
  <2> HIDE DEF Shots
  <2> QED
    BY <2>1, <2>2
<1>2. \A e \in Shots : Older(e) \in Shots /\ Older(e).age = e.age + gap
  OBVIOUS
<1>3. old = [i \in 1..Len(ring) |-> Older(ring[i])]
  BY <1>1 DEF Aged
<1> HIDE DEF Older
<1>4. /\ old \in Seq(Shots) /\ Len(old) = Len(ring)
      /\ \A i \in 1..Len(ring) : old[i].age = ring[i].age + gap /\ old[i].age \in Nat
  <2>1. old \in [1..Len(ring) -> Shots]
    BY <1>1, <1>2, <1>3
  <2>2. old \in Seq(Shots) /\ Len(old) = Len(ring)
    BY <1>1, <2>1
  <2> QED
    BY <1>1, <1>2, <1>3, <2>2
<1>5. \A i, j \in 1..Len(ring) : i < j => old[i].age >= old[j].age
  BY <1>1, <1>4
<1> HIDE DEF old
<1>6. RingFits(old)
  BY <1>4, <1>5 DEF RingFits
<1>7. CASE aim = Unseen
  BY <1>6, <1>7, RecentFits DEF Windowed, Pushed, old
<1>8. CASE aim # Unseen
  <2>1. new \in Shots /\ new.age = 0
    BY <1>8
  <2> HIDE DEF new
  <2>2. /\ Append(old, new) \in Seq(Shots) /\ Len(Append(old, new)) = Len(old) + 1
        /\ \A i \in 1..Len(old) : Append(old, new)[i] = old[i]
        /\ Append(old, new)[Len(old) + 1] = new
    BY <1>4, <2>1
  <2>3. \A i \in 1..Len(old) + 1 : i \in 1..Len(old) \/ i = Len(old) + 1
    BY <1>1, <1>4
  <2>4. \A i, j \in 1..Len(old) + 1 : i < j => Append(old, new)[i].age >= Append(old, new)[j].age
    BY <1>1, <1>4, <1>5, <2>1, <2>2, <2>3
  <2>5. RingFits(Append(old, new))
    BY <2>2, <2>4 DEF RingFits
  <2>6. Windowed(ring, gap, aim) = Recent(Append(old, new))
    BY <1>8 DEF Windowed, Pushed, old, new
  <2> QED
    BY <2>5, <2>6, RecentFits
<1> QED
  BY <1>7, <1>8

(* CalInv, said singly, with the ring's order, which makes taking from the *)
(* front enough.                                                           *)
CalTyped ==
  /\ trial \in {"measuring", "measured", "ended"}
  /\ capture \in {"dwell", "trigger", "either"}
  /\ RingFits(ring) /\ \A i \in 1..Len(ring) : ring[i].age <= Spell
  /\ pull \in Nat \cup {Unseen} /\ PullIsAnswered
  /\ wasDown \in BOOLEAN /\ armed \in BOOLEAN /\ moved \in BOOLEAN
  /\ takenAt \in Nat \cup {Unseen}
  /\ idx \in 0..Targets /\ (trial = "measuring" => idx < Targets)
  /\ quads \in Seq(Border) /\ Len(quads) = idx
  /\ bore \subseteq 1..idx

LEMMA NoRing == ASSUME NEW r, r = <<>>
                PROVE  RingFits(r) /\ \A i \in 1..Len(r) : r[i].age <= Spell
BY DEF RingFits

LEMMA CalBegins == CalInit => CalTyped
<1> SUFFICES ASSUME CalInit PROVE CalTyped
    OBVIOUS
<1>1. ring = <<>> /\ RingFits(ring) /\ \A i \in 1..Len(ring) : ring[i].age <= Spell
  BY NoRing DEF CalInit
<1>2. /\ trial = "measuring" /\ capture \in {"dwell", "trigger", "either"}
      /\ pull = Unseen /\ wasDown = FALSE /\ armed = TRUE /\ moved = TRUE
      /\ takenAt = Unseen /\ idx = 0 /\ quads = <<>> /\ bore = {}
  BY DEF CalInit
<1>3. quads \in Seq(Border) /\ Len(quads) = idx
  BY <1>2
<1>4. idx \in 0..Targets /\ idx < Targets
  BY <1>2, CalibrationAssumption
<1> QED
  BY <1>1, <1>2, <1>3, <1>4 DEF CalTyped, PullIsAnswered

(* What every frame leaves, whatever is made of it.                        *)
LEMMA FrameFits ==
  ASSUME CalTyped, NEW s \in Sights, NEW gap \in FrameGaps, NEW signals
  PROVE  LET r == Windowed(ring, gap, s.aim)
             p == Latched(gap, signals)
         IN  /\ RingFits(r) /\ \A i \in 1..Len(r) : r[i].age <= Spell
             /\ p \in Nat \cup {Unseen}
             /\ Looks(signals) => wasDown' \in BOOLEAN
             /\ Len(r) >= MinGood => MedianOf(AimsIn(r)) \in Nat
<1> DEFINE r == Windowed(ring, gap, s.aim)
           p == Latched(gap, signals)
<1>1. gap \in Nat /\ s.aim \in Aims \cup {Unseen} /\ idx \in Nat
  BY CalibrationAssumption DEF CalTyped, Sights
<1>2. RingFits(r) /\ \A i \in 1..Len(r) : r[i].age <= Spell
  BY <1>1, WindowFits DEF CalTyped
<1>3. p \in Nat \cup {Unseen}
  BY <1>1 DEF CalTyped, Latched
<1>4. Looks(signals) => wasDown' \in BOOLEAN
  <2>1. HeldAfter(signals) \in BOOLEAN
    <3> DEFINE bits == SelectSeq(signals, LAMBDA e : e # "enabled")
    <3>1. HeldAfter(signals) = IF bits = <<>> THEN wasDown ELSE Last(bits) = "down"
      BY DEF HeldAfter
    <3>2. wasDown \in BOOLEAN
      BY DEF CalTyped
    <3> HIDE DEF bits
    <3> QED
      BY <3>1, <3>2
  <2> QED
    BY <2>1 DEF Looks
<1>5. Len(r) >= MinGood => MedianOf(AimsIn(r)) \in Nat
  <2> HIDE DEF r
  <2>1. SUFFICES ASSUME Len(r) >= MinGood PROVE MedianOf(AimsIn(r)) \in Nat
    OBVIOUS
  <2>2. r \in Seq([age : Nat, aim : Aims, target : {idx}])
    BY <1>2 DEF RingFits
  <2>3. Len(r) \in Nat /\ DOMAIN r = 1..Len(r) /\ \A i \in 1..Len(r) : r[i].aim \in Nat
    <3> DEFINE Shots == [age : Nat, aim : Aims, target : {idx}]
    <3>1. \A e \in Shots : e.aim \in Nat
      BY CalibrationAssumption
    <3>2. r \in Seq(Shots)
      BY <2>2
    <3> HIDE DEF Shots
    <3> QED
      BY <3>1, <3>2
  <2>4. AimsIn(r) \in [1..Len(r) -> Nat]
    BY <2>3 DEF AimsIn
  <2>5. AimsIn(r) \in Seq(Nat) /\ Len(AimsIn(r)) = Len(r)
    BY <2>3, <2>4
  <2>6. Len(r) # 0
    BY <2>1, <2>3, CalibrationAssumption
  <2>7. AimsIn(r) # <<>>
    BY <2>5, <2>6
  <2> QED
    BY <2>5, <2>7, MedianIsOne
<1> QED
  BY <1>2, <1>3, <1>4, <1>5

LEMMA FrameKeeps ==
  ASSUME CalTyped, NEW s \in Sights, NEW gap \in FrameGaps, NEW signals,
         NotYet(s, gap, signals) \/ Unsteady(s, gap, signals) \/ Capture(s, gap, signals)
  PROVE  CalTyped'
<1> DEFINE r == Windowed(ring, gap, s.aim)
           p == Latched(gap, signals)
<1>1. /\ RingFits(r) /\ \A i \in 1..Len(r) : r[i].age <= Spell
      /\ p \in Nat \cup {Unseen}
      /\ Looks(signals) => wasDown' \in BOOLEAN
      /\ Len(r) >= MinGood => MedianOf(AimsIn(r)) \in Nat
  BY FrameFits
<1> HIDE DEF r, p
<1>2. CASE NotYet(s, gap, signals)
  <2>1. /\ Looks(signals) /\ trial = "measuring" /\ ring' = r
        /\ pull' = IF TooLate(p) THEN Unseen ELSE p
        /\ armed' = (armed \/ MovedOff(s)) /\ moved' = (moved \/ MovedOff(s))
        /\ UNCHANGED <<trial, capture, takenAt, idx, quads, bore>>
    BY <1>2 DEF NotYet, Looks, r, p
  <2>2. pull' \in Nat \cup {Unseen} /\ PullIsAnswered'
    BY <1>1, <2>1, CalibrationAssumption DEF TooLate, PullIsAnswered
  <2>3. RingFits(ring)' /\ (\A i \in 1..Len(ring) : ring[i].age <= Spell)'
    BY <1>1, <2>1 DEF RingFits
  <2>4. armed' \in BOOLEAN /\ moved' \in BOOLEAN
    BY <2>1
  <2> QED
    BY <1>1, <2>1, <2>2, <2>3, <2>4 DEF CalTyped
<1>3. CASE Unsteady(s, gap, signals)
  <2>1. /\ Looks(signals) /\ ring' = <<>> /\ pull' = Unseen /\ moved' \in BOOLEAN
        /\ UNCHANGED <<trial, capture, armed, takenAt, idx, quads, bore>>
    BY <1>3 DEF Unsteady
  <2>2. RingFits(ring)' /\ (\A i \in 1..Len(ring) : ring[i].age <= Spell)'
    BY <2>1 DEF RingFits
  <2> QED
    BY <1>1, <2>1, <2>2 DEF CalTyped, PullIsAnswered
<1>4. CASE Capture(s, gap, signals)
  <2>1. /\ Looks(signals) /\ trial = "measuring" /\ takenAt' \in Nat
        /\ quads' = Append(quads, s.border) /\ s.border \in Border
        /\ pull' = Unseen /\ armed' = FALSE /\ moved' = FALSE /\ ring' = <<>>
        /\ idx' = idx + 1
        /\ trial' = IF idx + 1 = Targets THEN "measured" ELSE trial
        /\ UNCHANGED <<capture, bore>>
    BY <1>1, <1>4 DEF Capture, Looks, Sights, r
  <2>2. RingFits(ring)' /\ (\A i \in 1..Len(ring) : ring[i].age <= Spell)'
    BY <2>1 DEF RingFits
  <2>3. /\ quads' \in Seq(Border) /\ Len(quads') = idx'
    BY <2>1 DEF CalTyped
  <2>4. idx \in 0..Targets /\ idx < Targets /\ Targets \in Nat
    BY <2>1, CalibrationAssumption DEF CalTyped
  <2>5. idx' \in 0..Targets /\ (trial' = "measuring" => idx' < Targets)
    BY <2>1, <2>4
  <2>6. bore' \subseteq 1..idx'
    BY <2>1, <2>4 DEF CalTyped
  <2> QED
    BY <1>1, <2>1, <2>2, <2>3, <2>5, <2>6 DEF CalTyped, PullIsAnswered
<1> QED
  BY <1>2, <1>3, <1>4

LEMMA CalKeeps == CalTyped /\ [CalNext]_calVars => CalTyped'
<1> SUFFICES ASSUME CalTyped, [CalNext]_calVars PROVE CalTyped'
    OBVIOUS
<1>1. CASE FrameSeen
  BY <1>1, FrameKeeps DEF FrameSeen
<1>2. CASE StopMeasuring
  <2>1. /\ trial' \in {"measured", "ended"} /\ ring' = <<>> /\ pull' = Unseen
        /\ UNCHANGED <<capture, wasDown, armed, takenAt, idx, quads, bore, moved>>
    BY <1>2 DEF StopMeasuring
  <2>2. RingFits(ring)' /\ (\A i \in 1..Len(ring) : ring[i].age <= Spell)'
    BY <2>1 DEF RingFits
  <2> QED
    BY <2>1, <2>2 DEF CalTyped, PullIsAnswered
<1>3. CASE SaveBore
  <2>1. /\ bore' \subseteq DOMAIN quads /\ trial' = "ended"
        /\ UNCHANGED <<capture, ring, pull, wasDown, armed, takenAt, idx, quads, moved>>
    BY <1>3 DEF SaveBore
  <2>2. DOMAIN quads = 1..idx
    BY DEF CalTyped
  <2> QED
    BY <2>1, <2>2 DEF CalTyped, PullIsAnswered, RingFits
<1>4. CASE UNCHANGED calVars
  BY <1>4 DEF calVars, CalTyped, PullIsAnswered, RingFits
<1> QED
  BY <1>1, <1>2, <1>3, <1>4 DEF CalNext

LEMMA CalIsRight == ASSUME CalTyped PROVE CalInv
<1>1. ring \in Seq([age : Nat, aim : Aims, target : {idx}])
  BY DEF CalTyped, RingFits
<1>2. /\ DOMAIN ring = 1..Len(ring)
      /\ \A i \in 1..Len(ring) : ring[i] \in [age : Nat, aim : Aims, target : {idx}]
  <2> DEFINE Shots == [age : Nat, aim : Aims, target : {idx}]
  <2>1. ring \in Seq(Shots)
    BY <1>1
  <2> HIDE DEF Shots
  <2>2. DOMAIN ring = 1..Len(ring) /\ \A i \in 1..Len(ring) : ring[i] \in Shots
    BY <2>1
  <2> QED
    BY <2>2 DEF Shots
<1>3. \A i \in DOMAIN ring : /\ ring[i].age \in 0..Spell /\ ring[i].aim \in Aims
                             /\ ring[i].target = idx
  BY <1>2, CalibrationAssumption DEF CalTyped
<1>4. {wasDown, armed, moved} \subseteq BOOLEAN
  BY Zenon DEF CalTyped
<1>5. CalTypeOK
  BY <1>3, <1>4 DEF CalTyped, CalTypeOK
<1>6. SamplesAreThisTargets
  BY <1>3 DEF SamplesAreThisTargets
<1> QED
  BY <1>5, <1>6 DEF CalTyped, CalInv

(* At every rhythm of the frames, with every window and patience: what a   *)
(* target is measured by was seen while it was shown, and no pull waits    *)
(* longer than it may (ring and pending in the hook of calibrate).         *)
THEOREM CaptureIsKept == Spec => []CalInv
<1>1. Init => CalTyped
  <2>1. Init => CalInit
    BY Zenon DEF Init
  <2> QED
    BY <2>1, CalBegins
<1>2. [Next]_vars => [CalNext]_calVars
  BY DEF Next, Talk, FlashGun, Calibrate, Transmit, Draw, Display, Point, ShowPreview, FindBorder,
         TakeTurns, vars
<1>3. CalTyped /\ [Next]_vars => CalTyped'
  BY <1>2, CalKeeps
<1>4. CalTyped => CalInv
  BY CalIsRight
<1> QED
  BY <1>1, <1>3, <1>4, PTL DEF Spec

-----------------------------------------------------------------------------
USE HudAssumption, PreviewAssumption

(* Live as the record it is.                                               *)
LiveIsRecord ==
  live = [reticle |-> live.reticle, camera |-> live.camera, guns |-> live.guns]

NamedAlive == \A t \in Trackers : tracker[t] # "off" => named[t] \in GunNames

(* So is every slot.                                                       *)
SlotShaped(s) == s = [serial |-> s.serial, panel |-> s.panel, reticle |-> s.reticle]

SlotsAreRecords == \A i \in 1..Slots : SlotShaped(slots[i])

HudInv == HudTypeOK /\ LiveIsRecord /\ SlotsAreRecords /\ NamedAlive /\ EntriesAreAlive

LEMMA DarkIsASlot ==
  SlotShaped(DarkSlot) /\ DarkSlot.panel \in BOOLEAN /\ DarkSlot.reticle \in BOOLEAN
BY DEF DarkSlot, SlotShaped

LEMMA HudBegins == HudInit => HudInv
<1> SUFFICES ASSUME HudInit PROVE HudInv
    OBVIOUS
<1>1. live = [reticle |-> FALSE, camera |-> FALSE, guns |-> <<>>] /\ DOMAIN live.guns = {}
  BY DEF HudInit
<1>2. LiveIsRecord /\ SlotsAreRecords /\ NamedAlive /\ EntriesAreAlive
  BY <1>1, DarkIsASlot DEF HudInit, LiveIsRecord, SlotsAreRecords, NamedAlive, EntriesAreAlive
<1>3. HudTypeOK
  <2>1. \A i \in 1..Slots : /\ slots[i] = DarkSlot
                            /\ slots[i].panel \in BOOLEAN /\ slots[i].reticle \in BOOLEAN
    BY DEF HudInit, DarkSlot
  <2>2. /\ tracker \in [Trackers -> {"off", "tracking", "feeding", "leaving"}]
        /\ named \in [Trackers -> GunNames \cup {0}] /\ images \in [Trackers -> BOOLEAN]
        /\ main = "before" /\ halted = FALSE /\ switches \in 0..MaxSwitches
    BY DEF HudInit
  <2> QED
    BY <1>1, <2>1, <2>2 DEF HudTypeOK
<1> QED
  BY <1>2, <1>3 DEF HudInv

(* The tracker that records is one that lives.                             *)
LEMMA RecordKeeps == ASSUME HudInv, NEW t \in Trackers, Record(t) PROVE HudInv'
<1> DEFINE old == IF named[t] \in DOMAIN live.guns THEN live.guns[named[t]] ELSE Empty
           guns == live.guns
<1>1. PICK aim \in BOOLEAN :
        live' = [live EXCEPT !.guns = WithGun(@, named[t],
                   [aim |-> aim, serial |-> IF images[t] THEN old.serial + 1 ELSE old.serial])]
  BY DEF Record
<1> DEFINE new == [aim |-> aim, serial |-> IF images[t] THEN old.serial + 1 ELSE old.serial]
<1>2. /\ tracker[t] = "feeding" /\ tracker' = [tracker EXCEPT ![t] = "tracking"]
      /\ images' = [images EXCEPT ![t] = FALSE] /\ (images[t] => old.serial < MaxSerial)
      /\ UNCHANGED <<named, slots, main, halted, switches>>
  BY DEF Record
<1>3. old \in Entry
  BY DEF HudInv, HudTypeOK, Empty, Entry
<1>4. new \in Entry
  BY <1>2, <1>3 DEF Entry
<1> HIDE DEF new, old
<1>5. live' = [live EXCEPT !.guns = WithGun(@, named[t], new)]
  BY <1>1 DEF new, old
<1>6. /\ live'.guns = WithGun(guns, named[t], new) /\ live'.reticle = live.reticle
      /\ live'.camera = live.camera /\ LiveIsRecord'
  BY <1>5 DEF HudInv, LiveIsRecord
<1>7. live'.guns = [n \in DOMAIN guns \cup {named[t]} |-> IF n = named[t] THEN new ELSE guns[n]]
  BY <1>6 DEF WithGun
<1>8. /\ DOMAIN live'.guns = DOMAIN guns \cup {named[t]}
      /\ \A n \in DOMAIN live'.guns : live'.guns[n] \in {new, guns[n]}
      /\ \A n \in DOMAIN live'.guns : n = named[t] => live'.guns[n] = new
      /\ \A n \in DOMAIN live'.guns : n # named[t] => n \in DOMAIN guns /\ live'.guns[n] = guns[n]
  BY <1>7
<1> HIDE DEF guns
<1>9. named[t] \in GunNames
  BY <1>2 DEF HudInv, NamedAlive
<1>10. HudTypeOK'
  BY <1>2, <1>4, <1>6, <1>8, <1>9 DEF HudInv, HudTypeOK, guns
<1>11. EntriesAreAlive'
  BY <1>2, <1>8 DEF HudInv, HudTypeOK, EntriesAreAlive, guns
<1>12. NamedAlive'
  BY <1>2, <1>9 DEF HudInv, HudTypeOK, NamedAlive
<1>13. SlotsAreRecords'
  BY <1>2 DEF HudInv, SlotsAreRecords
<1> QED
  BY <1>6, <1>10, <1>11, <1>12, <1>13 DEF HudInv

(* The tracker that leaves takes its name's entry along, whoever else has  *)
(* that name.                                                              *)
LEMMA RemoveKeeps == ASSUME HudInv, NEW t \in Trackers, RemoveGun(t) PROVE HudInv'
<1> DEFINE guns == live.guns
<1>1. /\ live' = [live EXCEPT !.guns = WithoutGun(@, named[t])] /\ tracker[t] = "leaving"
      /\ tracker' = [tracker EXCEPT ![t] = "off"] /\ named' = [named EXCEPT ![t] = 0]
      /\ UNCHANGED <<images, slots, main, halted, switches>>
  BY DEF RemoveGun
<1>2. /\ live'.guns = [n \in DOMAIN guns \ {named[t]} |-> guns[n]] /\ LiveIsRecord'
      /\ live'.reticle = live.reticle /\ live'.camera = live.camera
  BY <1>1 DEF HudInv, LiveIsRecord, WithoutGun
<1>3. /\ DOMAIN live'.guns = DOMAIN guns \ {named[t]}
      /\ \A n \in DOMAIN live'.guns : live'.guns[n] = guns[n]
  BY <1>2
<1> HIDE DEF guns
<1>4. HudTypeOK'
  BY <1>1, <1>2, <1>3 DEF HudInv, HudTypeOK, guns
<1>5. EntriesAreAlive'
  BY <1>1, <1>3 DEF HudInv, HudTypeOK, EntriesAreAlive, guns
<1>6. NamedAlive'
  BY <1>1 DEF HudInv, HudTypeOK, NamedAlive
<1>7. SlotsAreRecords'
  BY <1>1 DEF HudInv, SlotsAreRecords
<1> QED
  BY <1>2, <1>4, <1>5, <1>6, <1>7 DEF HudInv

LEMMA SwitchKeeps == ASSUME HudInv, NEW k \in Switches, Switch(k) PROVE HudInv'
<1>1. /\ UNCHANGED <<tracker, named, images, slots, main>>
      /\ switches < MaxSwitches /\ switches' = switches + 1
  BY DEF Switch
<1>2. switches' \in 0..MaxSwitches
  BY <1>1 DEF HudInv, HudTypeOK
<1>3. \/ halted' = TRUE /\ UNCHANGED live
      \/ live' = [live EXCEPT !.reticle = ~@] /\ UNCHANGED halted
      \/ live' = [live EXCEPT !.camera = ~@] /\ UNCHANGED halted
  BY DEF Switch
<1>4. /\ live'.guns = live.guns /\ live'.reticle \in BOOLEAN /\ live'.camera \in BOOLEAN
      /\ LiveIsRecord' /\ halted' \in BOOLEAN
  <2>1. LiveIsRecord /\ live.reticle \in BOOLEAN /\ live.camera \in BOOLEAN /\ halted \in BOOLEAN
    BY DEF HudInv, HudTypeOK
  <2>2. CASE halted' = TRUE /\ UNCHANGED live
    BY <2>1, <2>2 DEF LiveIsRecord
  <2>3. CASE live' = [live EXCEPT !.reticle = ~@] /\ UNCHANGED halted
    BY <2>1, <2>3 DEF LiveIsRecord
  <2>4. CASE live' = [live EXCEPT !.camera = ~@] /\ UNCHANGED halted
    BY <2>1, <2>4 DEF LiveIsRecord
  <2> QED
    BY <1>3, <2>2, <2>3, <2>4
<1>5. HudTypeOK'
  BY <1>1, <1>2, <1>4 DEF HudInv, HudTypeOK
<1>6. NamedAlive' /\ EntriesAreAlive' /\ SlotsAreRecords'
  BY <1>1, <1>4 DEF HudInv, NamedAlive, EntriesAreAlive, SlotsAreRecords
<1> QED
  BY <1>4, <1>5, <1>6 DEF HudInv

(* A slot that is lit has a gun, and shows what is switched on.            *)
LEMMA FilledIsASlot ==
  ASSUME HudInv, NEW i \in 1..Slots
  PROVE  /\ SlotShaped(Filled(i))
         /\ Filled(i).panel \in BOOLEAN /\ Filled(i).reticle \in BOOLEAN
         /\ Filled(i).panel \/ Filled(i).reticle => GunOfSlot(i) # {}
         /\ Filled(i).panel => live.camera
         /\ Filled(i).reticle => live.reticle
<1> DEFINE gun   == live.guns[CHOOSE n \in GunOfSlot(i) : TRUE]
           loads == live.camera /\ gun.serial > 0 /\ gun.serial # slots[i].serial
           shown == IF loads THEN gun.serial ELSE slots[i].serial
           full  == live.camera /\ gun.serial > 0
           lit   == live.reticle /\ gun.aim
<1>1. Filled(i) = IF GunOfSlot(i) = {}
                  THEN [slots[i] EXCEPT !.panel = FALSE, !.reticle = FALSE]
                  ELSE [serial |-> shown, panel |-> full, reticle |-> lit]
  BY Zenon DEF Filled
<1>2. full \in BOOLEAN /\ lit \in BOOLEAN /\ (full => live.camera) /\ (lit => live.reticle)
  BY Zenon
<1>3. SlotShaped(slots[i])
  BY DEF HudInv, SlotsAreRecords
<1> HIDE DEF shown, full, lit
<1>4. CASE GunOfSlot(i) = {}
  <2>1. Filled(i) = [serial |-> slots[i].serial, panel |-> FALSE, reticle |-> FALSE]
    BY <1>1, <1>3, <1>4 DEF SlotShaped
  <2> QED
    BY <1>4, <2>1 DEF SlotShaped
<1>5. CASE GunOfSlot(i) # {}
  <2>1. Filled(i) = [serial |-> shown, panel |-> full, reticle |-> lit]
    BY <1>1, <1>5
  <2>2. Filled(i).panel = full /\ Filled(i).reticle = lit /\ SlotShaped(Filled(i))
    BY <2>1 DEF SlotShaped
  <2> QED
    BY <1>2, <1>5, <2>2, Zenon
<1> QED
  BY <1>4, <1>5

LEMMA TickKeeps == ASSUME HudInv, Tick PROVE HudInv'
<1>1. /\ slots' = [i \in 1..Slots |-> Filled(i)] /\ main = "up"
      /\ UNCHANGED <<tracker, named, images, live, main, halted, switches>>
  BY DEF Tick
<1>2. \A i \in 1..Slots : /\ SlotShaped(slots'[i]) /\ slots'[i].panel \in BOOLEAN
                          /\ slots'[i].reticle \in BOOLEAN
  BY <1>1, FilledIsASlot
<1> QED
  BY <1>1, <1>2 DEF HudInv, HudTypeOK, LiveIsRecord, SlotsAreRecords, NamedAlive,
                    EntriesAreAlive

LEMMA HudKeeps == HudInv /\ [HudNext]_hudVars => HudInv'
<1> SUFFICES ASSUME HudInv, [HudNext]_hudVars PROVE HudInv'
    OBVIOUS
<1>1. CASE OpenScreen \/ Interrupt
  BY <1>1 DEF OpenScreen, Interrupt, HudInv, HudTypeOK, LiveIsRecord, SlotsAreRecords,
              NamedAlive, EntriesAreAlive
<1>2. CASE CloseScreen
  <2>1. \A i \in 1..Slots : /\ slots'[i] = DarkSlot
                            /\ slots'[i].panel \in BOOLEAN /\ slots'[i].reticle \in BOOLEAN
    BY <1>2, DarkIsASlot DEF CloseScreen
  <2>2. SlotsAreRecords'
    BY <2>1, DarkIsASlot DEF SlotsAreRecords
  <2> QED
    BY <1>2, <2>1, <2>2 DEF CloseScreen, HudInv, HudTypeOK, LiveIsRecord, NamedAlive,
                            EntriesAreAlive
<1>3. ASSUME NEW t \in Trackers, StartTracker(t) \/ Feed(t) \/ EndTracker(t) PROVE HudInv'
  <2>1. HudTypeOK'
    BY <1>3 DEF StartTracker, Feed, EndTracker, HudInv, HudTypeOK
  <2>2. LiveIsRecord' /\ SlotsAreRecords' /\ live' = live
    BY <1>3 DEF StartTracker, Feed, EndTracker, HudInv, LiveIsRecord, SlotsAreRecords
  <2>3. NamedAlive'
    BY <1>3 DEF StartTracker, Feed, EndTracker, HudInv, HudTypeOK, NamedAlive
  <2>4. EntriesAreAlive'
    <3>1. ASSUME NEW u \in Trackers, tracker[u] # "off"
          PROVE  tracker'[u] # "off" /\ named'[u] = named[u]
      BY <1>3, <3>1 DEF StartTracker, Feed, EndTracker, HudInv, HudTypeOK
    <3> QED
      BY <2>2, <3>1 DEF HudInv, EntriesAreAlive
  <2> QED
    BY <2>1, <2>2, <2>3, <2>4 DEF HudInv
<1>4. CASE UNCHANGED hudVars
  BY <1>4 DEF hudVars, HudInv, HudTypeOK, LiveIsRecord, SlotsAreRecords, NamedAlive,
              EntriesAreAlive
<1> QED
  BY <1>1, <1>2, <1>3, <1>4, RecordKeeps, RemoveKeeps, SwitchKeeps, TickKeeps DEF HudNext

(* PreviewTypeOK, with the numbers said singly.                            *)
PreviewInv ==
  /\ pane \in {"opening", "up", "closing", "joining", "over"}
  /\ worker \in {"none", "starting", "tracking", "leaving", "ended", "panicked"}
  /\ quit \in BOOLEAN /\ done \in BOOLEAN
  /\ serial \in 0..MaxImages /\ picture \in 0..MaxImages /\ picture <= serial
  /\ outcome \in {"none", "error", "answered"}
  /\ allowed \in BOOLEAN /\ poisoned \in BOOLEAN
  /\ (pane \in {"joining", "over"} => quit)

LEMMA PreviewTyped == ASSUME PreviewInv PROVE PreviewTypeOK
<1>1. {serial, picture} \subseteq 0..MaxImages
  BY Zenon DEF PreviewInv
<1>2. /\ pane \in {"opening", "up", "closing", "joining", "over"}
      /\ worker \in {"none", "starting", "tracking", "leaving", "ended", "panicked"}
      /\ quit \in BOOLEAN /\ done \in BOOLEAN /\ picture <= serial
      /\ outcome \in {"none", "error", "answered"}
      /\ allowed \in BOOLEAN /\ poisoned \in BOOLEAN
  BY Zenon DEF PreviewInv
<1>3. pane \in {"joining", "over"} => quit
  BY Zenon DEF PreviewInv
<1> HIDE DEF PreviewInv
<1> QED
  BY <1>1, <1>2, <1>3, Zenon DEF PreviewTypeOK

LEMMA PreviewBegins == PreviewInit => PreviewInv
<1>1. MaxImages \in Nat
  BY PreviewAssumption
<1>2. 0 \in 0..MaxImages /\ 0 <= 0
  BY <1>1
<1> QED
  BY <1>2 DEF PreviewInit, PreviewInv

LEMMA PreviewKeeps == PreviewInv /\ [PreviewNext]_previewVars => PreviewInv'
<1> SUFFICES ASSUME PreviewInv, [PreviewNext]_previewVars PROVE PreviewInv'
    OBVIOUS
<1>1. CASE StartTracking \/ StopTracking \/ TellDone \/ AnswerPrompt
  BY <1>1 DEF StartTracking, StopTracking, TellDone, AnswerPrompt, stayVars, PreviewInv
<1>7. CASE TrackerFails
  <2>1. poisoned' \in BOOLEAN
    BY <1>7, Zenon DEF TrackerFails
  <2>2. /\ worker' \in {"leaving", "panicked"}
        /\ UNCHANGED <<pane, quit, done, serial, picture, outcome, allowed>>
    BY <1>7 DEF TrackerFails
  <2> QED
    BY <2>1, <2>2 DEF PreviewInv
<1>2. CASE HookFrame
  BY <1>2 DEF HookFrame, stayVars, PreviewInv
<1>3. CASE SpawnWorker \/ OpenPage \/ ClosePage \/ PageFails \/ PressEsc
  BY <1>3 DEF SpawnWorker, OpenPage, ClosePage, PageFails, PressEsc, stayVars, PreviewInv
<1>4. CASE TickPage
  <2>1. /\ pane' \in {"closing", "up"} /\ picture' = serial /\ quit' \in BOOLEAN
        /\ UNCHANGED <<worker, done, serial, outcome, allowed, poisoned>>
    BY <1>4 DEF TickPage, stayVars, PreviewInv
  <2> QED
    BY <2>1 DEF PreviewInv
<1>5. CASE JoinWorker
  BY <1>5 DEF JoinWorker, stayVars, PreviewInv
<1>6. CASE UNCHANGED previewVars
  BY <1>6 DEF previewVars, PreviewInv
<1> QED
  BY <1>1, <1>2, <1>3, <1>4, <1>5, <1>6, <1>7 DEF PreviewNext, WorkerSteps, PageSteps

(* An entry of the display's state belongs to a tracker that lives, also   *)
(* when guns share a name, on every number of trackers, names and slots;   *)
(* the preview's page is joined only once its worker was told to stop.     *)
THEOREM DisplayShowsTheLiving == Spec => []DisplayInv
<1>1. Init => HudInv /\ PreviewInv /\ part \in PartNames
  BY HudBegins, PreviewBegins DEF Init
<1>2. [Next]_vars => [HudNext]_hudVars /\ [PreviewNext]_previewVars /\ part' = part
  BY DEF Next, Talk, FlashGun, Calibrate, Transmit, Draw, Display, Point, ShowPreview, FindBorder,
         TakeTurns, vars
<1>3. HudInv /\ PreviewInv /\ part \in PartNames /\ [Next]_vars
        => (HudInv /\ PreviewInv /\ part \in PartNames)'
  BY <1>2, HudKeeps, PreviewKeeps
<1>4. HudInv /\ PreviewInv /\ part \in PartNames => DisplayInv
  BY PreviewTyped DEF HudInv, DisplayInv
<1> QED
  BY <1>1, <1>3, <1>4, PTL DEF Spec

(* The gun a slot shows is of a tracker that lives, and no two slots show  *)
(* the same.                                                               *)
LEMMA TickShows ==
  ASSUME HudInv, Tick
  PROVE  /\ Cardinality({i \in 1..Slots : slots'[i].panel \/ slots'[i].reticle})
                <= Cardinality({t \in Trackers : tracker[t] # "off"})
         /\ \A i \in 1..Slots : /\ slots'[i].panel => live.camera
                                /\ slots'[i].reticle => live.reticle
<1> DEFINE Lit     == {i \in 1..Slots : slots'[i].panel \/ slots'[i].reticle}
           Living  == {t \in Trackers : tracker[t] # "off"}
           Gun(i)  == CHOOSE n \in GunOfSlot(i) : TRUE
           Whose(i) == CHOOSE t \in Living : named[t] = Gun(i)
           whose   == [i \in Lit |-> Whose(i)]
<1>1. \A i \in 1..Slots : slots'[i] = Filled(i)
  BY DEF Tick
<1>2. \A i \in Lit : GunOfSlot(i) # {}
  BY <1>1, FilledIsASlot
<1>3. \A i \in 1..Slots : /\ slots'[i].panel => live.camera
                          /\ slots'[i].reticle => live.reticle
  BY <1>1, FilledIsASlot
<1>4. \A i \in Lit : /\ Gun(i) \in DOMAIN live.guns
                     /\ Cardinality({m \in DOMAIN live.guns : m < Gun(i)}) = i - 1
  BY <1>2 DEF GunOfSlot
<1> HIDE DEF Gun
<1>5. \A i, j \in Lit : Gun(i) = Gun(j) => i = j
  <2>1. SUFFICES ASSUME NEW i \in Lit, NEW j \in Lit, Gun(i) = Gun(j) PROVE i = j
    OBVIOUS
  <2>2. i - 1 = j - 1
    BY <1>4, <2>1
  <2>3. i \in Int /\ j \in Int
    BY HudAssumption
  <2> QED
    BY <2>2, <2>3
<1>6. \A i \in Lit : Whose(i) \in Living /\ named[Whose(i)] = Gun(i)
  <2>1. SUFFICES ASSUME NEW i \in Lit PROVE Whose(i) \in Living /\ named[Whose(i)] = Gun(i)
    OBVIOUS
  <2>2. \E t \in Living : named[t] = Gun(i)
    BY <1>4 DEF HudInv, EntriesAreAlive
  <2> QED
    BY <2>2
<1> HIDE DEF Lit, Living, Whose
<1>7. whose \in Injection(Lit, Living)
  <2>1. whose \in [Lit -> Living]
    BY <1>6
  <2>2. \A i, j \in Lit : whose[i] = whose[j] => i = j
    <3>1. SUFFICES ASSUME NEW i \in Lit, NEW j \in Lit, whose[i] = whose[j] PROVE i = j
      OBVIOUS
    <3>2. Whose(i) = Whose(j)
      BY <3>1
    <3>3. Gun(i) = Gun(j)
      BY <1>6, <3>2
    <3> QED
      BY <1>5, <3>3
  <2>3. IsInjective(whose)
    BY <2>1, <2>2 DEF IsInjective
  <2> QED
    BY <2>1, <2>3 DEF Injection
<1>8. IsFiniteSet(Living)
  BY HudAssumption, FS_Subset DEF Living
<1>9. Cardinality(Lit) <= Cardinality(Living)
  BY <1>7, <1>8, FS_Injection
<1> QED
  BY <1>3, <1>9 DEF Lit, Living

(* After a tick no more slots are lit than trackers live, and only what is *)
(* switched on is (the timer's block in hud::open).                        *)
THEOREM TicksShowTheLiving == Spec => TickShowsTheLiving
<1> DEFINE Shows ==
      /\ Cardinality({i \in 1..Slots : slots'[i].panel \/ slots'[i].reticle})
             <= Cardinality({t \in Trackers : tracker[t] # "off"})
      /\ \A i \in 1..Slots : /\ slots'[i].panel => live.camera
                             /\ slots'[i].reticle => live.reticle
<1>1. Init => HudInv
  BY HudBegins DEF Init
<1>2. [Next]_vars => [HudNext]_hudVars
  BY DEF Next, Talk, FlashGun, Calibrate, Transmit, Draw, Display, Point, ShowPreview, FindBorder,
         TakeTurns, vars
<1>3. HudInv /\ [Next]_vars => HudInv'
  BY <1>2, HudKeeps
<1>4. HudInv /\ [HudNext]_hudVars => [slots' # slots /\ main' = "up" => Shows]_hudVars
  <2>1. SUFFICES ASSUME HudInv, HudNext, slots' # slots, main' = "up" PROVE Shows
    OBVIOUS
  <2>2. Tick
    BY <2>1 DEF HudNext, OpenScreen, CloseScreen, Interrupt, Switch, StartTracker, Feed, Record,
                EndTracker, RemoveGun
  <2> QED
    BY <2>1, <2>2, TickShows
<1>5. HudInv /\ [Next]_vars => [slots' # slots /\ main' = "up" => Shows]_hudVars
  BY <1>2, <1>4
<1> QED
  BY <1>1, <1>3, <1>5, PTL DEF Spec, TickShowsTheLiving

-----------------------------------------------------------------------------
(* Flash.                                                                  *)
USE FlashAssumption

Open    == {"opening", "reading", "saving", "programming", "writing", "verifying", "leaving"}
Beyond  == {"programming", "writing"}
Written == job.verb = "flash" /\ job.yes

Stages == {"none", "refused", "failed", "backed up", "dry", "flashed", "entering", "opening",
           "reading", "saving", "programming", "writing", "verifying", "leaving", "filing",
           "waiting"}

(* The types, with what a session and a stage say of each other.           *)
FlashTyped ==
  /\ mode \in [Blasters -> {"app", "boot", "gone"}]
  /\ app \in [Blasters -> [PageNos -> Contents]]
  /\ job \in Jobs /\ stage \in Stages
  /\ session \in Blasters \cup {NoGun} /\ changed \in Blasters \cup {NoGun}
  /\ session # NoGun => mode[session] = "boot"
  /\ page \in 0..Pages /\ commands \in 0..MaxCommands
  /\ stage \in Open => session # NoGun

(* What was read is what the gun holds, what is erased has been saved, and *)
(* the session is left only with the image verified.                       *)
ReadBack == stage = "saving" => copy = app[session]
SavedOwn == stage \in Beyond => Of(session) \in saved
Verified == /\ stage = "leaving" /\ Written => app[session] = Of(job.wanted)
            /\ stage = "filing" => job.verb = "backup"
            /\ stage = "waiting" /\ Written => changed # NoGun /\ app[changed] = Of(job.wanted)

FlashIInv == FlashTyped /\ BackedUpFirst /\ ReadBack /\ SavedOwn /\ Verified /\ VerifiedIsWhole

USE DEF Open, Beyond, Stages, Goto

LEMMA FlashBegins == FlashInit => FlashIInv
BY DEF FlashInit, FlashIInv, FlashTyped, BackedUpFirst, ReadBack, SavedOwn, Verified, VerifiedIsWhole,
       Of, Contents, PageNos

(* An image without holes is the same after the trip through its file: of  *)
(* its last pair of pages, the half that is there.                         *)
LEMMA WholeImage == ASSUME NEW image, DOMAIN image = PageNos, image = [p \in PageNos |-> image[p]]
                    PROVE  ToHex(image) = image
<1>1. {q \in PageNos : q % 2 = 0 \/ q + 1 \in PageNos \/ q = Pages} = PageNos
  BY DEF PageNos
<1> QED
  BY <1>1 DEF ToHex

LEMMA StageIsNot == ASSUME stage' \notin {"saving", "programming", "writing", "leaving", "filing",
                                          "waiting", "flashed"}
                    PROVE  ReadBack' /\ SavedOwn' /\ Verified' /\ VerifiedIsWhole'
BY DEF ReadBack, SavedOwn, Verified, VerifiedIsWhole

(* What happens to the guns outside a command keeps their applications.    *)
LEMMA GunKeeps == ASSUME FlashIInv, NEW g \in Blasters, Restarts(g) \/ ResetByAnother(g) PROVE FlashIInv'
<1>1. /\ UNCHANGED <<app, saved, job, copy, page, changed, commands>>
      /\ mode' \in [Blasters -> {"app", "boot", "gone"}]
  BY DEF Restarts, ResetByAnother, StartsAs, FlashIInv, FlashTyped
<1>2. CASE Restarts(g) /\ session = g
  <2>1. stage' = "failed" /\ session' = NoGun
    BY <1>2 DEF Restarts
  <2>2. FlashTyped' /\ BackedUpFirst'
    BY <1>1, <2>1 DEF FlashIInv, FlashTyped, BackedUpFirst
  <2> QED
    BY <2>1, <2>2, StageIsNot DEF FlashIInv
<1>3. CASE ResetByAnother(g) \/ (Restarts(g) /\ session # g)
  <2>1. stage' = stage /\ session' = session /\ (session # NoGun => mode'[session] = "boot")
    BY <1>3 DEF Restarts, ResetByAnother, FlashIInv, FlashTyped
  <2>2. FlashTyped'
    BY <1>1, <2>1 DEF FlashIInv, FlashTyped
  <2> QED
    BY <1>1, <2>1, <2>2
    DEF FlashIInv, BackedUpFirst, ReadBack, SavedOwn, Verified, VerifiedIsWhole, Written
<1> QED
  BY <1>2, <1>3

LEMMA BeginKeeps == ASSUME FlashIInv, Begin PROVE FlashIInv'
<1>1. /\ UNCHANGED <<mode, app, saved, session>> /\ job' \in Jobs /\ page' = 0
      /\ changed' = NoGun /\ stage' \in {"entering", "refused"} 
  BY DEF Begin
<1>2. commands' \in 0..MaxCommands
  <2>1. commands < MaxCommands /\ commands' = commands + 1
    BY DEF Begin
  <2>2. commands \in 0..MaxCommands
    BY DEF FlashIInv, FlashTyped
  <2> QED
    BY <2>1, <2>2
<1>3. FlashTyped'
  <2>1. page' \in 0..Pages
    BY <1>1
  <2> QED
    BY <1>1, <1>2, <2>1 DEF FlashIInv, FlashTyped
<1>4. BackedUpFirst'
  BY <1>1 DEF FlashIInv, BackedUpFirst
<1> QED
  BY <1>1, <1>3, <1>4, StageIsNot DEF FlashIInv

(* Steps that change neither an application nor a backup file.             *)
LEMMA QuietKeeps ==
  ASSUME FlashIInv, FindBootloader \/ TouchGun \/ OpenBootloader \/ AllWritten \/ StepFails
  PROVE  FlashIInv'
<1>1. /\ UNCHANGED <<app, saved, job, copy, page, changed, commands>>
      /\ stage' \in {"opening", "entering", "reading", "verifying", "failed"}
  BY DEF FindBootloader, TouchGun, OpenBootloader, AllWritten, StepFails
<1>2. BackedUpFirst'
  BY <1>1 DEF FlashIInv, BackedUpFirst
<1>3. /\ job.gun \in Blasters
      /\ session' \in Blasters \cup {NoGun} /\ mode' \in [Blasters -> {"app", "boot", "gone"}]
      /\ session' # NoGun => mode'[session'] = "boot"
      /\ stage' \in Open => session' # NoGun
  BY DEF FindBootloader, TouchGun, OpenBootloader, AllWritten, StepFails, FlashIInv, FlashTyped, Jobs
<1>4. FlashTyped'
  BY <1>1, <1>3 DEF FlashIInv, FlashTyped
<1> QED
  BY <1>1, <1>2, <1>4, StageIsNot DEF FlashIInv

LEMMA ReadKeeps == ASSUME FlashIInv, ReadWhole PROVE FlashIInv'
<1>1. /\ UNCHANGED <<mode, app, saved, job, session, page, changed, commands>>
      /\ copy' = app[session] /\ stage = "reading"
      /\ stage' = IF job.verb = "backup" THEN "leaving" ELSE "saving"
  BY DEF ReadWhole
<1>2. FlashTyped' /\ BackedUpFirst'
  BY <1>1 DEF FlashIInv, FlashTyped, BackedUpFirst
<1>3. ReadBack' /\ SavedOwn' /\ VerifiedIsWhole'
  BY <1>1 DEF ReadBack, SavedOwn, VerifiedIsWhole
<1>4. stage' = "leaving" => ~Written
  BY <1>1 DEF Written
<1>5. Verified'
  BY <1>1, <1>4 DEF Verified, Written
<1> QED
  BY <1>2, <1>3, <1>5 DEF FlashIInv

LEMMA SaveKeeps == ASSUME FlashIInv, SaveCurrent PROVE FlashIInv'
<1>1. /\ UNCHANGED <<mode, app, job, session, copy, page, changed, commands>>
      /\ stage = "saving" /\ stage' \in {"programming", "leaving"}
      /\ saved' = saved \cup {ToHex(copy)} /\ session \in Blasters
      /\ stage' = "leaving" => ~job.yes
  BY DEF SaveCurrent, FlashIInv, FlashTyped
<1>2. ToHex(app[session]) = app[session]
  <2>1. app[session] \in [PageNos -> Contents]
    BY <1>1 DEF FlashIInv, FlashTyped
  <2> QED
    BY <2>1, WholeImage
<1>3. Of(session) \in saved'
  BY <1>1, <1>2 DEF FlashIInv, BackedUpFirst, ReadBack
<1>4. FlashTyped' /\ BackedUpFirst'
  BY <1>1 DEF FlashIInv, FlashTyped, BackedUpFirst
<1>5. ReadBack' /\ SavedOwn' /\ Verified' /\ VerifiedIsWhole'
  BY <1>1, <1>3 DEF ReadBack, SavedOwn, Verified, VerifiedIsWhole, Written
<1> QED
  BY <1>4, <1>5 DEF FlashIInv

(* Only the gun whose session is open is erased and written, and its       *)
(* application is in a backup file by then.                                *)
LEMMA WriteKeeps == ASSUME FlashIInv, Erase \/ WritePage PROVE FlashIInv'
<1>1. /\ UNCHANGED <<mode, saved, job, session, copy, commands>>
      /\ stage \in {"programming", "writing"} /\ stage' = "writing"
      /\ changed' \in {changed, session} /\ session \in Blasters
  BY DEF Erase, WritePage, FlashIInv, FlashTyped
<1>p. page' \in 0..Pages
  <2>1. page' = page \/ (page < Pages /\ page' = page + 1)
    BY DEF Erase, WritePage
  <2>2. page \in 0..Pages
    BY DEF FlashIInv, FlashTyped
  <2> QED
    BY <2>1, <2>2
<1>2. /\ app' \in [Blasters -> [PageNos -> Contents]]
      /\ \A g \in Blasters : g # session => app'[g] = app[g]
  <2>1. CASE Erase
    <3>1. Blank \in [PageNos -> Contents]
      BY DEF Blank, Of, Contents
    <3> QED
      BY <2>1, <3>1, <1>1 DEF Erase, FlashIInv, FlashTyped
  <2>2. CASE WritePage
    <3>1. PICK x \in {job.wanted, "bad"} : app' = [app EXCEPT ![session][page + 1] = x]
      BY <2>2 DEF WritePage
    <3>2. x \in Contents
      BY DEF FlashIInv, FlashTyped, Jobs, Contents
    <3> QED
      BY <1>1, <3>1, <3>2 DEF FlashIInv, FlashTyped
  <2> QED
    BY <2>1, <2>2
<1>3. FlashTyped'
  BY <1>1, <1>p, <1>2 DEF FlashIInv, FlashTyped
<1>4. Of(session) \in saved
  BY <1>1 DEF FlashIInv, SavedOwn
<1>5. BackedUpFirst'
  BY <1>1, <1>2, <1>4 DEF FlashIInv, BackedUpFirst
<1>6. ReadBack' /\ SavedOwn' /\ Verified' /\ VerifiedIsWhole'
  BY <1>1, <1>4 DEF ReadBack, SavedOwn, Verified, VerifiedIsWhole
<1> QED
  BY <1>3, <1>5, <1>6 DEF FlashIInv

LEMMA VerifyKeeps == ASSUME FlashIInv, Verify PROVE FlashIInv'
<1>1. /\ UNCHANGED <<mode, app, saved, job, page, changed, commands>> /\ stage = "verifying"
  BY DEF Verify
<1>2. \/ stage' = "leaving" /\ session' = session /\ app[session] = Of(job.wanted)
      \/ stage' = "failed" /\ session' = NoGun
  BY DEF Verify
<1>3. FlashTyped' /\ BackedUpFirst'
  BY <1>1, <1>2 DEF FlashIInv, FlashTyped, BackedUpFirst
<1>4. ReadBack' /\ SavedOwn' /\ Verified' /\ VerifiedIsWhole'
  BY <1>1, <1>2 DEF ReadBack, SavedOwn, Verified, VerifiedIsWhole, Written
<1> QED
  BY <1>3, <1>4 DEF FlashIInv

(* What was verified is what the command is judged by when the gun is back.*)
LEMMA LeaveKeeps == ASSUME FlashIInv, LeaveBootloader PROVE FlashIInv'
<1>1. /\ UNCHANGED <<app, saved, job, copy, page, commands>> /\ stage = "leaving"
      /\ session' = NoGun /\ session \in Blasters
      /\ stage' = IF job.verb = "backup" THEN "filing" ELSE "waiting"
      /\ changed' = IF Written THEN session ELSE changed
  BY DEF LeaveBootloader, FlashIInv, FlashTyped, Written
<1>2. mode' \in [Blasters -> {"app", "boot", "gone"}]
  BY DEF LeaveBootloader, StartsAs, FlashIInv, FlashTyped
<1>3. changed' \in Blasters \cup {NoGun}
  BY <1>1 DEF FlashIInv, FlashTyped
<1>4. FlashTyped' /\ BackedUpFirst'
  BY <1>1, <1>2, <1>3 DEF FlashIInv, FlashTyped, BackedUpFirst
<1>5. ReadBack' /\ SavedOwn' /\ VerifiedIsWhole'
  BY <1>1 DEF ReadBack, SavedOwn, VerifiedIsWhole
<1>6. Verified'
  <2>1. Written => changed' = session /\ session # NoGun /\ app[session] = Of(job.wanted)
    BY <1>1 DEF FlashIInv, Verified
  <2>2. Written' <=> Written
    BY <1>1 DEF Written
  <2> QED
    BY <1>1, <2>1, <2>2 DEF Verified
<1> QED
  BY <1>4, <1>5, <1>6 DEF FlashIInv

LEMMA EndKeeps == ASSUME FlashIInv, FileBackup \/ GunIsBack PROVE FlashIInv'
<1>1. /\ UNCHANGED <<mode, app, job, session, copy, page, changed, commands>>
      /\ saved \subseteq saved'
  BY DEF FileBackup, GunIsBack
<1>2. \/ stage = "filing" /\ stage' = "waiting"
      \/ stage = "waiting" /\ stage' \in {"backed up", "dry", "flashed"}
  BY DEF FileBackup, GunIsBack
<1>3. FlashTyped' /\ BackedUpFirst'
  BY <1>1, <1>2 DEF FlashIInv, FlashTyped, BackedUpFirst
<1>4. stage' = "flashed" => Written
  <2>1. stage' = "flashed" => job.verb # "backup" /\ job.yes
    BY DEF FileBackup, GunIsBack
  <2>2. job.verb \in {"backup", "flash"}
    BY DEF FlashIInv, FlashTyped, Jobs
  <2> QED
    BY <2>1, <2>2 DEF Written
<1>5. ReadBack' /\ SavedOwn'
  BY <1>2 DEF ReadBack, SavedOwn
<1>6. stage' = "waiting" => ~Written
  BY <1>2 DEF FlashIInv, Verified, Written
<1>7. (Written' <=> Written) /\ job' = job /\ app' = app /\ changed' = changed
  BY <1>1 DEF Written
<1>8. Verified'
  BY <1>2, <1>6, <1>7 DEF Verified
<1>9. VerifiedIsWhole'
  BY <1>2, <1>4, <1>7 DEF FlashIInv, Verified, VerifiedIsWhole
<1> QED
  BY <1>3, <1>5, <1>8, <1>9 DEF FlashIInv

LEMMA FlashKeeps == FlashIInv /\ [FlashNext]_flashVars => FlashIInv'
<1> SUFFICES ASSUME FlashIInv, [FlashNext]_flashVars PROVE FlashIInv'
    OBVIOUS
<1>1. CASE UNCHANGED flashVars
  BY <1>1 DEF flashVars, FlashIInv, FlashTyped, BackedUpFirst, ReadBack, SavedOwn, Verified,
              VerifiedIsWhole, Written
<1>2. CASE FlashSteps
  BY <1>2, QuietKeeps, ReadKeeps, SaveKeeps, WriteKeeps, VerifyKeeps, LeaveKeeps, EndKeeps
  DEF FlashSteps
<1> QED
  BY <1>1, <1>2, BeginKeeps, GunKeeps DEF FlashNext

(* However many guns are on the bus, whichever bootloader is opened and    *)
(* wherever a command stops: a gun that lost its application has it in a   *)
(* backup file, and "flashed and verified" is said only of a gun that      *)
(* holds the image (save_image before chip_erase, and the verify loop).    *)
THEOREM FirmwareIsKept == FlashSpec => []FlashInv
<1>1. FlashInit => FlashIInv
  BY FlashBegins
<1>2. FlashIInv /\ [FlashNext]_flashVars => FlashIInv'
  BY FlashKeeps
<1>3. FlashIInv => FlashInv
  BY DEF FlashIInv, FlashTyped, FlashInv, FlashTypeOK
<1> QED
  BY <1>1, <1>2, <1>3, PTL DEF FlashSpec
=============================================================================
