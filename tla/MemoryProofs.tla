--------------------------- MODULE MemoryProofs ----------------------------
(***************************************************************************)
(* The windows of a run, for every run and every width, stride and tail:   *)
(* they are numbered in time, there is one, and with a stride up to the    *)
(* width nothing but a tail shorter than min_tail_s is lost.               *)
(***************************************************************************)
EXTENDS Memory, SplitLemmas, FiniteSetTheorems, TLAPS

(* The loop invariant: the windows so far start before t0, they hold every *)
(* event before t0 when the stride leaves no gaps, and the first window is *)
(* never skipped.                                                          *)
Behind == ~ done => \A i \in DOMAIN out : out[i].t0 < t0
Swept  == ~ done /\ stride <= width => \A e \in events : e < t0 => Covered(e)
First  == ~ done /\ w_idx = 0 => t0 = start

WindowsInv ==
  /\ WindowsTypeOK
  /\ NumberedInTime
  /\ Behind
  /\ Swept
  /\ First
  /\ OnlyTailIsLost
  /\ SomeWindow

LEMMA ArgumentFacts ==
  ASSUME WindowsTypeOK
  PROVE  /\ start \in Nat /\ end \in Nat /\ start <= end
         /\ width \in Nat \ {0} /\ stride \in Nat \ {0} /\ tail \in Nat
         /\ t0 \in Nat /\ events \subseteq Nat /\ t1 \in Nat
         /\ \A e \in events : e \in Nat /\ start <= e /\ e <= end
  BY WindowsAssumption DEF WindowsTypeOK, t1

LEMMA InitFacts == WindowsInit => WindowsInv
<1> SUFFICES ASSUME WindowsInit PROVE WindowsInv
  OBVIOUS
<1>1. WindowsTypeOK
  <2>1. t0 \in Nat /\ w_idx \in Nat
    BY WindowsAssumption DEF WindowsInit
  <2>2. out \in Seq(WindowSet)
    BY DEF WindowsInit
  <2>3. done \in BOOLEAN
    BY DEF WindowsInit
  <2> QED
    BY <2>1, <2>2, <2>3 DEF WindowsInit, WindowsTypeOK
<1>2. out = <<>> /\ Len(out) = 0 /\ DOMAIN out = {} /\ w_idx = 0 /\ ~ done /\ t0 = start
  BY DEF WindowsInit
<1>3. \A e \in events : ~ (e < t0)
  BY <1>1, <1>2, ArgumentFacts
<1> QED
  BY <1>1, <1>2, <1>3 DEF WindowsInv, NumberedInTime, Behind, Swept, First,
                          OnlyTailIsLost, SomeWindow

(* The iteration that yields a window.                                     *)
LEMMA YieldFacts == WindowsInv /\ YieldWindow => WindowsInv'
<1> SUFFICES ASSUME WindowsInv, YieldWindow PROVE WindowsInv'
  OBVIOUS
<1> DEFINE window == [w_idx |-> w_idx, t0 |-> t0, events |-> InWindow]
<1>1. /\ ~ done /\ t0 <= end
      /\ out' = Append(out, window) /\ w_idx' = w_idx + 1
      /\ UNCHANGED <<events, width, stride, tail, start, end>>
      /\ IF t1 > end THEN done' = TRUE /\ t0' = t0
                     ELSE t0' = t0 + stride /\ done' = done
  BY DEF YieldWindow, InLoop, winArgs, Advance
<1>2. WindowsTypeOK /\ w_idx \in Nat /\ events \subseteq Times /\ done \in BOOLEAN
  BY DEF WindowsInv, WindowsTypeOK
<1>3. /\ start \in Nat /\ end \in Nat /\ width \in Nat \ {0} /\ stride \in Nat \ {0}
      /\ tail \in Nat /\ t0 \in Nat
      /\ \A e \in events : e \in Nat /\ start <= e /\ e <= end
  BY <1>2, ArgumentFacts
<1>4. window \in WindowSet /\ window.w_idx = w_idx /\ window.t0 = t0
      /\ window.events = InWindow
  BY <1>2, <1>3 DEF WindowSet, InWindow
<1>5. out \in Seq(WindowSet)
  BY <1>2 DEF WindowsTypeOK
<1>6. /\ w_idx = Len(out)
      /\ \A i \in DOMAIN out : out[i].w_idx = i - 1
      /\ \A i, j \in DOMAIN out : i < j => out[i].t0 < out[j].t0
      /\ \A i \in DOMAIN out : out[i].t0 < t0
  BY <1>1 DEF WindowsInv, NumberedInTime, Behind
<1> HIDE DEF window
<1>7. /\ out' \in Seq(WindowSet) /\ Len(out') = Len(out) + 1 /\ Len(out) \in Nat
      /\ DOMAIN out = 1..Len(out) /\ DOMAIN out' = 1..Len(out')
      /\ out'[Len(out) + 1] = window
      /\ \A i \in 1..Len(out) : out'[i] = out[i]
  BY <1>1, <1>4, <1>5 DEF WindowSet
<1>8. t0' \in Nat /\ done' \in BOOLEAN
  <2>1. t0' \in Nat
    BY <1>1, <1>3
  <2>2. done' \in BOOLEAN
    BY <1>1, <1>2, Zenon
  <2> QED
    BY <2>1, <2>2
<1>9. WindowsTypeOK'
  BY <1>1, <1>2, <1>7, <1>8 DEF WindowsTypeOK
<1>10. NumberedInTime'
  <2>1. w_idx' = Len(out')
    BY <1>1, <1>6, <1>7
  <2>2. \A i \in DOMAIN out' : out'[i].w_idx = i - 1
    BY <1>4, <1>6, <1>7
  <2>3. \A i, j \in DOMAIN out' : i < j => out'[i].t0 < out'[j].t0
    BY <1>4, <1>6, <1>7
  <2> QED
    BY <2>1, <2>2, <2>3 DEF NumberedInTime
<1>11. Behind'
  <2> SUFFICES ASSUME ~ done', NEW i \in DOMAIN out'
               PROVE  out'[i].t0 < t0'
    BY DEF Behind
  <2>1. t0' = t0 + stride
    BY <1>1
  <2>2. CASE i = Len(out) + 1
    BY <1>3, <1>4, <1>7, <2>1, <2>2
  <2>3. CASE i # Len(out) + 1
    <3>1. i \in DOMAIN out /\ out'[i] = out[i]
      BY <1>7, <2>3
    <3>2. out[i] \in WindowSet
      BY <1>5, <3>1
    <3>3. out[i].t0 \in Nat
      BY <3>2 DEF WindowSet
    <3> QED
      BY <1>3, <1>6, <2>1, <3>1, <3>3
  <2> QED
    BY <2>2, <2>3
<1>12. \A e \in events : Covered(e) \/ e \in InWindow => Covered(e)'
  BY <1>4, <1>7 DEF Covered
<1>13. \A e \in events : ~ (e < t0) /\ e < t0 + width => e \in InWindow
  BY <1>3 DEF InWindow, t1
<1>14. ASSUME stride <= width, NEW e \in events, e < t0 + width
       PROVE  Covered(e)'
  <2>1. CASE e < t0
    BY <1>1, <1>12, <1>14, <2>1 DEF WindowsInv, Swept
  <2>2. CASE ~ (e < t0)
    BY <1>12, <1>13, <1>14, <2>2
  <2> QED
    BY <2>1, <2>2
<1>15. Swept'
  <2> SUFFICES ASSUME ~ done', stride <= width, NEW e \in events, e < t0'
               PROVE  Covered(e)'
    BY <1>1 DEF Swept
  <2>1. e < t0 + width
    BY <1>1, <1>3
  <2> QED
    BY <1>14, <2>1
<1>16. OnlyTailIsLost'
  <2> SUFFICES ASSUME done', stride <= width, NEW e \in events
               PROVE  Covered(e)'
    BY <1>1 DEF OnlyTailIsLost
  <2>1. t0 + width > end
    BY <1>1 DEF t1
  <2>2. e < t0 + width
    BY <1>3, <2>1
  <2> QED
    BY <1>14, <2>2
<1>17. First' /\ SomeWindow'
  <2>1. w_idx' # 0
    BY <1>1, <1>2
  <2>2. out' # <<>>
    BY <1>7
  <2> QED
    BY <2>1, <2>2 DEF First, SomeWindow
<1> QED
  BY <1>9, <1>10, <1>11, <1>15, <1>16, <1>17 DEF WindowsInv

(* The iterations that yield none.                                         *)
LEMMA QuietFacts ==
  WindowsInv /\ (DropTail \/ SkipEmpty \/ LoopOver \/ UNCHANGED winVars) => WindowsInv'
<1> SUFFICES ASSUME WindowsInv, DropTail \/ SkipEmpty \/ LoopOver \/ UNCHANGED winVars
             PROVE  WindowsInv'
  OBVIOUS
<1>1. UNCHANGED <<events, width, stride, tail, start, end, w_idx, out>>
  BY DEF DropTail, SkipEmpty, LoopOver, winVars, winArgs
<1>2. WindowsTypeOK
  BY DEF WindowsInv
<1>3. /\ start \in Nat /\ end \in Nat /\ width \in Nat \ {0} /\ stride \in Nat \ {0}
      /\ tail \in Nat /\ t0 \in Nat /\ start <= end
      /\ \A e \in events : e \in Nat /\ start <= e /\ e <= end
  BY <1>2, ArgumentFacts
<1>4. /\ t0' \in Nat /\ done' \in BOOLEAN
      /\ t0' = t0 \/ t0' = t0 + stride
  <2>1. t0' = t0 \/ t0' = t0 + stride
    BY DEF DropTail, SkipEmpty, LoopOver, Advance, winVars
  <2>2. t0' \in Nat
    BY <1>3, <2>1
  <2>3. done' = TRUE \/ done' = done
    BY Zenon DEF DropTail, SkipEmpty, LoopOver, Advance, winVars
  <2>4. done' \in BOOLEAN
    BY <1>2, <2>3, Zenon DEF WindowsTypeOK
  <2> QED
    BY <2>1, <2>2, <2>4
<1>5. WindowsTypeOK'
  BY <1>1, <1>2, <1>4 DEF WindowsTypeOK
<1>6. NumberedInTime'
  BY <1>1 DEF WindowsInv, NumberedInTime
<1>7. \A e : Covered(e)' = Covered(e)
  BY <1>1 DEF Covered
<1>8. ~ done' => ~ done
  BY DEF DropTail, SkipEmpty, LoopOver, InLoop, winVars
<1>9. Behind'
  <2> SUFFICES ASSUME ~ done', NEW i \in DOMAIN out
               PROVE  out[i].t0 < t0'
    BY <1>1 DEF Behind
  <2>1. out[i].t0 < t0
    BY <1>8 DEF WindowsInv, Behind
  <2>2. out \in Seq(WindowSet)
    BY <1>2 DEF WindowsTypeOK
  <2>3. out[i] \in WindowSet
    BY <2>2
  <2>4. out[i].t0 \in Nat
    BY <2>3 DEF WindowSet
  <2> QED
    BY <1>3, <1>4, <2>1, <2>4
<1>10. SkipEmpty => \A e \in events : e < t0 \/ ~ (e < t0 + width)
  BY <1>3 DEF SkipEmpty, InWindow, t1
<1>11. Swept'
  <2> SUFFICES ASSUME ~ done', stride <= width, NEW e \in events, e < t0'
               PROVE  Covered(e)
    BY <1>1, <1>7 DEF Swept
  <2>1. e < t0
    <3>1. CASE SkipEmpty
      BY <1>3, <1>4, <1>10, <3>1
    <3>2. CASE UNCHANGED winVars
      BY <3>2 DEF winVars
    <3> QED
      BY <3>1, <3>2 DEF DropTail, LoopOver
  <2> QED
    BY <1>8, <2>1 DEF WindowsInv, Swept
<1>12. SkipEmpty => w_idx # 0
  <2> SUFFICES ASSUME SkipEmpty, w_idx = 0 PROVE FALSE
    OBVIOUS
  <2>1. t0 = start
    BY DEF SkipEmpty, InLoop, WindowsInv, First
  <2>2. start \in InWindow
    BY <1>2, <1>3, <2>1 DEF InWindow, t1, WindowsTypeOK
  <2> QED
    BY <2>2 DEF SkipEmpty
<1>13. First'
  <2> SUFFICES ASSUME ~ done', w_idx = 0 PROVE t0' = start
    BY <1>1 DEF First
  <2>1. UNCHANGED winVars
    BY <1>12 DEF DropTail, LoopOver
  <2> QED
    BY <2>1 DEF winVars, WindowsInv, First
<1>14. OnlyTailIsLost'
  <2> SUFFICES ASSUME done', stride <= width, NEW e \in events, ~ Covered(e)
               PROVE  end - e < tail
    BY <1>1, <1>7 DEF OnlyTailIsLost
  <2>1. CASE DropTail
    <3>1. end - t0 < tail /\ ~ (e < t0)
      BY <2>1 DEF DropTail, ShortTail, InLoop, WindowsInv, Swept
    <3> QED
      BY <1>3, <3>1
  <2>2. CASE SkipEmpty
    <3>1. t0 + width > end /\ ~ (e < t0)
      BY <2>2 DEF SkipEmpty, InLoop, Advance, WindowsInv, Swept, t1
    <3> QED
      BY <1>3, <1>10, <2>2, <3>1
  <2>3. CASE LoopOver
    BY <1>3, <2>3 DEF LoopOver, WindowsInv, Swept
  <2>4. CASE UNCHANGED winVars
    BY <2>4 DEF winVars, WindowsInv, OnlyTailIsLost
  <2> QED
    BY <2>1, <2>2, <2>3, <2>4
<1>15. SomeWindow'
  <2> SUFFICES ASSUME done' PROVE out # <<>>
    BY <1>1 DEF SomeWindow
  <2>1. w_idx = Len(out)
    BY DEF WindowsInv, NumberedInTime
  <2>2. CASE done
    BY <2>2 DEF WindowsInv, SomeWindow
  <2>3. CASE ~ done
    <3>1. DropTail \/ SkipEmpty \/ LoopOver
      BY <2>3 DEF winVars
    <3>2. w_idx # 0
      BY <1>3, <1>12, <2>3, <3>1 DEF DropTail, ShortTail, LoopOver, WindowsInv, First,
                                     WindowsTypeOK
    <3> QED
      BY <2>1, <3>2
  <2> QED
    BY <2>2, <2>3
<1> QED
  BY <1>5, <1>6, <1>9, <1>11, <1>13, <1>14, <1>15 DEF WindowsInv

LEMMA WindowsInvHolds == WindowsSpec => []WindowsInv
<1>1. WindowsInv /\ [WindowStep]_winVars => WindowsInv'
  BY YieldFacts, QuietFacts DEF WindowStep
<1> QED
  BY <1>1, InitFacts, PTL DEF WindowsSpec

(* The variables of the loop keep their types, and start and end bound the *)
(* events.                                                                 *)
THEOREM WindowsTypeCorrect == WindowsSpec => []WindowsTypeOK
<1>1. WindowsInv => WindowsTypeOK
  BY DEF WindowsInv
<1> QED
  BY <1>1, WindowsInvHolds, PTL

(* Only a tail shorter than min_tail_s is in no window.                    *)
THEOREM WindowsCover == WindowsSpec => []OnlyTailIsLost
<1>1. WindowsInv => OnlyTailIsLost
  BY DEF WindowsInv
<1> QED
  BY <1>1, WindowsInvHolds, PTL

(* A run that has events has a window.                                     *)
THEOREM WindowsExist == WindowsSpec => []SomeWindow
<1>1. WindowsInv => SomeWindow
  BY DEF WindowsInv
<1> QED
  BY <1>1, WindowsInvHolds, PTL

(* Windows are numbered without gaps in the order of their start.          *)
THEOREM WindowsNumbered == WindowsSpec => []NumberedInTime
<1>1. WindowsInv => NumberedInTime
  BY DEF WindowsInv
<1> QED
  BY <1>1, WindowsInvHolds, PTL

----------------------------------------------------------------------------
(* The windows that are expected                                           *)

(* The n-th place where a window may start, and the starts of the expected *)
(* windows before it.                                                      *)
Place(n)          == start + n * stride
ExpectedBefore(n) == {Place(m) : m \in {j \in 0..n - 1 : Expected(j)}}
Started           == {out[i].t0 : i \in DOMAIN out}
ExpectedStarts    == {start + n * stride :
                        n \in {m \in 0..end : start + m * stride <= end /\ Expected(m)}}

(* The loop stands at the n-th place, and it was never done before.        *)
AtPlace(n) ==
  /\ t0 = Place(n)
  /\ \A j \in 0..n - 1 : ~ Partial(j)
  /\ Started = ExpectedBefore(n)

PlaceInv ==
  /\ ~ done => \E n \in Nat : AtPlace(n)
  /\ done => Started = ExpectedStarts

LEMMA PlaceFacts ==
  ASSUME WindowsTypeOK, NEW m \in Nat
  PROVE  /\ Place(m) \in Nat /\ m <= Place(m) /\ Place(m + 1) = Place(m) + stride
         /\ Place(0) = start
         /\ Partial(m) <=> Place(m) + width > end
         /\ \A n \in Nat : m < n => Place(m) < Place(n)
<1>1. start \in Nat /\ stride \in Nat \ {0} /\ end \in Nat /\ width \in Nat
  BY ArgumentFacts
<1>2. m * stride \in Nat /\ m <= m * stride /\ (m + 1) * stride = m * stride + stride
  BY <1>1
<1>3. Place(m) \in Nat /\ m <= Place(m) /\ Place(m + 1) = Place(m) + stride /\ Place(0) = start
  BY <1>1, <1>2 DEF Place
<1>4. Partial(m) <=> Place(m) + width > end
  BY DEF Partial, Place
<1>5. ASSUME NEW n \in Nat, m < n PROVE Place(m) < Place(n)
  <2>1. PICK d \in Nat : n = m + 1 + d
    <3>1. n - m - 1 \in Nat /\ n = m + 1 + (n - m - 1)
      BY <1>5
    <3> QED
      BY <3>1
  <2>2. n * stride = m * stride + stride + d * stride /\ d * stride \in Nat
    BY <1>1, <2>1
  <2> QED
    BY <1>1, <1>2, <2>2 DEF Place
<1> QED
  BY <1>3, <1>4, <1>5

(* The last conjunct of Expected is the test of the loop.                  *)
LEMMA ExpectedFacts ==
  ASSUME WindowsTypeOK, NEW m \in Nat
  PROVE  Expected(m) <=> /\ \A j \in 0..m - 1 : ~ Partial(j)
                         /\ \E e \in events : Place(m) <= e /\ e < Place(m) + width
                         /\ Partial(m) /\ m > 0 => end - Place(m) >= tail
  BY DEF Expected, Place

LEMMA ExpectedNext ==
  ASSUME NEW n \in Nat
  PROVE  ExpectedBefore(n + 1) =
           ExpectedBefore(n) \cup (IF Expected(n) THEN {Place(n)} ELSE {})
<1>1. 0..(n + 1) - 1 = (0..n - 1) \cup {n}
  OBVIOUS
<1> QED
  BY <1>1 DEF ExpectedBefore

(* Once no further place counts, the expected ones are all that there are. *)
LEMMA ExpectedAll ==
  ASSUME WindowsTypeOK, NEW n \in Nat,
         \A m \in Nat : m >= n /\ Expected(m) => ~ (Place(m) <= end)
  PROVE  ExpectedStarts = ExpectedBefore(n)
<1>1. ExpectedStarts = {Place(m) : m \in {j \in 0..end : Place(j) <= end /\ Expected(j)}}
  BY DEF ExpectedStarts, Place
<1>2. end \in Nat /\ \A e \in events : e <= end /\ e \in Nat
  BY ArgumentFacts
<1>3. ASSUME NEW m \in 0..n - 1, Expected(m)
      PROVE  m \in 0..end /\ Place(m) <= end
  <2>1. PICK e \in events : Place(m) <= e
    BY <1>3, ExpectedFacts
  <2>2. Place(m) \in Nat /\ m <= Place(m)
    BY PlaceFacts
  <2> QED
    BY <1>2, <2>1, <2>2
<1>4. ASSUME NEW m \in 0..end, Place(m) <= end, Expected(m)
      PROVE  m \in 0..n - 1
  BY <1>2, <1>4
<1>5. {j \in 0..end : Place(j) <= end /\ Expected(j)} = {j \in 0..n - 1 : Expected(j)}
  BY <1>3, <1>4
<1> QED
  BY <1>1, <1>5 DEF ExpectedBefore

(* After a partial window there is none.                                   *)
LEMMA ExpectedNoMore ==
  ASSUME WindowsTypeOK, NEW n \in Nat, Partial(n)
  PROVE  ExpectedStarts = ExpectedBefore(n + 1)
<1>1. ASSUME NEW m \in Nat, m >= n + 1 PROVE ~ Expected(m)
  <2>1. n \in 0..m - 1
    BY <1>1
  <2> QED
    BY <2>1, ExpectedFacts
<1> QED
  BY <1>1, ExpectedAll

(* What the loop sees at a place: whether a window is expected there.      *)
LEMMA AtPlaceFacts ==
  ASSUME WindowsInv, ~ done, NEW n \in Nat, AtPlace(n), t0 <= end
  PROVE  /\ Partial(n) <=> t1 > end
         /\ Expected(n) <=> ~ ShortTail /\ InWindow # {}
<1>1. WindowsTypeOK
  BY DEF WindowsInv
<1>2. Place(n) \in Nat /\ t0 = Place(n) /\ width \in Nat /\ end \in Nat /\ w_idx \in Nat
      /\ (Partial(n) <=> t1 > end) /\ tail \in Nat /\ events \subseteq Nat
  BY <1>1, PlaceFacts, ArgumentFacts DEF AtPlace, t1, WindowsTypeOK
<1>3. (\E e \in events : Place(n) <= e /\ e < Place(n) + width) <=> InWindow # {}
  BY <1>2 DEF InWindow, t1
<1>4. n > 0 <=> w_idx > 0
  <2>1. CASE w_idx = 0
    <3>1. t0 = start
      BY <2>1 DEF WindowsInv, First
    <3>2. ~ (n > 0)
      <4>1. 0 < n => Place(0) < Place(n)
        BY <1>1, PlaceFacts
      <4> QED
        BY <1>1, <1>2, <3>1, <4>1, PlaceFacts
    <3> QED
      BY <2>1, <3>2
  <2>2. CASE w_idx # 0
    <3>1. Len(out) # 0 /\ out \in Seq(WindowSet) /\ w_idx = Len(out)
      BY <1>1, <2>2 DEF WindowsInv, NumberedInTime, WindowsTypeOK
    <3>2. 1 \in DOMAIN out
      BY <3>1
    <3>3. out[1].t0 \in ExpectedBefore(n)
      BY <3>2 DEF AtPlace, Started
    <3>4. n # 0
      BY <3>3 DEF ExpectedBefore
    <3> QED
      BY <1>2, <2>2, <3>4
  <2> QED
    BY <2>1, <2>2
<1>5. end - Place(n) >= tail <=> ~ (end - t0 < tail)
  BY <1>2
<1>6. \A j \in 0..n - 1 : ~ Partial(j)
  BY DEF AtPlace
<1> QED
  BY <1>1, <1>2, <1>3, <1>4, <1>5, <1>6, ExpectedFacts DEF ShortTail

LEMMA PlaceInit == WindowsInit => PlaceInv
<1> SUFFICES ASSUME WindowsInit PROVE PlaceInv
  OBVIOUS
<1>1. WindowsTypeOK
  BY InitFacts DEF WindowsInv
<1>2. ~ done /\ t0 = start /\ DOMAIN out = {}
  BY DEF WindowsInit
<1>3. AtPlace(0)
  <2>1. t0 = Place(0)
    BY <1>1, <1>2, PlaceFacts
  <2>2. 0..0 - 1 = {}
    OBVIOUS
  <2>3. Started = {} /\ ExpectedBefore(0) = {}
    BY <1>2, <2>2 DEF Started, ExpectedBefore
  <2> QED
    BY <2>1, <2>2, <2>3 DEF AtPlace
<1> QED
  BY <1>2, <1>3 DEF PlaceInv

(* The expected windows depend on the arguments only.                      *)
LEMMA PlaceSame ==
  ASSUME UNCHANGED winArgs
  PROVE  /\ \A n : Place(n)' = Place(n) /\ Partial(n)' = Partial(n)
         /\ \A n : ExpectedBefore(n)' = ExpectedBefore(n)
         /\ ExpectedStarts' = ExpectedStarts
<1>1. UNCHANGED <<events, width, stride, tail, start, end>>
  BY DEF winArgs
<1> QED
  BY <1>1 DEF Place, Partial, Expected, ExpectedBefore, ExpectedStarts

LEMMA PlaceStep == WindowsInv /\ PlaceInv /\ [WindowStep]_winVars => PlaceInv'
<1> SUFFICES ASSUME WindowsInv, PlaceInv, [WindowStep]_winVars PROVE PlaceInv'
  OBVIOUS
<1>1. CASE UNCHANGED winVars
  <2>1. UNCHANGED winArgs /\ UNCHANGED <<t0, out, done>>
    BY <1>1 DEF winVars
  <2>2. Started' = Started /\ \A n : AtPlace(n)' = AtPlace(n)
    BY <2>1, PlaceSame DEF Started, AtPlace
  <2> QED
    BY <2>1, <2>2, PlaceSame DEF PlaceInv
<1>2. CASE WindowStep
  <2>1. ~ done /\ UNCHANGED winArgs
    BY <1>2 DEF WindowStep, DropTail, YieldWindow, SkipEmpty, LoopOver, InLoop
  <2>2. PICK n \in Nat : AtPlace(n)
    BY <2>1 DEF PlaceInv
  <2>3. WindowsTypeOK
    BY DEF WindowsInv
  <2>4. Started = ExpectedBefore(n) /\ t0 = Place(n)
    BY <2>2 DEF AtPlace
  <2>5. CASE LoopOver
    <3>1. done' = TRUE /\ out' = out /\ t0 > end
      BY <2>5 DEF LoopOver
    <3>2. ASSUME NEW m \in Nat, m >= n PROVE ~ (Place(m) <= end)
      <4>1. Place(m) \in Nat /\ Place(n) \in Nat /\ end \in Nat
        BY <2>3, PlaceFacts, ArgumentFacts
      <4>2. n < m => Place(n) < Place(m)
        BY <2>3, PlaceFacts
      <4>3. n = m \/ n < m
        BY <3>2
      <4> QED
        BY <2>4, <3>1, <4>1, <4>2, <4>3
    <3>3. ExpectedStarts = ExpectedBefore(n)
      BY <2>3, <3>2, ExpectedAll
    <3> QED
      BY <2>1, <2>4, <3>1, <3>3, PlaceSame DEF PlaceInv, Started
  <2>6. CASE DropTail \/ YieldWindow \/ SkipEmpty
    <3>1. t0 <= end
      BY <2>6 DEF DropTail, YieldWindow, SkipEmpty, InLoop
    <3>2. /\ Partial(n) <=> t1 > end
          /\ Expected(n) <=> ~ ShortTail /\ InWindow # {}
      BY <2>1, <2>2, <3>1, AtPlaceFacts
    <3>3. Started' = ExpectedBefore(n + 1)
      <4>1. CASE YieldWindow
        <5>1. out' = Append(out, [w_idx |-> w_idx, t0 |-> t0, events |-> InWindow])
          BY <4>1 DEF YieldWindow
        <5>2. out \in Seq(WindowSet)
          BY <2>3 DEF WindowsTypeOK
        <5>3. /\ DOMAIN out' = DOMAIN out \cup {Len(out) + 1}
              /\ \A i \in DOMAIN out : out'[i] = out[i]
              /\ out'[Len(out) + 1].t0 = t0
          BY <5>1, <5>2
        <5>4. Started' = Started \cup {t0}
          BY <5>3 DEF Started
        <5>5. Expected(n)
          BY <3>2, <4>1 DEF YieldWindow
        <5> QED
          BY <2>4, <5>4, <5>5, ExpectedNext
      <4>2. CASE DropTail \/ SkipEmpty
        <5>1. out' = out /\ ~ Expected(n)
          BY <3>2, <4>2 DEF DropTail, SkipEmpty
        <5> QED
          BY <2>4, <5>1, ExpectedNext DEF Started
      <4> QED
        BY <2>6, <4>1, <4>2
    <3>4. CASE t1 > end
      <4>1. done'
        BY <2>6, <3>4 DEF DropTail, YieldWindow, SkipEmpty, Advance
      <4>2. ExpectedStarts = ExpectedBefore(n + 1)
        BY <2>3, <3>2, <3>4, ExpectedNoMore
      <4> QED
        BY <2>1, <3>3, <4>1, <4>2, PlaceSame DEF PlaceInv
    <3>5. CASE ~ (t1 > end)
      <4>1. ~ done' /\ t0' = t0 + stride
        BY <2>1, <2>6, <3>5 DEF DropTail, ShortTail, YieldWindow, SkipEmpty, Advance
      <4>2. t0' = Place(n + 1)
        BY <2>3, <2>4, <4>1, PlaceFacts
      <4>3. \A j \in 0..(n + 1) - 1 : ~ Partial(j)
        BY <2>2, <3>2, <3>5 DEF AtPlace
      <4>4. AtPlace(n + 1)'
        <5>1. /\ Place(n + 1)' = Place(n + 1)
              /\ ExpectedBefore(n + 1)' = ExpectedBefore(n + 1)
              /\ \A j : Partial(j)' = Partial(j)
          BY <2>1, PlaceSame
        <5> QED
          BY <3>3, <4>2, <4>3, <5>1 DEF AtPlace
      <4> QED
        BY <4>1, <4>4 DEF PlaceInv
    <3> QED
      BY <3>4, <3>5
  <2> QED
    BY <1>2, <2>5, <2>6 DEF WindowStep
<1> QED
  BY <1>1, <1>2

LEMMA PlaceInvHolds == WindowsSpec => []PlaceInv
  BY WindowsInvHolds, PlaceInit, PlaceStep, PTL DEF WindowsSpec

LEMMA PlaceImplies == WindowsInv /\ PlaceInv => WindowsAsExpected
  BY DEF WindowsInv, PlaceInv, Started, ExpectedStarts, WindowsAsExpected

(* The windows of a run are those at start + n * stride that hold an event, *)
(* up to the first partial one and without a short tail, for every run and *)
(* all parameters, numbered without gaps (default.yaml:20-23).             *)
THEOREM WindowsWhereExpected == WindowsSpec => []WindowsAsExpected
  BY WindowsInvHolds, PlaceInvHolds, PlaceImplies, PTL

----------------------------------------------------------------------------
(* Memory graphs                                                           *)

(* The graph of the i-th window, and where graphs come from.               *)
GraphAt(i) == [w_idx |-> out[i].w_idx, pos |-> Position(i), copies |-> Copies(i)]

GraphSet == [w_idx : Nat, pos : Nat, copies : SUBSET (Nat \X Entities)]

MemoryTyped ==
  /\ incident \in [events -> Incidents] /\ memory \in Memories /\ cap \in Caps
  /\ k \in Nat /\ k <= Len(out) /\ (k # 0 => done)
  /\ graphs \in Seq(GraphSet)
  /\ \A i \in DOMAIN out : out[i].events \subseteq events

GraphsInv ==
  /\ MemoryTyped
  /\ \A g \in DOMAIN graphs : \E i \in 1..k : graphs[g] = GraphAt(i)

MemoryStep == WindowPhase \/ BuildGraph

(* The generator runs as it does alone.                                    *)
LEMMA WindowsUnderMemory == MemorySpec => [](WindowsInv /\ PlaceInv)
<1>1. MemoryInit => WindowsInv /\ PlaceInv
  BY InitFacts, PlaceInit DEF MemoryInit
<1>2. [MemoryStep]_memVars => [WindowStep]_winVars
  BY DEF MemoryStep, WindowPhase, BuildGraph, memVars
<1>3. WindowsInv /\ PlaceInv /\ [WindowStep]_winVars => (WindowsInv /\ PlaceInv)'
  BY YieldFacts, QuietFacts, PlaceStep DEF WindowStep
<1> QED
  BY <1>1, <1>2, <1>3, PTL DEF MemorySpec, MemoryStep

(* The rounded quotient of a multiple is exact.                            *)
LEMMA RoundExact ==
  ASSUME NEW q \in Nat, NEW d \in Nat \ {0}
  PROVE  RoundHalfEven(q * d, d) = q
<1>1. q * d \in Nat
  OBVIOUS
<1>2. PICK p \in Nat : p = (q * d) \div d
  BY <1>1
<1>3. PICK r \in 0..d - 1 : r = (q * d) % d
  BY <1>1
<1>4. q * d = d * p + r
  BY <1>1, <1>2, <1>3
<1>5. r = d * (q - p)
  BY <1>4
<1>6. q - p = 0
  <2>1. CASE q - p > 0
    <3>1. d * (q - p) >= d
      BY <2>1
    <3> QED
      BY <1>3, <1>5, <3>1
  <2>2. CASE q - p < 0
    <3>1. d * (q - p) <= 0 - d
      BY <2>2
    <3> QED
      BY <1>3, <1>5, <3>1
  <2> QED
    BY <2>1, <2>2
<1>7. (q * d) \div d = q /\ (q * d) % d = 0
  BY <1>2, <1>3, <1>5, <1>6
<1> QED
  BY <1>7 DEF RoundHalfEven

LEMMA OutFacts ==
  ASSUME WindowsInv
  PROVE  /\ out \in Seq(WindowSet) /\ Len(out) \in Nat /\ DOMAIN out = 1..Len(out)
         /\ w_idx = Len(out)
         /\ \A i \in DOMAIN out : /\ out[i].t0 \in Nat /\ out[i].w_idx = i - 1
                                  /\ out[i].events \in SUBSET Times
         /\ \A i, j \in DOMAIN out : i < j => out[i].t0 < out[j].t0
<1>1. out \in Seq(WindowSet)
  BY DEF WindowsInv, WindowsTypeOK
<1>2. \A i \in DOMAIN out : out[i] \in WindowSet
  BY <1>1
<1>3. \A i \in DOMAIN out : out[i].t0 \in Nat /\ out[i].events \in SUBSET Times
  BY <1>2 DEF WindowSet
<1> QED
  BY <1>1, <1>3 DEF WindowsInv, NumberedInTime

(* Windows start at places, so the position of a window is the time since  *)
(* the first one, in strides.                                              *)
LEMMA PositionFacts ==
  ASSUME WindowsInv, PlaceInv, done
  PROVE  /\ \A i \in DOMAIN out : /\ Position(i) \in Nat
                                  /\ Position(i) * stride = out[i].t0 - out[1].t0
         /\ \A i, j \in DOMAIN out : i < j => Position(i) < Position(j)
<1>1. WindowsTypeOK /\ stride \in Nat \ {0}
  BY ArgumentFacts DEF WindowsInv
<1>2. \A i \in DOMAIN out : \E n \in Nat : out[i].t0 = Place(n)
  <2>1. Started = ExpectedStarts
    BY DEF PlaceInv
  <2>2. 0..end \subseteq Nat
    OBVIOUS
  <2> QED
    BY <2>1, <2>2 DEF Started, ExpectedStarts, Place
<1>3. ASSUME NEW i \in DOMAIN out
      PROVE  Position(i) \in Nat /\ Position(i) * stride = out[i].t0 - out[1].t0
  <2>1. 1 \in DOMAIN out /\ i \in Nat /\ (i = 1 \/ 1 < i)
    BY OutFacts
  <2>2. out[1].t0 = out[i].t0 \/ out[1].t0 < out[i].t0
    BY <2>1, OutFacts
  <2>3. PICK n \in Nat : out[i].t0 = Place(n)
    BY <1>2
  <2>4. PICK m \in Nat : out[1].t0 = Place(m)
    BY <1>2, <2>1
  <2>5. m <= n
    <3>1. n < m => Place(n) < Place(m)
      BY <1>1, PlaceFacts
    <3>2. Place(n) \in Nat /\ Place(m) \in Nat
      BY <1>1, PlaceFacts
    <3> QED
      BY <2>2, <2>3, <2>4, <3>1, <3>2
  <2>6. PICK q \in Nat : q = n - m
    BY <2>5
  <2>7. out[i].t0 - out[1].t0 = q * stride
    <3>1. start \in Nat /\ n * stride \in Nat /\ m * stride \in Nat
      BY <1>1, ArgumentFacts
    <3>2. q * stride = n * stride - m * stride
      BY <1>1, <2>6
    <3> QED
      BY <2>3, <2>4, <3>1, <3>2 DEF Place
  <2>8. Position(i) = q
    BY <1>1, <2>7, RoundExact DEF Position
  <2> QED
    BY <2>7, <2>8
<1>4. ASSUME NEW i \in DOMAIN out, NEW j \in DOMAIN out, i < j
      PROVE  Position(i) < Position(j)
  <2>1. out[i].t0 < out[j].t0 /\ out[i].t0 \in Nat /\ out[j].t0 \in Nat /\ out[1].t0 \in Nat
    <3>1. 1 \in DOMAIN out
      BY OutFacts
    <3> QED
      BY <1>4, <3>1, OutFacts
  <2>2. PICK p \in Nat : p = Position(i)
    BY <1>3
  <2>3. PICK q \in Nat : q = Position(j)
    BY <1>3
  <2>4. p * stride = out[i].t0 - out[1].t0 /\ q * stride = out[j].t0 - out[1].t0
    BY <1>3, <2>2, <2>3
  <2>5. p * stride < q * stride
    BY <2>1, <2>4
  <2>6. p < q
    <3>1. SUFFICES ASSUME q <= p PROVE FALSE
      OBVIOUS
    <3>2. q * stride <= p * stride
      BY <1>1, <3>1
    <3> QED
      BY <1>1, <2>5, <3>2
  <2> QED
    BY <2>2, <2>3, <2>6
<1> QED
  BY <1>3, <1>4

LEMMA PresentFacts ==
  ASSUME MemoryTyped, NEW i \in DOMAIN out
  PROVE  Present(i) \in SUBSET Entities
<1>1. Capped(out[i].events) \subseteq out[i].events
  BY DEF Capped, CapEvents
<1>2. ASSUME NEW e \in out[i].events
      PROVE  incident[e] \subseteq Entities
  BY <1>2, MemoryAssumption DEF MemoryTyped
<1> QED
  BY <1>1, <1>2 DEF Present

LEMMA RememberedFacts ==
  ASSUME WindowsInv, PlaceInv, done, MemoryTyped, NEW i \in DOMAIN out
  PROVE  /\ Remembered(i) \subseteq DOMAIN out
         /\ i \in Remembered(i)
         /\ \A j \in Remembered(i) : j # i => Position(j) < Position(i)
         /\ GraphAt(i) \in GraphSet
<1>1. Remembered(i) \subseteq DOMAIN out
  BY OutFacts DEF Remembered
<1>2. i \in Remembered(i)
  <2>1. memory \in Nat \ {0}
    BY MemoryAssumption DEF MemoryTyped
  <2> QED
    BY <2>1, OutFacts, PositionFacts DEF Remembered
<1>3. \A j \in Remembered(i) : j # i => Position(j) < Position(i)
  <2>1. \A j \in Remembered(i) : j # i => j < i
    BY OutFacts DEF Remembered
  <2> QED
    BY <1>1, <2>1, PositionFacts
<1>4. Copies(i) \subseteq Nat \X Entities
  <2>1. \A j \in Remembered(i) : {Position(j)} \X Present(j) \subseteq Nat \X Entities
    BY <1>1, PositionFacts, PresentFacts
  <2> QED
    BY <2>1 DEF Copies
<1>5. GraphAt(i) \in GraphSet
  BY <1>4, OutFacts, PositionFacts DEF GraphAt, GraphSet
<1> QED
  BY <1>1, <1>2, <1>3, <1>5

LEMMA GraphsInit == MemoryInit => GraphsInv
<1> SUFFICES ASSUME MemoryInit PROVE GraphsInv
  OBVIOUS
<1>1. out = <<>> /\ Len(out) = 0 /\ DOMAIN out = {}
  BY DEF MemoryInit, WindowsInit
<1>2. graphs = <<>> /\ k = 0 /\ DOMAIN graphs = {}
  BY DEF MemoryInit
<1> QED
  BY <1>1, <1>2 DEF MemoryInit, GraphsInv, MemoryTyped

(* The generator runs before the first graph is built.                     *)
LEMMA GraphsWindow ==
  ASSUME WindowsInv, WindowsInv', GraphsInv, WindowPhase
  PROVE  GraphsInv' /\ k = 0 /\ graphs = <<>>
<1>1. ~ done /\ UNCHANGED <<memArgs, k, graphs>> /\ UNCHANGED events
  BY DEF WindowPhase, WindowStep, DropTail, YieldWindow, SkipEmpty, LoopOver, InLoop, winArgs
<1>2. k = 0 /\ graphs = <<>>
  <2>1. k = 0
    BY <1>1 DEF GraphsInv, MemoryTyped
  <2>2. DOMAIN graphs = {}
    BY <2>1 DEF GraphsInv
  <2>3. graphs \in Seq(GraphSet)
    BY DEF GraphsInv, MemoryTyped
  <2> QED
    BY <2>1, <2>2, <2>3
<1>3. \A i \in DOMAIN out' : out'[i].events \subseteq events
  <2>1. \A i \in DOMAIN out : out[i].events \subseteq events
    BY DEF GraphsInv, MemoryTyped
  <2>2. CASE YieldWindow
    <3>1. out' = Append(out, [w_idx |-> w_idx, t0 |-> t0, events |-> InWindow])
      BY <2>2 DEF YieldWindow
    <3>2. InWindow \subseteq events
      BY DEF InWindow
    <3>3. /\ DOMAIN out' = DOMAIN out \cup {Len(out) + 1}
          /\ \A i \in DOMAIN out : out'[i] = out[i]
          /\ out'[Len(out) + 1].events = InWindow
      BY <3>1, OutFacts
    <3> QED
      BY <2>1, <3>2, <3>3
  <2>3. CASE out' = out
    BY <2>1, <2>3
  <2> QED
    BY <2>2, <2>3 DEF WindowPhase, WindowStep, DropTail, SkipEmpty, LoopOver
<1>4. Len(out') \in Nat
  <2>1. out' \in Seq(WindowSet)
    BY DEF WindowsInv, WindowsTypeOK
  <2> QED
    BY <2>1
<1>5. MemoryTyped'
  <2>1. incident' = incident /\ must' = must /\ memory' = memory /\ cap' = cap
    BY <1>1 DEF memArgs
  <2> QED
    BY <1>1, <1>2, <1>3, <1>4, <2>1 DEF GraphsInv, MemoryTyped
<1>6. DOMAIN graphs' = {}
  BY <1>1, <1>2
<1> QED
  BY <1>2, <1>5, <1>6 DEF GraphsInv

LEMMA GraphsBuild ==
  ASSUME WindowsInv, PlaceInv, GraphsInv, BuildGraph
  PROVE  GraphsInv'
<1>1. /\ done /\ k < Len(out) /\ k' = k + 1 /\ UNCHANGED <<out, events, done, stride>>
      /\ incident' = incident /\ must' = must /\ memory' = memory /\ cap' = cap
  BY DEF BuildGraph, winVars, winArgs, memArgs
<1>2. MemoryTyped /\ k \in Nat /\ k + 1 \in DOMAIN out /\ graphs \in Seq(GraphSet)
  BY <1>1, OutFacts DEF GraphsInv, MemoryTyped
<1>3. GraphAt(k + 1) \in GraphSet
  BY <1>1, <1>2, RememberedFacts
<1>4. graphs' = graphs \/ graphs' = Append(graphs, GraphAt(k + 1))
  BY <1>1 DEF BuildGraph, GraphAt
<1>5. \A i : GraphAt(i)' = GraphAt(i)
  BY <1>1 DEF GraphAt, Copies, Present, Capped, CapEvents, Remembered, Position
<1>6. /\ graphs' \in Seq(GraphSet)
      /\ \A g \in DOMAIN graphs' :
           \/ g \in DOMAIN graphs /\ graphs'[g] = graphs[g]
           \/ graphs'[g] = GraphAt(k + 1)
  <2>1. CASE graphs' = graphs
    BY <1>2, <2>1
  <2>2. CASE graphs' = Append(graphs, GraphAt(k + 1))
    BY <1>2, <1>3, <2>2
  <2> QED
    BY <1>4, <2>1, <2>2
<1>7. MemoryTyped'
  BY <1>1, <1>2, <1>6, OutFacts DEF MemoryTyped
<1>8. \A g \in DOMAIN graphs' : \E i \in 1..k' : graphs'[g] = GraphAt(i)
  <2>1. ASSUME NEW g \in DOMAIN graphs, graphs'[g] = graphs[g]
        PROVE  \E i \in 1..k' : graphs'[g] = GraphAt(i)
    <3>1. PICK i \in 1..k : graphs[g] = GraphAt(i)
      BY DEF GraphsInv
    <3>2. i \in 1..k'
      BY <1>1, <1>2, <3>1
    <3> QED
      BY <2>1, <3>1, <3>2
  <2>2. k + 1 \in 1..k'
    BY <1>1, <1>2
  <2> QED
    BY <1>6, <2>1, <2>2
<1>9. \A g \in DOMAIN graphs' : \E i \in 1..k' : graphs'[g] = GraphAt(i)'
  BY <1>5, <1>8
<1> QED
  BY <1>7, <1>9 DEF GraphsInv

LEMMA GraphsStutter == GraphsInv /\ UNCHANGED memVars => GraphsInv'
<1> SUFFICES ASSUME GraphsInv, UNCHANGED memVars PROVE GraphsInv'
  OBVIOUS
<1>1. UNCHANGED <<events, stride, out, done, incident, must, memory, cap, k, graphs>>
  BY DEF memVars, winVars, winArgs, memArgs
<1>2. \A i : GraphAt(i)' = GraphAt(i)
  BY <1>1 DEF GraphAt, Copies, Present, Capped, CapEvents, Remembered, Position
<1>3. MemoryTyped'
  BY <1>1 DEF GraphsInv, MemoryTyped
<1> QED
  BY <1>1, <1>2, <1>3 DEF GraphsInv

LEMMA GraphsInvHolds == MemorySpec => []GraphsInv
<1>1. WindowsInv /\ WindowsInv' /\ PlaceInv /\ GraphsInv /\ [MemoryStep]_memVars => GraphsInv'
  BY GraphsWindow, GraphsBuild, GraphsStutter DEF MemoryStep
<1> QED
  BY <1>1, GraphsInit, WindowsUnderMemory, PTL DEF MemorySpec, MemoryStep

LEMMA TimeFacts == WindowsInv /\ PlaceInv /\ GraphsInv => MemoryIsTime
<1> SUFFICES ASSUME WindowsInv, PlaceInv, GraphsInv, NEW g \in DOMAIN graphs
             PROVE  LET n          == graphs[g].w_idx + 1
                        elapsed(i) == out[n].t0 - out[i].t0
                        recent     == {i \in 1..n : elapsed(i) < memory * stride}
                    IN  {<<(graphs[g].pos - c[1]) * stride, c[2]>> : c \in graphs[g].copies} =
                          UNION {{elapsed(i)} \X Present(i) : i \in recent}
  BY DEF MemoryIsTime
<1> DEFINE m == graphs[g].w_idx + 1
           elapsed(i) == out[m].t0 - out[i].t0
           recent == {i \in 1..m : elapsed(i) < memory * stride}
           aged == {<<(graphs[g].pos - c[1]) * stride, c[2]>> : c \in graphs[g].copies}
<1>1. PICK i \in 1..k : graphs[g] = GraphAt(i)
  BY DEF GraphsInv
<1>2. done /\ i \in DOMAIN out /\ k \in Nat
  BY <1>1, OutFacts DEF GraphsInv, MemoryTyped
<1>3. m = i
  BY <1>1, <1>2, OutFacts DEF GraphAt
<1>4. stride \in Nat \ {0} /\ memory \in Nat \ {0}
  BY ArgumentFacts, MemoryAssumption DEF WindowsInv, GraphsInv, MemoryTyped
<1>5. ASSUME NEW j \in 1..i
      PROVE  /\ (Position(i) - Position(j)) * stride = elapsed(j)
             /\ j \in Remembered(i) <=> j \in recent
  <2>1. j \in DOMAIN out /\ 1 \in DOMAIN out
    BY <1>2, OutFacts
  <2>2. PICK p \in Nat : p = Position(i)
    BY <1>2, PositionFacts
  <2>3. PICK q \in Nat : q = Position(j)
    BY <1>2, <2>1, PositionFacts
  <2>4. p * stride = out[i].t0 - out[1].t0 /\ q * stride = out[j].t0 - out[1].t0
    BY <1>2, <2>1, <2>2, <2>3, PositionFacts
  <2>5. (p - q) * stride = elapsed(j)
    <3>1. (p - q) * stride = p * stride - q * stride
      BY <1>4
    <3>2. elapsed(j) = out[i].t0 - out[j].t0
      BY <1>3
    <3>3. out[i].t0 \in Nat /\ out[j].t0 \in Nat /\ out[1].t0 \in Nat
      BY <1>2, <2>1, OutFacts
    <3> HIDE DEF elapsed
    <3> QED
      BY <2>4, <3>1, <3>2, <3>3
  <2>6. q > p - memory <=> (p - q) * stride < memory * stride
    <3>1. CASE q > p - memory
      <4>1. p - q < memory
        BY <1>4, <3>1
      <4> QED
        BY <1>4, <3>1, <4>1
    <3>2. CASE ~ (q > p - memory)
      <4>1. p - q >= memory
        BY <1>4, <3>2
      <4>2. (p - q) * stride >= memory * stride
        BY <1>4, <4>1
      <4> QED
        BY <1>4, <3>2, <4>2
    <3> QED
      BY <3>1, <3>2
  <2> QED
    BY <1>3, <2>2, <2>3, <2>5, <2>6 DEF Remembered
<1>6. recent = Remembered(i)
  BY <1>3, <1>5 DEF Remembered
<1>7. graphs[g].pos = Position(i) /\ graphs[g].copies = Copies(i)
  BY <1>1 DEF GraphAt
<1>8. Remembered(i) \subseteq 1..i
  BY DEF Remembered
<1>9. aged \subseteq UNION {{elapsed(j)} \X Present(j) : j \in recent}
  <2> SUFFICES ASSUME NEW c \in Copies(i)
               PROVE  <<(Position(i) - c[1]) * stride, c[2]>>
                         \in UNION {{elapsed(j)} \X Present(j) : j \in Remembered(i)}
    BY <1>6, <1>7
  <2>1. PICK j \in Remembered(i) : c \in {Position(j)} \X Present(j)
    BY DEF Copies
  <2>2. (Position(i) - c[1]) * stride = elapsed(j) /\ c[2] \in Present(j)
    BY <1>5, <1>8, <2>1
  <2> QED
    BY <2>2
<1>10. UNION {{elapsed(j)} \X Present(j) : j \in recent} \subseteq aged
  <2> SUFFICES ASSUME NEW j \in Remembered(i), NEW x \in Present(j)
               PROVE  <<elapsed(j), x>> \in aged
    BY <1>6
  <2>1. <<Position(j), x>> \in Copies(i)
    BY DEF Copies
  <2>2. elapsed(j) = (Position(i) - <<Position(j), x>>[1]) * stride
    BY <1>5, <1>8
  <2> QED
    BY <1>7, <2>1, <2>2
<1> QED
  BY <1>9, <1>10

(* The copies in a memory graph and their ages go by the time that passed, *)
(* however long the gaps in the telemetry, for any run, stride and memory: *)
(* all windows start at a multiple of the stride, so the position that is  *)
(* rounded from a difference of times is exact (ppt/graph.py:120-129).     *)
THEOREM MemoryGoesByTime == MemorySpec => []MemoryIsTime
  BY TimeFacts, WindowsUnderMemory, GraphsInvHolds, PTL

----------------------------------------------------------------------------
(* The cap                                                                 *)

(* Quotients of numbers that lie a divisor apart are apart.                *)
LEMMA QuotientsApart ==
  ASSUME NEW m \in Nat \ {0}, NEW a \in Nat, NEW b \in Nat, b >= a + m
  PROVE  a \div m \in Nat /\ b \div m \in Nat /\ a \div m < b \div m
<1>1. PICK p \in Nat : p = a \div m
  OBVIOUS
<1>2. PICK q \in Nat : q = b \div m
  OBVIOUS
<1>3. m * p <= a /\ b < m * q + m
  <2>1. PICK r \in 0..m - 1 : r = a % m
    OBVIOUS
  <2>2. PICK t \in 0..m - 1 : t = b % m
    OBVIOUS
  <2>3. a = m * p + r /\ b = m * q + t
    BY <1>1, <1>2, <2>1, <2>2
  <2> QED
    BY <2>3
<1>4. m * p < m * q
  BY <1>3
<1>5. p < q
  <2>1. SUFFICES ASSUME q <= p PROVE FALSE
    OBVIOUS
  <2>2. m * q <= m * p
    BY <2>1
  <2> QED
    BY <1>4, <2>2
<1> QED
  BY <1>1, <1>2, <1>5

(* A sample of n out of len positions has n of them, with both ends from   *)
(* two on.                                                                 *)
LEMMA SpreadFacts ==
  ASSUME NEW len \in Nat, NEW n \in Nat \ {0}, n <= len
  PROVE  /\ Spread(len, n) \subseteq 0..len - 1
         /\ IsFiniteSet(Spread(len, n)) /\ Cardinality(Spread(len, n)) = n
         /\ n >= 2 => 0 \in Spread(len, n) /\ len - 1 \in Spread(len, n)
<1>1. CASE n = 1
  <2>1. Spread(len, n) = {0} /\ 0 \in 0..len - 1
    BY <1>1 DEF Spread
  <2>2. IsFiniteSet({0}) /\ Cardinality({0}) = 1
    BY FS_Singleton
  <2>3. Spread(len, n) \subseteq 0..len - 1 /\ ~ (n >= 2)
    BY <1>1, <2>1
  <2>4. IsFiniteSet(Spread(len, n)) /\ Cardinality(Spread(len, n)) = n
    BY <1>1, <2>1, <2>2, Zenon
  <2> QED
    BY <2>3, <2>4
<1>2. CASE n >= 2
  <2>1. PICK m \in Nat \ {0} : m = n - 1
    BY <1>2
  <2>2. PICK L \in Nat : L = len - 1 /\ L >= m
    BY <1>2, <2>1
  <2> DEFINE f == [i \in 0..m |-> (i * L) \div m]
  <2>3. Spread(len, n) = {f[i] : i \in 0..m}
    BY <1>2, <2>1, <2>2 DEF Spread
  <2>4. \A i, j \in 0..m : i < j => f[i] \in Nat /\ f[j] \in Nat /\ f[i] < f[j]
    <3> SUFFICES ASSUME NEW i \in 0..m, NEW j \in 0..m, i < j
                 PROVE  f[i] \in Nat /\ f[j] \in Nat /\ f[i] < f[j]
      OBVIOUS
    <3>1. i * L \in Nat /\ j * L \in Nat
      OBVIOUS
    <3>2. j * L >= i * L + m
      <4>1. j * L >= (i + 1) * L
        OBVIOUS
      <4>2. (i + 1) * L = i * L + L
        OBVIOUS
      <4> QED
        BY <2>2, <3>1, <4>1, <4>2
    <3> QED
      BY <3>1, <3>2, QuotientsApart
  <2>5. f[0] = 0 /\ f[m] = L
    <3>1. 0 * L = 0 /\ 0 \div m = 0
      OBVIOUS
    <3>2. (m * L) \div m = L
      <4>1. m * L \in Nat
        OBVIOUS
      <4>2. PICK q \in Nat : q = (m * L) \div m
        BY <4>1
      <4>3. PICK r \in 0..m - 1 : r = (m * L) % m
        BY <4>1
      <4>4. m * L = m * q + r
        BY <4>1, <4>2, <4>3
      <4>5. m * (L - q) = r
        BY <4>4
      <4>6. ~ (L - q > 0)
        <5>1. L - q > 0 => m * (L - q) >= m
          OBVIOUS
        <5> QED
          BY <4>3, <4>5, <5>1
      <4>7. ~ (L - q < 0)
        <5>1. L - q < 0 => m * (L - q) < 0
          OBVIOUS
        <5> QED
          BY <4>3, <4>5, <5>1
      <4> QED
        BY <4>2, <4>6, <4>7
    <3> QED
      BY <3>1, <3>2
  <2> HIDE DEF f
  <2>6. \A i \in 0..m : f[i] \in 0..L
    <3> SUFFICES ASSUME NEW i \in 0..m PROVE f[i] \in 0..L
      OBVIOUS
    <3>1. i = m \/ i < m
      OBVIOUS
    <3>2. i < m => f[i] \in Nat /\ f[i] < f[m]
      BY <2>1, <2>4
    <3> QED
      BY <2>2, <2>5, <3>1, <3>2
  <2>7. f \in [0..m -> {f[i] : i \in 0..m}]
    BY DEF f
  <2>8. \A i, j \in 0..m : f[i] = f[j] => i = j
    <3> SUFFICES ASSUME NEW i \in 0..m, NEW j \in 0..m, f[i] = f[j], i # j PROVE FALSE
      OBVIOUS
    <3>1. i < j \/ j < i
      OBVIOUS
    <3>2. f[i] \in Nat /\ ~ (f[i] < f[i])
      BY <2>6
    <3> QED
      BY <2>4, <3>1, <3>2
  <2>9. f \in Injection(0..m, Spread(len, n)) /\ f \in Surjection(0..m, Spread(len, n))
    BY <2>3, <2>7, <2>8 DEF Injection, IsInjective, Surjection
  <2>10. IsFiniteSet(0..m) /\ Cardinality(0..m) = n
    BY <2>1, FS_Interval
  <2>11. IsFiniteSet(Spread(len, n)) /\ Cardinality(Spread(len, n)) = n
    BY <2>9, <2>10, FS_Surjection
  <2>12. Spread(len, n) \subseteq 0..len - 1
    BY <2>2, <2>3, <2>6
  <2>13. 0 \in Spread(len, n) /\ len - 1 \in Spread(len, n)
    BY <2>2, <2>3, <2>5
  <2> QED
    BY <2>11, <2>12, <2>13
<1> QED
  BY <1>1, <1>2

(* The sample of a set of events.                                          *)
Sampled(rest, n) == {e \in rest : Rank(rest, e) \in Spread(Cardinality(rest), n)}

LEMMA SampleFacts ==
  ASSUME NEW rest \in SUBSET Nat, IsFiniteSet(rest),
         NEW n \in Nat \ {0}, n <= Cardinality(rest)
  PROVE  /\ Sampled(rest, n) \subseteq rest
         /\ IsFiniteSet(Sampled(rest, n)) /\ Cardinality(Sampled(rest, n)) = n
         /\ n >= 2 =>
              \A e \in rest : (\A f \in rest : e <= f) \/ (\A f \in rest : f <= e) =>
                e \in Sampled(rest, n)
<1> DEFINE S == Sampled(rest, n)
           P == Spread(Cardinality(rest), n)
           f == [e \in S |-> Rank(rest, e)]
<1>1. Cardinality(rest) \in Nat
  BY FS_CardinalityType
<1>2. /\ P \subseteq 0..Cardinality(rest) - 1
      /\ IsFiniteSet(P) /\ Cardinality(P) = n
      /\ n >= 2 => 0 \in P /\ Cardinality(rest) - 1 \in P
  BY <1>1, SpreadFacts
<1>3. S \subseteq rest /\ \A e \in rest : e \in S <=> Rank(rest, e) \in P
  BY DEF Sampled
<1>4. f \in Injection(S, P)
  <2>1. f \in [S -> P]
    BY <1>3
  <2>2. \A d, e \in S : f[d] = f[e] => d = e
    <3> SUFFICES ASSUME NEW d \in S, NEW e \in S, Rank(rest, d) = Rank(rest, e), d # e
                 PROVE  FALSE
      OBVIOUS
    <3>1. d \in Nat /\ e \in Nat /\ d \in rest /\ e \in rest
      BY <1>3
    <3>2. d < e \/ e < d
      BY <3>1
    <3>3. Rank(rest, d) < Rank(rest, e) \/ Rank(rest, e) < Rank(rest, d)
      BY <3>1, <3>2, RankOnto
    <3>4. Rank(rest, d) \in Nat
      BY <3>1, RankFacts
    <3> QED
      BY <3>3, <3>4
  <2> QED
    BY <2>1, <2>2 DEF Injection, IsInjective
<1>5. f \in Surjection(S, P)
  <2>1. \A i \in P : \E e \in S : f[e] = i
    <3> SUFFICES ASSUME NEW i \in P PROVE \E e \in S : f[e] = i
      OBVIOUS
    <3>1. PICK e \in rest : Rank(rest, e) = i
      BY <1>2, RankOnto
    <3> QED
      BY <1>3, <3>1
  <2>2. f \in [S -> P]
    BY <1>3
  <2> QED
    BY <2>1, <2>2 DEF Surjection
<1>6. IsFiniteSet(S) /\ Cardinality(S) = n
  <2> HIDE DEF f, S, P
  <2>1. IsFiniteSet(S)
    BY <1>3, FS_Subset
  <2> QED
    BY <1>2, <1>4, <1>5, <2>1, FS_Injection
<1>7. ASSUME n >= 2, NEW e \in rest, \A x \in rest : e <= x
      PROVE  e \in S
  <2>1. PICK r \in rest : Rank(rest, r) = 0
    <3>1. 0 \in 0..Cardinality(rest) - 1
      BY <1>1, <1>7
    <3> QED
      BY <3>1, RankOnto
  <2>2. ~ (e < r)
    <3>1. e < r => Rank(rest, e) < Rank(rest, r) /\ Rank(rest, e) \in Nat
      BY RankOnto, RankFacts
    <3> QED
      BY <2>1, <3>1
  <2>3. e = r
    BY <1>7, <2>2
  <2> QED
    BY <1>2, <1>3, <1>7, <2>1, <2>3
<1>8. ASSUME n >= 2, NEW e \in rest, \A x \in rest : x <= e
      PROVE  e \in S
  <2>1. PICK r \in rest : Rank(rest, r) = Cardinality(rest) - 1
    <3>1. Cardinality(rest) - 1 \in 0..Cardinality(rest) - 1
      BY <1>1, <1>8
    <3> QED
      BY <3>1, RankOnto
  <2>2. ~ (r < e)
    <3>1. r < e => Rank(rest, r) < Rank(rest, e)
      BY RankOnto
    <3>2. Rank(rest, e) \in Nat /\ Rank(rest, e) < Cardinality(rest)
      BY RankFacts
    <3> QED
      BY <1>1, <2>1, <3>1, <3>2
  <2>3. e = r
    BY <1>8, <2>2
  <2> QED
    BY <1>2, <1>3, <1>8, <2>1, <2>3
<1> QED
  BY <1>3, <1>6, <1>7, <1>8

(* Events that are always kept and a sample of the others.                 *)
LEMMA DisjointUnion ==
  ASSUME NEW S, NEW T, IsFiniteSet(S), IsFiniteSet(T), S \cap T = {}
  PROVE  Cardinality(S \cup T) = Cardinality(S) + Cardinality(T)
<1>1. Cardinality(S \cap T) = 0
  BY FS_EmptySet
<1>2. Cardinality(S \cup T) = Cardinality(S) + Cardinality(T) - Cardinality(S \cap T)
  BY FS_Union
<1>3. Cardinality(S) \in Nat /\ Cardinality(T) \in Nat
  BY FS_CardinalityType
<1> QED
  BY <1>1, <1>2, <1>3

(* CapIsExact for one window.                                              *)
CapExact(E) ==
  LET always == E \cap must
      kept   == Capped(E)
      isEnd(e) == (\A f \in E \ must : e <= f) \/ (\A f \in E \ must : f <= e)
  IN  /\ always \subseteq kept
      /\ Cardinality(E) > cap =>
           Cardinality(kept) = IF Cardinality(always) > cap THEN Cardinality(always) ELSE cap
      /\ cap >= Cardinality(always) + 2 =>
           \A e \in E \ must : isEnd(e) => e \in kept

LEMMA CapFacts ==
  ASSUME NEW E \in SUBSET Nat, IsFiniteSet(E), cap \in Nat
  PROVE  CapExact(E)
<1> DEFINE always == E \cap must
           rest == E \ must
           n == cap - Cardinality(always)
<1>1. IsFiniteSet(always) /\ IsFiniteSet(rest) /\ rest \in SUBSET Nat
  BY FS_Subset
<1>2. /\ Cardinality(E) \in Nat /\ Cardinality(always) \in Nat /\ Cardinality(rest) \in Nat
      /\ n \in Int
  BY <1>1, FS_CardinalityType
<1>3. Cardinality(E) = Cardinality(always) + Cardinality(rest)
  <2>1. E = always \cup rest /\ always \cap rest = {}
    OBVIOUS
  <2> HIDE DEF always, rest
  <2> QED
    BY <1>1, <2>1, DisjointUnion
<1>4. Capped(E) = IF Cardinality(E) <= cap THEN E
                  ELSE IF n <= 0 \/ rest = {} THEN always
                  ELSE always \cup Sampled(rest, n)
  BY DEF Capped, CapEvents, Sampled
<1>5. CASE Cardinality(E) <= cap
  <2>1. Capped(E) = E /\ ~ (Cardinality(E) > cap)
    BY <1>2, <1>4, <1>5
  <2> QED
    BY <2>1 DEF CapExact
<1>6. CASE Cardinality(E) > cap
  <2>1. ~ (Cardinality(E) <= cap)
    BY <1>2, <1>6
  <2>2. CASE n <= 0
    <3>1. Capped(E) = always
      BY <1>4, <2>1, <2>2
    <3>2. Cardinality(always) = IF Cardinality(always) > cap THEN Cardinality(always) ELSE cap
      <4> HIDE DEF always
      <4> QED
        BY <1>2, <2>2
    <3>3. ~ (cap >= Cardinality(always) + 2)
      <4> HIDE DEF always
      <4> QED
        BY <1>2, <2>2
    <3> QED
      BY <3>1, <3>2, <3>3 DEF CapExact
  <2>3. CASE n > 0
    <3>1. Cardinality(rest) # 0 /\ rest # {} /\ n \in Nat \ {0} /\ n <= Cardinality(rest)
          /\ ~ (n <= 0)
      <4> HIDE DEF always, rest
      <4>1. Cardinality(rest) # 0
        BY <1>2, <1>3, <1>6, <2>3 DEF n
      <4>2. rest # {}
        BY <4>1, FS_EmptySet
      <4> QED
        BY <1>2, <1>3, <1>6, <2>3, <4>1, <4>2 DEF n
    <3>2. Capped(E) = always \cup Sampled(rest, n)
      BY <1>4, <2>1, <3>1
    <3> HIDE DEF n
    <3>3. /\ Sampled(rest, n) \subseteq rest
          /\ IsFiniteSet(Sampled(rest, n)) /\ Cardinality(Sampled(rest, n)) = n
          /\ n >= 2 =>
               \A e \in rest : (\A f \in rest : e <= f) \/ (\A f \in rest : f <= e) =>
                 e \in Sampled(rest, n)
      <4> HIDE DEF rest
      <4> QED
        BY <1>1, <3>1, SampleFacts
    <3>4. always \cap Sampled(rest, n) = {}
      BY <3>3
    <3>5. Cardinality(always \cup Sampled(rest, n)) = cap
      <4> HIDE DEF always, rest
      <4>1. Cardinality(always \cup Sampled(rest, n)) = Cardinality(always) + n
        BY <1>1, <3>3, <3>4, DisjointUnion
      <4> QED
        BY <1>2, <4>1 DEF n
    <3>6. ~ (Cardinality(always) > cap)
      <4> HIDE DEF always
      <4> QED
        BY <1>2, <2>3 DEF n
    <3>7. cap >= Cardinality(always) + 2 => n >= 2
      <4> HIDE DEF always
      <4> QED
        BY <1>2 DEF n
    <3> QED
      BY <3>2, <3>3, <3>5, <3>6, <3>7 DEF CapExact
  <2> QED
    BY <1>2, <2>2, <2>3
<1> QED
  BY <1>2, <1>5, <1>6

(* The cap leaves exactly as many events as it says, all flows that were   *)
(* not forwarded, and the first and last of the others, for windows of any *)
(* size and any cap: the indices that linspace is cut down to are all      *)
(* different and reach both ends (ppt/graph.py:70-85).                     *)
THEOREM CapLeavesExactly == MemorySpec => []CapIsExact
<1>1. WindowsInv /\ GraphsInv => CapIsExact
  <2> SUFFICES ASSUME WindowsInv, GraphsInv, NEW i \in DOMAIN out
               PROVE  CapExact(out[i].events)
    BY DEF CapIsExact, CapExact
  <2>1. out[i].events \in SUBSET Times
    BY OutFacts
  <2>2. IsFiniteSet(out[i].events) /\ out[i].events \in SUBSET Nat
    BY <2>1, WindowsAssumption, FS_Subset
  <2>3. cap \in Nat
    BY MemoryAssumption DEF GraphsInv, MemoryTyped
  <2> QED
    BY <2>2, <2>3, CapFacts
<1> QED
  BY <1>1, WindowsUnderMemory, GraphsInvHolds, PTL

----------------------------------------------------------------------------
(* Each entity-window once                                                 *)

DueFrom(n) == UNION {DueAt(i) : i \in n..Len(out)}
ScoredSoFar == UNION {Records(graphs[g]) : g \in DOMAIN graphs}

(* There are no more windows than places.                                  *)
IndexInv == ~ done => w_idx <= t0

LEMMA IndexStep == WindowsInv /\ IndexInv /\ [WindowStep]_winVars => IndexInv'
<1> SUFFICES ASSUME WindowsInv, IndexInv, [WindowStep]_winVars, ~ done' PROVE w_idx' <= t0'
  BY DEF IndexInv
<1>1. ~ done /\ w_idx <= t0
  BY DEF IndexInv, WindowStep, DropTail, YieldWindow, SkipEmpty, LoopOver, InLoop, winVars
<1>2. w_idx \in Nat /\ t0 \in Nat /\ stride \in Nat \ {0}
  BY ArgumentFacts DEF WindowsInv, WindowsTypeOK
<1>3. CASE YieldWindow \/ SkipEmpty
  <2>1. (w_idx' = w_idx \/ w_idx' = w_idx + 1) /\ t0' = t0 + stride
    BY <1>3 DEF YieldWindow, SkipEmpty, Advance
  <2> QED
    BY <1>1, <1>2, <2>1
<1>4. CASE UNCHANGED winVars
  BY <1>1, <1>4 DEF winVars
<1> QED
  BY <1>3, <1>4 DEF WindowStep, DropTail, LoopOver

LEMMA IndexInvHolds == MemorySpec => []IndexInv
<1>1. MemoryInit => IndexInv
  <2> SUFFICES ASSUME MemoryInit PROVE IndexInv
    OBVIOUS
  <2>1. WindowsInv /\ w_idx = 0
    BY InitFacts DEF MemoryInit, WindowsInit
  <2> QED
    BY <2>1, ArgumentFacts DEF WindowsInv, IndexInv
<1>2. [MemoryStep]_memVars => [WindowStep]_winVars
  BY DEF MemoryStep, WindowPhase, BuildGraph, memVars
<1> QED
  BY <1>1, <1>2, IndexStep, WindowsUnderMemory, PTL DEF MemorySpec, MemoryStep

(* The records of a graph are what its window is due.                      *)
LEMMA RecordsFacts ==
  ASSUME WindowsInv, PlaceInv, done, MemoryTyped, NEW i \in DOMAIN out
  PROVE  Records(GraphAt(i)) = DueAt(i)
<1>1. Records(GraphAt(i)) =
        {<<out[i].w_idx, c[2]>> : c \in {n \in Copies(i) : n[1] = Position(i)}}
  BY DEF Records, GraphAt
<1>2. {n \in Copies(i) : n[1] = Position(i)} = {Position(i)} \X Present(i)
  <2>1. ASSUME NEW c \in Copies(i), c[1] = Position(i)
        PROVE  c \in {Position(i)} \X Present(i)
    <3>1. PICK j \in Remembered(i) : c \in {Position(j)} \X Present(j)
      BY DEF Copies
    <3>2. j = i
      <4>1. Position(j) = Position(i) /\ Position(i) \in Nat
        BY <2>1, <3>1, PositionFacts
      <4>2. j # i => Position(j) < Position(i)
        BY RememberedFacts
      <4> QED
        BY <4>1, <4>2
    <3> QED
      BY <3>1, <3>2
  <2>2. {Position(i)} \X Present(i) \subseteq Copies(i)
    BY RememberedFacts DEF Copies
  <2> QED
    BY <2>1, <2>2
<1>3. {<<out[i].w_idx, c[2]>> : c \in {Position(i)} \X Present(i)} = {out[i].w_idx} \X Present(i)
  <2>1. ASSUME NEW x \in Present(i)
        PROVE  <<out[i].w_idx, x>> \in
                 {<<out[i].w_idx, c[2]>> : c \in {Position(i)} \X Present(i)}
    <3>1. <<Position(i), x>> \in {Position(i)} \X Present(i) /\ <<Position(i), x>>[2] = x
      OBVIOUS
    <3> QED
      BY <3>1
  <2>2. ASSUME NEW c \in {Position(i)} \X Present(i)
        PROVE  <<out[i].w_idx, c[2]>> \in {out[i].w_idx} \X Present(i)
    OBVIOUS
  <2> QED
    BY <2>1, <2>2
<1> QED
  BY <1>1, <1>2, <1>3 DEF DueAt

LEMMA OnceWindow ==
  ASSUME WindowsInv, WindowsInv', GraphsInv, IndexInv, WindowPhase
  PROVE  Once!Arrive \/ UNCHANGED Once!onceVars
<1>1. k = 0 /\ graphs = <<>> /\ k' = 0 /\ graphs' = <<>>
  BY GraphsWindow DEF WindowPhase
<1>2. ScoredSoFar = {} /\ ScoredSoFar' = {}
  BY <1>1 DEF ScoredSoFar
<1>3. UNCHANGED <<incident, must, cap>>
  BY DEF WindowPhase, memArgs
<1>4. CASE out' = out
  <2>1. DueFrom(k + 1)' = DueFrom(k + 1)
    BY <1>1, <1>3, <1>4 DEF DueFrom, DueAt, Present, Capped, CapEvents
  <2> QED
    BY <1>2, <2>1 DEF Once!onceVars, DueFrom, ScoredSoFar
<1>5. CASE YieldWindow
  <2> PICK new : new = Len(out) + 1
    OBVIOUS
  <2>1. out' = Append(out, [w_idx |-> w_idx, t0 |-> t0, events |-> InWindow])
    BY <1>5 DEF YieldWindow
  <2>2. /\ Len(out) \in Nat /\ w_idx = Len(out) /\ Len(out') = new
        /\ DOMAIN out = 1..Len(out)
        /\ \A i \in 1..Len(out) : out'[i] = out[i] /\ out[i].w_idx < w_idx
        /\ out'[new].w_idx = w_idx
    <3>1. /\ Len(out) \in Nat /\ w_idx = Len(out) /\ DOMAIN out = 1..Len(out)
          /\ \A i \in 1..Len(out) : out[i].w_idx < w_idx
      BY OutFacts
    <3>2. /\ Len(out') = new /\ out'[new] = [w_idx |-> w_idx, t0 |-> t0, events |-> InWindow]
          /\ \A i \in 1..Len(out) : out'[i] = out[i]
      BY <2>1, <3>1
    <3> QED
      BY <3>1, <3>2
  <2>3. \A i \in 1..Len(out) : DueAt(i)' = DueAt(i)
    <3> SUFFICES ASSUME NEW i \in 1..Len(out) PROVE DueAt(i)' = DueAt(i)
      OBVIOUS
    <3>1. out'[i] = out[i]
      BY <2>2
    <3>2. Capped(out[i].events)' = Capped(out[i].events)
      BY <1>3, <3>1 DEF Capped, CapEvents
    <3> QED
      BY <1>3, <3>1, <3>2 DEF DueAt, Present
  <2>4. DueAt(new)' = {w_idx} \X Present(new)'
    BY <2>2 DEF DueAt
  <2>5. DueFrom(k + 1)' = DueFrom(k + 1) \cup ({w_idx} \X Present(new)')
    <3>1. 1..new = (1..Len(out)) \cup {new}
      BY <2>2
    <3>2. DueFrom(k + 1)' = UNION {DueAt(i)' : i \in 1..new}
      BY <1>1, <2>2 DEF DueFrom
    <3>3. DueFrom(k + 1) = UNION {DueAt(i) : i \in 1..Len(out)}
      BY <1>1 DEF DueFrom
    <3> QED
      BY <2>3, <2>4, <3>1, <3>2, <3>3
  <2>6. Present(new)' \in SUBSET Entities
    <3>1. MemoryTyped' /\ new \in DOMAIN out'
      <4>1. GraphsInv'
        BY GraphsWindow
      <4>2. out' \in Seq(WindowSet)
        BY DEF WindowsInv, WindowsTypeOK
      <4> QED
        BY <2>2, <4>1, <4>2 DEF GraphsInv
    <3>2. \A i \in DOMAIN out' : MemoryTyped' => Present(i)' \in SUBSET Entities
      <4> SUFFICES ASSUME NEW i \in DOMAIN out', MemoryTyped'
                   PROVE  Present(i)' \in SUBSET Entities
        OBVIOUS
      <4>1. Capped(out[i].events)' \subseteq out[i].events'
        BY DEF Capped, CapEvents
      <4>2. \A e \in out[i].events' : incident'[e] \subseteq Entities
        BY MemoryAssumption DEF MemoryTyped
      <4> QED
        BY <4>1, <4>2 DEF Present
    <3> QED
      BY <3>1, <3>2
  <2>7. w_idx \in UNION {0..t : t \in Times}
    <3>1. ~ done /\ t0 <= end
      BY <1>5 DEF YieldWindow, InLoop
    <3>2. w_idx \in Nat /\ t0 \in Nat /\ end \in Nat /\ end \in Times
      BY ArgumentFacts DEF WindowsInv, WindowsTypeOK
    <3>3. w_idx \in 0..end
      BY <3>1, <3>2 DEF IndexInv
    <3> QED
      BY <3>2, <3>3
  <2>8. \A d \in DueFrom(k + 1) : d[1] < w_idx
    BY <1>1, <2>2 DEF DueFrom, DueAt
  <2>9. Once!Arrive
    BY <1>2, <2>5, <2>6, <2>7, <2>8 DEF Once!Arrive, DueFrom, ScoredSoFar
  <2> QED
    BY <2>9
<1> QED
  BY <1>4, <1>5 DEF WindowPhase, WindowStep, DropTail, SkipEmpty, LoopOver

LEMMA OnceBuild ==
  ASSUME WindowsInv, PlaceInv, GraphsInv, BuildGraph
  PROVE  Once!ScoreFirst \/ UNCHANGED Once!onceVars
<1> PICK new : new = k + 1
  OBVIOUS
<1>1. /\ done /\ k < Len(out) /\ k' = new /\ out' = out
      /\ UNCHANGED <<incident, must, cap, stride, memory>>
  BY DEF BuildGraph, winVars, winArgs, memArgs
<1>2. MemoryTyped /\ k \in Nat /\ new \in DOMAIN out /\ graphs \in Seq(GraphSet)
  BY <1>1, OutFacts DEF GraphsInv, MemoryTyped
<1>3. \A i : DueAt(i)' = DueAt(i)
  BY <1>1 DEF DueAt, Present, Capped, CapEvents
<1>4. DueFrom(new) = DueAt(new) \cup DueFrom(new + 1)
  <2>1. Len(out) \in Nat /\ new..Len(out) = {new} \cup (new + 1..Len(out))
    BY <1>1, <1>2, OutFacts
  <2> QED
    BY <2>1 DEF DueFrom
<1>5. DueFrom(k + 1)' = DueFrom(new + 1)
  <2>1. DueFrom(k + 1)' = UNION {DueAt(i)' : i \in k' + 1..Len(out')}
    BY DEF DueFrom
  <2>2. k' + 1 = new + 1 /\ Len(out') = Len(out)
    BY <1>1
  <2> QED
    BY <1>3, <2>1, <2>2 DEF DueFrom
<1>6. /\ \A d \in DueAt(new) : d[1] = k
      /\ \A d \in DueFrom(new + 1) : d[1] \in Nat /\ k < d[1]
  <2>1. Len(out) \in Nat /\ \A i \in new..Len(out) : i \in DOMAIN out /\ out[i].w_idx = i - 1
    BY <1>2, OutFacts
  <2> QED
    BY <1>2, <2>1, OutFacts DEF DueAt, DueFrom
<1>7. \A d \in ScoredSoFar : d[1] # k
  <2> SUFFICES ASSUME NEW g \in DOMAIN graphs, NEW d \in Records(graphs[g]) PROVE d[1] # k
    BY DEF ScoredSoFar
  <2>1. PICK i \in 1..k : graphs[g] = GraphAt(i)
    BY DEF GraphsInv
  <2>2. i \in DOMAIN out /\ out[i].w_idx = i - 1
    BY <1>1, <1>2, OutFacts
  <2>3. d[1] = i - 1
    BY <2>1, <2>2 DEF Records, GraphAt
  <2> QED
    BY <1>2, <2>3
<1>8. ScoredSoFar' = ScoredSoFar \cup DueAt(new)
  <2>1. CASE \A j \in Remembered(new) : Capped(out[j].events) = {}
    <3>1. graphs' = graphs
      BY <1>1, <2>1 DEF BuildGraph, Remembered, Position, Capped, CapEvents
    <3>2. Capped(out[new].events) = {}
      BY <1>1, <1>2, <2>1, RememberedFacts
    <3>3. DueAt(new) = {}
      BY <3>2 DEF DueAt, Present
    <3> QED
      BY <3>1, <3>3 DEF ScoredSoFar
  <2>2. CASE ~ \A j \in Remembered(new) : Capped(out[j].events) = {}
    <3>1. graphs' = Append(graphs, GraphAt(new))
      BY <1>1, <2>2 DEF BuildGraph, GraphAt
    <3>2. /\ DOMAIN graphs' = DOMAIN graphs \cup {Len(graphs) + 1}
          /\ \A g \in DOMAIN graphs : graphs'[g] = graphs[g]
          /\ graphs'[Len(graphs) + 1] = GraphAt(new)
      BY <1>1, <1>2, <3>1, RememberedFacts
    <3>3. Records(GraphAt(new)) = DueAt(new)
      BY <1>1, <1>2, RecordsFacts
    <3>4. ScoredSoFar' = UNION {Records(graphs'[g]) : g \in DOMAIN graphs'}
      BY DEF ScoredSoFar, Records
    <3> QED
      BY <3>2, <3>3, <3>4 DEF ScoredSoFar
  <2> QED
    BY <2>1, <2>2
<1>9. CASE DueAt(new) = {}
  <2>1. DueFrom(k + 1)' = DueFrom(k + 1) /\ ScoredSoFar' = ScoredSoFar
    BY <1>4, <1>5, <1>8, <1>9
  <2> QED
    BY <2>1 DEF Once!onceVars, DueFrom, ScoredSoFar
<1>10. CASE DueAt(new) # {}
  <2>1. k \in {d[1] : d \in DueFrom(new)}
    BY <1>4, <1>6, <1>10
  <2>2. {d \in DueFrom(new) : d[1] = k} = DueAt(new)
    BY <1>2, <1>4, <1>6
  <2>3. \A d \in DueFrom(new) : k <= d[1]
    BY <1>2, <1>4, <1>6
  <2>4. DueAt(new) \cap ScoredSoFar = {}
    BY <1>6, <1>7
  <2>5. DueFrom(new + 1) = DueFrom(new) \ DueAt(new)
    BY <1>2, <1>4, <1>6
  <2>6. DueFrom(k + 1)' = DueFrom(new) \ DueAt(new)
    BY <1>5, <2>5
  <2>7. Once!ScoreFirst
    BY <1>8, <2>1, <2>2, <2>3, <2>4, <2>6 DEF Once!ScoreFirst, DueFrom, ScoredSoFar
  <2> QED
    BY <2>7
<1> QED
  BY <1>9, <1>10

(* Scoring goes through the windows of a run in temporal order and scores  *)
(* every entity of a window, which is due, once, and none that was scored  *)
(* before: for any run, memory and cap, every step of the generator and of *)
(* the graph builder is a step of ScoreOnce or leaves it alone             *)
(* (ppt/score.py:5-6).  That none is left over needs fairness.             *)
THEOREM MemoryImplementsScoreOnce == MemorySpec => Once!OnceSafety
<1>1. MemoryInit => Once!OnceInit
  <2> SUFFICES ASSUME MemoryInit PROVE Once!OnceInit
    OBVIOUS
  <2>1. out = <<>> /\ Len(out) = 0 /\ k = 0 /\ graphs = <<>> /\ DOMAIN graphs = {}
    BY DEF MemoryInit, WindowsInit
  <2>2. k + 1..Len(out) = {}
    BY <2>1
  <2> QED
    BY <2>1, <2>2 DEF Once!OnceInit
<1>2. /\ WindowsInv /\ WindowsInv' /\ PlaceInv /\ GraphsInv /\ IndexInv
      /\ [MemoryStep]_memVars
      => [Once!Arrive \/ Once!ScoreFirst]_(Once!onceVars)
  <2>1. UNCHANGED memVars => UNCHANGED Once!onceVars
    BY DEF memVars, winVars, winArgs, memArgs, Once!onceVars, DueAt, Present, Capped, CapEvents, Records
  <2> QED
    BY <2>1, OnceWindow, OnceBuild DEF MemoryStep
<1> QED
  BY <1>1, <1>2, WindowsUnderMemory, GraphsInvHolds, IndexInvHolds, PTL
     DEF MemorySpec, MemoryStep, Once!OnceSafety
=============================================================================
