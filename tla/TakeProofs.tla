----------------------------- MODULE TakeProofs -----------------------------
(***************************************************************************)
(* Proofs about how tts.py cuts a take and how pick_voice.py chooses one,  *)
(* for takes of any length, any number of takes and of lines.  What a fold *)
(* or a recursive function computes is shown by a least counterexample: a  *)
(* set of numbers that is not empty has a least element (Least), and where *)
(* a claim about the n first elements fails first, it holds for n - 1.     *)
(***************************************************************************)
EXTENDS MCNarration, FiniteSetTheorems, WellFoundedInduction, SequenceTheorems, TLAPS

(* The numbers below n: their inclusion is well-founded, as sets are finite. *)
Below(n) == 0 .. n - 1

(* Every set of numbers that is not empty has a least element.              *)
LEMMA Least ==
    ASSUME NEW T \in SUBSET Nat, T # {}
    PROVE  \E m \in T : \A n \in T : m <= n
  <1>. DEFINE I == {Below(n) : n \in T}
              R == StrictSubsetOrdering(Nat)
  <1>1. \A n \in Nat : Below(n) \in FiniteSubsetsOf(Nat)
    BY FS_Interval DEF FiniteSubsetsOf, Below
  <1>2. I \subseteq FiniteSubsetsOf(Nat) /\ I # {}
    BY <1>1
  <1>3. IsWellFoundedOn(R, FiniteSubsetsOf(Nat))
    BY FS_StrictSubsetOrderingWellFounded
  <1>. HIDE DEF R
  <1>4. PICK x \in I : \A y \in I : <<y, x>> \notin R
    <2>. HIDE DEF I
    <2>. QED BY <1>2, <1>3, WFMin
  <1>5. PICK m \in T : x = Below(m)
    BY <1>4
  <1>6. \A n \in T : n < m => <<Below(n), Below(m)>> \in R
    <2>. SUFFICES ASSUME NEW n \in T, n < m
                  PROVE  <<Below(n), Below(m)>> \in R
      OBVIOUS
    <2>1. Below(n) \subseteq Below(m) /\ Below(n) # Below(m)
      BY DEF Below
    <2>2. Below(n) \in SUBSET Nat /\ Below(m) \in SUBSET Nat
      BY DEF Below
    <2>. QED BY <2>1, <2>2 DEF R, StrictSubsetOrdering
  <1>7. \A n \in T : <<Below(n), Below(m)>> \notin R
    BY <1>4, <1>5
  <1>8. \A n \in T : ~ (n < m)
    <2>. HIDE DEF I
    <2>. QED BY <1>6, <1>7
  <1>9. T \subseteq Nat
    OBVIOUS
  <1>. QED BY <1>8, <1>9

LEMMA ListsAreSequences ==
    ASSUME NEW S, NEW n \in Nat, NEW f \in [1 .. n -> S]
    PROVE  f \in Seq(S)
  OBVIOUS

-----------------------------------------------------------------------------
(* The loop of quietest.                                                    *)

(* The variables of the loop before the first frame, and after frame i,     *)
(* which is frame i - 1 in Python.                                          *)
Begun == [best |-> <<0, 0>>, run |-> 0, start |-> 0]

OneFrame(quiet, s, i) ==
    LET start == IF s.run = 0 THEN i - 1 ELSE s.start
    IN  IF i \notin quiet THEN [s EXCEPT !.run = 0]
        ELSE [best |-> IF s.run + 1 > s.best[2] - s.best[1]
                       THEN <<start, i>> ELSE s.best,
              run |-> s.run + 1, start |-> start]

IsLoop(after, quiet, n) ==
    after = [i \in 0 .. n |-> IF i = 0 THEN Begun ELSE OneFrame(quiet, after[i - 1], i)]

LEMMA ScanIsLoop ==
    ASSUME NEW window
    PROVE  Scan(window) = (CHOOSE after : IsLoop(after, QuietFrames(window), Len(window))
                          )[Len(window)].best
  BY Zenon DEF Scan, IsLoop, OneFrame, Begun

LoopStates == [best : Nat \X Nat, run : Nat, start : Nat]

(* Frames p + 1 to q are quiet.                                             *)
Quiet(quiet, p, q) == \A f \in (p + 1) .. q : f \in quiet

Run(quiet, s, i) ==
    /\ s.run <= i
    /\ Quiet(quiet, i - s.run, i)
    /\ i - s.run \notin quiet
    /\ s.run > 0 => s.start = i - s.run

Best(quiet, best, i) ==
    /\ best[1] <= best[2] /\ best[2] <= i
    /\ Quiet(quiet, best[1], best[2])
    /\ best[1] < best[2] => best[1] \notin quiet
    /\ \A p, q \in 0 .. i :
          p < q /\ Quiet(quiet, p, q) =>
             \/ q - p < best[2] - best[1]
             \/ q - p = best[2] - best[1] /\ best[1] <= p

(* The run that ends at frame i, and the first of the longest runs so far.  *)
LoopInv(quiet, s, i) ==
    s \in LoopStates /\ Run(quiet, s, i) /\ Best(quiet, s.best, i)

LEMMA LoopBegins ==
    ASSUME NEW quiet \in SUBSET Nat, 0 \notin quiet
    PROVE  LoopInv(quiet, Begun, 0)
  BY DEF LoopInv, LoopStates, Begun, Run, Best, Quiet

LEMMA LoopGoesOn ==
    ASSUME NEW quiet \in SUBSET Nat, NEW i \in Nat, NEW s, LoopInv(quiet, s, i)
    PROVE  LoopInv(quiet, OneFrame(quiet, s, i + 1), i + 1)
  <1>. DEFINE c == OneFrame(quiet, s, i + 1)
              len == s.run
              b1 == s.best[1]
              b2 == s.best[2]
  <1>1. /\ s \in LoopStates /\ len \in Nat /\ b1 \in Nat /\ b2 \in Nat
        /\ s.best = <<b1, b2>> /\ s.start \in Nat
    BY DEF LoopInv, LoopStates
  <1>2. /\ len <= i /\ Quiet(quiet, i - len, i) /\ i - len \notin quiet
        /\ len > 0 => s.start = i - len
        /\ Best(quiet, s.best, i)
    BY DEF LoopInv, Run
  <1>3. CASE i + 1 \notin quiet
    <2>1. c = [s EXCEPT !.run = 0]
      BY <1>3 DEF OneFrame
    <2>2. c \in LoopStates /\ c.run = 0 /\ c.best = s.best
      BY <1>1, <2>1 DEF LoopStates
    <2>3. Run(quiet, c, i + 1)
      BY <1>3, <2>2 DEF Run, Quiet
    <2>4. ASSUME NEW p \in 0 .. i + 1, NEW q \in 0 .. i + 1, p < q, Quiet(quiet, p, q)
          PROVE  q \in 0 .. i /\ p \in 0 .. i
      BY <1>3, <2>4 DEF Quiet
    <2>5. Best(quiet, c.best, i + 1)
      BY <1>1, <1>2, <2>2, <2>4 DEF Best
    <2>. QED BY <2>2, <2>3, <2>5 DEF LoopInv
  <1>4. CASE i + 1 \in quiet
    <2>. DEFINE start == i - len
                best == IF len + 1 > b2 - b1 THEN <<start, i + 1>> ELSE s.best
    <2>1. (IF len = 0 THEN i + 1 - 1 ELSE s.start) = start
      BY <1>1, <1>2
    <2>2. c = [best |-> best, run |-> len + 1, start |-> start]
      BY <1>4, <2>1 DEF OneFrame
    <2>3. start \in Nat /\ best \in Nat \X Nat
      BY <1>1, <1>2
    <2>. HIDE DEF best
    <2>4. c \in LoopStates /\ c.run = len + 1 /\ c.best = best /\ c.start = start
      BY <1>1, <2>2, <2>3 DEF LoopStates
    <2>5. Run(quiet, c, i + 1)
      BY <1>1, <1>2, <1>4, <2>4 DEF Run, Quiet
    <2>6. ASSUME NEW p \in 0 .. i + 1, p < i + 1, Quiet(quiet, p, i + 1)
          PROVE  start <= p
      <3>. SUFFICES ASSUME p < start
                    PROVE  FALSE
        BY <1>1, <2>3
      <3>1. start \in (p + 1) .. i + 1
        BY <1>1, <2>3
      <3>. QED BY <1>2, <2>6, <3>1 DEF Quiet
    <2>7. CASE len + 1 > b2 - b1
      <3>1. best[1] = start /\ best[2] = i + 1
        BY <2>7 DEF best
      <3>2. Quiet(quiet, start, i + 1) /\ start \notin quiet
        BY <1>1, <1>2, <1>4 DEF Quiet
      <3>3. ASSUME NEW p \in 0 .. i + 1, NEW q \in 0 .. i + 1, p < q, Quiet(quiet, p, q)
            PROVE  q - p < len + 1 \/ (q - p = len + 1 /\ start <= p)
        <4>1. CASE q = i + 1
          BY <1>1, <2>6, <3>3, <4>1
        <4>2. CASE q # i + 1
          <5>1. q - p <= b2 - b1
            BY <1>1, <1>2, <3>3, <4>2 DEF Best
          <5>. QED BY <1>1, <2>7, <5>1
        <4>. QED BY <4>1, <4>2
      <3>4. Best(quiet, best, i + 1)
        BY <1>1, <1>2, <2>3, <3>1, <3>2, <3>3 DEF Best
      <3>. QED BY <2>4, <2>5, <3>4 DEF LoopInv
    <2>8. CASE ~(len + 1 > b2 - b1)
      <3>1. best = s.best
        BY <2>8 DEF best
      <3>2. b1 <= b2 /\ b2 <= i
        BY <1>2 DEF Best
      <3>3. ASSUME NEW p \in 0 .. i + 1, NEW q \in 0 .. i + 1, p < q, Quiet(quiet, p, q)
            PROVE  q - p < b2 - b1 \/ (q - p = b2 - b1 /\ b1 <= p)
        <4>1. CASE q = i + 1
          <5>1. start <= p
            BY <2>6, <3>3, <4>1
          <5>. QED BY <1>1, <2>8, <3>2, <4>1, <5>1
        <4>2. CASE q # i + 1
          BY <1>1, <1>2, <3>3, <4>2 DEF Best
        <4>. QED BY <4>1, <4>2
      <3>4. Best(quiet, best, i + 1)
        BY <1>1, <1>2, <3>1, <3>2, <3>3 DEF Best
      <3>. QED BY <2>4, <2>5, <3>4 DEF LoopInv
    <2>. QED BY <2>7, <2>8
  <1>. QED BY <1>3, <1>4

LEMMA LoopKeepsInv ==
    ASSUME NEW quiet \in SUBSET Nat, 0 \notin quiet, NEW n \in Nat, NEW after,
           IsLoop(after, quiet, n)
    PROVE  \A i \in 0 .. n : LoopInv(quiet, after[i], i)
  <1>. DEFINE T == {i \in 0 .. n : ~LoopInv(quiet, after[i], i)}
  <1>. SUFFICES ASSUME T # {}
                PROVE  FALSE
    OBVIOUS
  <1>1. T \in SUBSET Nat
    OBVIOUS
  <1>. HIDE DEF T
  <1>2. PICK m \in T : \A i \in T : m <= i
    BY <1>1, Least
  <1>3. m \in 0 .. n /\ ~LoopInv(quiet, after[m], m)
    BY DEF T
  <1>4. m # 0
    BY <1>3, LoopBegins DEF IsLoop
  <1>5. m - 1 \in 0 .. n /\ m - 1 \in Nat /\ m - 1 \notin T
    BY <1>1, <1>2, <1>3, <1>4
  <1>6. LoopInv(quiet, after[m - 1], m - 1)
    BY <1>5 DEF T
  <1>7. after[m] = OneFrame(quiet, after[m - 1], (m - 1) + 1)
    BY <1>3, <1>4 DEF IsLoop
  <1>. QED BY <1>3, <1>5, <1>6, <1>7, LoopGoesOn

LEMMA LoopExists ==
    ASSUME NEW quiet, NEW n \in Nat
    PROVE  \E after : IsLoop(after, quiet, n)
  <1>. DEFINE T == {i \in Nat : ~\E after : IsLoop(after, quiet, i)}
  <1>. SUFFICES ASSUME T # {}
                PROVE  FALSE
    OBVIOUS
  <1>1. T \in SUBSET Nat
    OBVIOUS
  <1>. HIDE DEF T
  <1>2. PICK m \in T : \A i \in T : m <= i
    BY <1>1, Least
  <1>3. m \in Nat /\ ~\E after : IsLoop(after, quiet, m)
    BY DEF T
  <1>4. CASE m = 0
    <2>1. IsLoop([i \in 0 .. 0 |-> Begun], quiet, 0)
      BY DEF IsLoop
    <2>. QED BY <1>3, <1>4, <2>1
  <1>5. CASE m # 0
    <2>1. m - 1 \in Nat /\ m - 1 \notin T
      BY <1>1, <1>2, <1>3, <1>5
    <2>2. PICK after : IsLoop(after, quiet, m - 1)
      BY <2>1 DEF T
    <2>. DEFINE last == OneFrame(quiet, after[m - 1], m)
                longer == [i \in 0 .. m |-> IF i = m THEN last ELSE after[i]]
    <2>3. /\ longer[m] = last
          /\ \A i \in 0 .. m : i # m => longer[i] = after[i] /\ i \in 0 .. m - 1
          /\ longer = [i \in 0 .. m |-> longer[i]]
      BY <1>3
    <2>4. \A i \in 0 .. m - 1 :
             after[i] = IF i = 0 THEN Begun ELSE OneFrame(quiet, after[i - 1], i)
      BY <2>2 DEF IsLoop
    <2>. HIDE DEF longer
    <2>5. ASSUME NEW i \in 0 .. m
          PROVE  longer[i] = IF i = 0 THEN Begun ELSE OneFrame(quiet, longer[i - 1], i)
      <3>1. CASE i = 0
        BY <1>3, <1>5, <2>3, <2>4, <3>1
      <3>2. CASE i # 0
        <4>1. i - 1 \in 0 .. m - 1 /\ i - 1 # m /\ longer[i - 1] = after[i - 1]
          BY <1>3, <2>3, <3>2
        <4>2. CASE i = m
          BY <2>3, <3>2, <4>1, <4>2
        <4>3. CASE i # m
          BY <2>3, <2>4, <3>2, <4>1, <4>3
        <4>. QED BY <4>2, <4>3
      <3>. QED BY <3>1, <3>2
    <2>6. IsLoop(longer, quiet, m)
      BY <2>3, <2>5 DEF IsLoop
    <2>. QED BY <1>3, <2>6
  <1>. QED BY <1>4, <1>5

(* What the loop returns.                                                   *)
LEMMA ScanFinds ==
    ASSUME NEW window, Len(window) \in Nat, QuietFrames(window) \in SUBSET Nat,
           0 \notin QuietFrames(window)
    PROVE  /\ Scan(window) \in Nat \X Nat
           /\ Best(QuietFrames(window), Scan(window), Len(window))
  <1>. DEFINE quiet == QuietFrames(window)
              n == Len(window)
              after == CHOOSE f : IsLoop(f, quiet, n)
  <1>1. quiet \in SUBSET Nat /\ 0 \notin quiet /\ n \in Nat
    OBVIOUS
  <1>2. Scan(window) = after[n].best
    BY ScanIsLoop
  <1>. HIDE DEF quiet, n
  <1>3. IsLoop(after, quiet, n)
    BY <1>1, LoopExists
  <1>. HIDE DEF after
  <1>4. LoopInv(quiet, after[n], n)
    BY <1>1, <1>3, LoopKeepsInv
  <1>5. after[n].best \in Nat \X Nat /\ Best(quiet, after[n].best, n)
    BY <1>4 DEF LoopInv, LoopStates
  <1>. QED BY <1>2, <1>5 DEF quiet, n

-----------------------------------------------------------------------------
(* Smallest and largest.                                                    *)

LEMMA SmallestOfInts ==
    ASSUME NEW n \in Nat \ {0}, NEW f \in [1 .. n -> Int]
    PROVE  \E m \in 1 .. n : \A i \in 1 .. n : f[m] <= f[i]
  <1>. DEFINE T == {d \in Nat \ {0} : ~\A g \in [1 .. d -> Int] :
                       \E m \in 1 .. d : \A i \in 1 .. d : g[m] <= g[i]}
  <1>. SUFFICES ASSUME T # {}
                PROVE  FALSE
    OBVIOUS
  <1>1. T \in SUBSET Nat
    OBVIOUS
  <1>. HIDE DEF T
  <1>2. PICK d \in T : \A e \in T : d <= e
    BY <1>1, Least
  <1>3. PICK g \in [1 .. d -> Int] :
           d \in Nat \ {0} /\ ~\E m \in 1 .. d : \A i \in 1 .. d : g[m] <= g[i]
    BY DEF T
  <1>4. d # 1
    BY <1>3
  <1>5. d - 1 \in Nat \ {0} /\ d - 1 \notin T
    BY <1>1, <1>2, <1>3, <1>4
  <1>. DEFINE h == [i \in 1 .. d - 1 |-> g[i]]
  <1>6. h \in [1 .. d - 1 -> Int]
    BY <1>3
  <1>7. PICK m \in 1 .. d - 1 : \A i \in 1 .. d - 1 : h[m] <= h[i]
    BY <1>5, <1>6 DEF T
  <1>8. \A i \in 1 .. d - 1 : g[m] <= g[i]
    BY <1>7
  <1>9. /\ m \in 1 .. d /\ d \in 1 .. d
        /\ \A i \in 1 .. d : i = d \/ i \in 1 .. d - 1
    <2>1. d \in Nat \ {0}
      BY <1>3
    <2>. QED BY <1>7, <2>1
  <1>10. CASE g[m] <= g[d]
    BY <1>3, <1>8, <1>9, <1>10
  <1>11. CASE ~(g[m] <= g[d])
    <2>1. ASSUME NEW i \in 1 .. d
          PROVE  g[d] <= g[i]
      <3>1. g[i] \in Int /\ g[d] \in Int /\ g[m] \in Int
        BY <1>9
      <3>2. i = d \/ g[m] <= g[i]
        BY <1>8, <1>9
      <3>. QED BY <1>11, <3>1, <3>2
    <2>. QED BY <1>3, <1>9, <2>1
  <1>. QED BY <1>10, <1>11

LEMMA TwoNumbers ==
    ASSUME NEW x \in Int, NEW y \in Int
    PROVE  /\ Max({x, y}) = IF x >= y THEN x ELSE y
           /\ Min({x, y}) = IF x <= y THEN x ELSE y
  BY DEF Max, Min

(* There is always a frame that passes for quiet.                           *)
LEMMA SomeFrameIsQuiet ==
    ASSUME NEW window \in Seq(Int), Len(window) > 0
    PROVE  /\ QuietFrames(window) \in SUBSET (1 .. Len(window))
           /\ QuietFrames(window) # {}
           /\ (\E i \in QuietFrames(window) : window[i] <= Threshold) =>
                 \A i \in QuietFrames(window) : window[i] <= Threshold
  <1>. DEFINE n == Len(window)
              below(level) == {i \in 1 .. n : window[i] <= level}
  <1>1. n \in Nat \ {0} /\ window \in [1 .. n -> Int]
    OBVIOUS
  <1>2. CASE below(Threshold) # {}
    BY <1>2 DEF QuietFrames
  <1>3. CASE below(Threshold) = {}
    <2>1. QuietFrames(window) = below(Min(ToSet(window)) + Margin)
      BY <1>3 DEF QuietFrames
    <2>2. ToSet(window) = {window[i] : i \in 1 .. n}
      BY DEF ToSet
    <2>. HIDE DEF n
    <2>3. PICK m \in 1 .. n : \A i \in 1 .. n : window[m] <= window[i]
      BY <1>1, SmallestOfInts
    <2>4. /\ window[m] \in ToSet(window)
          /\ \A y \in ToSet(window) : y \in Int /\ window[m] <= y
      BY <1>1, <2>2, <2>3
    <2>5. Min(ToSet(window)) = window[m]
      <3>1. Min(ToSet(window)) \in ToSet(window) /\ Min(ToSet(window)) <= window[m]
        BY <2>4 DEF Min
      <3>. QED BY <1>1, <2>4, <3>1
    <2>6. m \in below(Min(ToSet(window)) + Margin)
      BY <1>1, <2>5, LoudnessAssumption
    <2>. QED BY <1>3, <2>1, <2>6 DEF n
  <1>. QED BY <1>2, <1>3

LEMMA WindowOf ==
    ASSUME NEW db \in Seq(Int), NEW a \in Nat, NEW b \in Int, b <= Len(db), b - a >= 3
    PROVE  /\ Window(db, a, b) \in Seq(Int)
           /\ Len(Window(db, a, b)) = b - a
           /\ \A i \in 1 .. b - a : /\ Window(db, a, b)[i] = db[a + i]
                                    /\ a + i \in 1 .. Len(db)
  <1>1. Len(db) \in Nat /\ db \in [1 .. Len(db) -> Int]
    OBVIOUS
  <1>2. \A i \in (a + 1) .. b : db[i] \in Int
    BY <1>1
  <1>3. /\ SubSeq(db, a + 1, b) \in Seq(Int)
        /\ Len(SubSeq(db, a + 1, b)) = IF a + 1 <= b THEN b - (a + 1) + 1 ELSE 0
        /\ \A i \in 1 .. b - (a + 1) + 1 : SubSeq(db, a + 1, b)[i] = db[(a + 1) + i - 1]
    <2>. DEFINE m == a + 1
    <2>1. m \in Int /\ \A i \in m .. b : db[i] \in Int
      BY <1>2
    <2>. HIDE DEF m
    <2>2. /\ SubSeq(db, m, b) \in Seq(Int)
          /\ Len(SubSeq(db, m, b)) = IF m <= b THEN b - m + 1 ELSE 0
          /\ \A i \in 1 .. b - m + 1 : SubSeq(db, m, b)[i] = db[m + i - 1]
      BY <2>1, SubSeqProperties
    <2>. QED BY <2>2 DEF m
  <1>4. /\ (IF a + 1 <= b THEN b - (a + 1) + 1 ELSE 0) = b - a
        /\ b - (a + 1) + 1 = b - a
        /\ \A i \in 1 .. b - a : (a + 1) + i - 1 = a + i
        /\ \A i \in 1 .. b - a : a + i \in 1 .. Len(db)
    BY <1>1
  <1>. QED BY <1>3, <1>4 DEF Window

(* Too few frames, where no cut is made, leave no window.                   *)
LEMMA NarrowWindow ==
    ASSUME NEW db \in Seq(Int), NEW a \in Nat, NEW b \in Int, b <= Len(db), b - a < 3
    PROVE  Len(Window(db, a, b)) < 3
  <1>1. Len(db) \in Nat /\ db \in [1 .. Len(db) -> Int]
    OBVIOUS
  <1>2. \A i \in (a + 1) .. b : db[i] \in Int
    BY <1>1
  <1>3. Len(SubSeq(db, a + 1, b)) = IF a + 1 <= b THEN b - (a + 1) + 1 ELSE 0
    <2>1. a + 1 \in Int
      OBVIOUS
    <2>. QED BY <1>2, <2>1, SubSeqProperties
  <1>. QED BY <1>3 DEF Window

(* A cut in the middle of a long enough quiet stretch passes in_pause.      *)
LEMMA MiddleIsInPause ==
    ASSUME NEW db \in Seq(Int), NEW a \in Nat, NEW p \in Nat, NEW q \in Nat,
           p < q, a + q <= Len(db), q - p >= MinPause,
           \A i \in (p + 1) .. q : db[a + i] <= Threshold
    PROVE  InPause(db, 2 * a + p + q)
  <1>. DEFINE at == (2 * a + p + q) \div 2 + 1
  <1>1. /\ at \in (a + p + 1) .. a + q
        /\ Len(db) \in Nat
    OBVIOUS
  <1>. HIDE DEF at
  <1>2. /\ at \in 1 .. Len(db)
        /\ a + p + 1 \in 1 .. at /\ a + q \in at .. Len(db)
        /\ (a + q) - (a + p + 1) + 1 >= MinPause
    BY <1>1, LoudnessAssumption
  <1>3. \A k \in (a + p + 1) .. a + q : db[k] <= Threshold
    <2> TAKE k \in (a + p + 1) .. a + q
    <2>1. k - a \in (p + 1) .. q /\ a + (k - a) = k
      OBVIOUS
    <2>. QED BY <2>1
  <1>. QED BY <1>2, <1>3 DEF InPause, at

(* A cut is in the middle of the first of the longest quiet stretches       *)
(* between two words, for every take, and in_pause finds it so when the     *)
(* stretch is long enough (quietest, in_pause).                             *)
THEOREM EveryCutIsInAPause ==
    \A db \in Seq(Int) : \A lo, hi \in Int : CutsThePause(db, lo, hi)
  <1>. SUFFICES ASSUME NEW db \in Seq(Int), NEW lo \in Int, NEW hi \in Int
                PROVE  CutsThePause(db, lo, hi)
    OBVIOUS
  <1>. DEFINE a == Max({0, lo})
              b == Min({Len(db), hi + 1})
              window == Window(db, a, b)
              n == Len(window)
              quiet == QuietFrames(window)
              best == Scan(window)
              p == best[1]
              q == best[2]
  <1>1. a \in Nat /\ b \in Int /\ b <= Len(db)
    <2>1. Len(db) \in Int /\ hi + 1 \in Int
      OBVIOUS
    <2>2. Max({0, lo}) = IF 0 >= lo THEN 0 ELSE lo
      BY TwoNumbers
    <2>. DEFINE y == hi + 1
                z == Len(db)
    <2>3. y \in Int /\ z \in Int
      BY <2>1
    <2>. HIDE DEF y, z
    <2>4. Min({z, y}) = IF z <= y THEN z ELSE y
      BY <2>3, TwoNumbers
    <2>. QED BY <2>1, <2>2, <2>4 DEF y, z
  <1>. HIDE DEF a, b
  <1>2. SUFFICES ASSUME n >= 3
                 PROVE  \E s \in Stretches(window) :
                           /\ Quietest(db, lo, hi) = 2 * a + s[1] + s[2]
                           /\ \A r \in Stretches(window) :
                                 \/ r[2] - r[1] < s[2] - s[1]
                                 \/ r[2] - r[1] = s[2] - s[1] /\ r[1] >= s[1]
                           /\ s[2] - s[1] >= MinPause /\ window[s[2]] <= Threshold =>
                                 InPause(db, Quietest(db, lo, hi))
    BY DEF CutsThePause, a, b
  <1>3. b - a >= 3
    BY <1>1, <1>2, NarrowWindow
  <1>4. /\ window \in Seq(Int) /\ n = b - a
        /\ \A i \in 1 .. n : window[i] = db[a + i] /\ a + i \in 1 .. Len(db)
    BY <1>1, <1>3, WindowOf
  <1>5. Quietest(db, lo, hi) = 2 * a + p + q
    BY <1>1, <1>3 DEF Quietest, a, b
  <1>. HIDE DEF window, n
  <1>6. /\ n \in Nat /\ n > 0
        /\ quiet \in SUBSET (1 .. n) /\ quiet # {}
        /\ (\E i \in quiet : window[i] <= Threshold) =>
              \A i \in quiet : window[i] <= Threshold
    <2>1. n \in Nat /\ n > 0
      BY <1>1, <1>3, <1>4
    <2>. QED BY <1>4, <2>1, SomeFrameIsQuiet DEF n
  <1>7. best \in Nat \X Nat /\ Best(quiet, best, n)
    BY <1>6, ScanFinds DEF n
  <1>. HIDE DEF quiet, best
  <1>8. p \in Nat /\ q \in Nat /\ best = <<p, q>>
    BY <1>7
  <1>9. /\ p <= q /\ q <= n /\ Quiet(quiet, p, q)
        /\ p < q => p \notin quiet
    BY <1>7 DEF Best
  <1>10. ASSUME NEW i \in 0 .. n, NEW j \in 0 .. n, i < j, Quiet(quiet, i, j)
         PROVE  j - i < q - p \/ (j - i = q - p /\ p <= i)
    BY <1>7, <1>10 DEF Best
  <1>11. p < q
    <2>1. PICK f \in quiet : TRUE
      BY <1>6
    <2>2. f \in 1 .. n
      BY <1>6
    <2>3. f - 1 \in 0 .. n /\ f \in 0 .. n /\ f - 1 < f /\ Quiet(quiet, f - 1, f)
      BY <1>6, <2>1, <2>2 DEF Quiet
    <2>4. f - (f - 1) < q - p \/ (f - (f - 1) = q - p /\ p <= f - 1)
      BY <1>10, <2>3
    <2>. QED BY <1>8, <2>2, <2>4
  <1>12. q + 1 \notin quiet
    <2>. SUFFICES ASSUME q + 1 \in quiet
                  PROVE  FALSE
      OBVIOUS
    <2>1. q + 1 \in 1 .. n
      BY <1>6
    <2>2. /\ p \in 0 .. n /\ q + 1 \in 0 .. n /\ p < q + 1
          /\ Quiet(quiet, p, q + 1)
      BY <1>6, <1>8, <1>9, <2>1 DEF Quiet
    <2>3. (q + 1) - p < q - p \/ ((q + 1) - p = q - p /\ p <= p)
      BY <1>10, <2>2
    <2>. QED BY <1>8, <2>3
  <1>13. best \in Stretches(window)
    <2>1. p \in 0 .. n /\ q \in 0 .. n /\ (p + 1) .. q \subseteq quiet
      BY <1>6, <1>8, <1>9 DEF Quiet
    <2>. QED BY <1>8, <1>9, <1>11, <1>12, <2>1 DEF Stretches, quiet, n
  <1>14. ASSUME NEW r \in Stretches(window)
         PROVE  \/ r[2] - r[1] < q - p
                \/ r[2] - r[1] = q - p /\ r[1] >= p
    <2>1. r[1] \in 0 .. n /\ r[2] \in 0 .. n /\ r[1] < r[2] /\ Quiet(quiet, r[1], r[2])
      BY DEF Stretches, Quiet, quiet, n
    <2>. QED BY <1>8, <1>10, <2>1
  <1>15. ASSUME q - p >= MinPause, window[q] <= Threshold
         PROVE  InPause(db, 2 * a + p + q)
    <2>1. q \in quiet
      BY <1>8, <1>9, <1>11 DEF Quiet
    <2>2. \A i \in (p + 1) .. q : window[i] <= Threshold /\ i \in 1 .. n
      BY <1>6, <1>9, <1>15, <2>1 DEF Quiet
    <2>3. \A i \in (p + 1) .. q : db[a + i] <= Threshold
      BY <1>4, <2>2
    <2>4. a + q <= Len(db)
      <3>1. q \in 1 .. n
        BY <1>6, <2>1
      <3>2. a + q \in 1 .. Len(db)
        BY <1>4, <3>1
      <3>. QED BY <3>2
    <2>. QED BY <1>1, <1>8, <1>11, <1>15, <2>3, <2>4, MiddleIsInPause
  <1>. QED BY <1>5, <1>8, <1>13, <1>14, <1>15

-----------------------------------------------------------------------------
(* The likeness of the voice, summed up over the clips of a sentence.       *)

IsSum(sum, clips, S) ==
    sum = [s \in SUBSET S |-> IF s = {} THEN 0
                              ELSE sum[s \ {Max(s)}] + clips[Max(s)].voice]

LEMMA VoiceIsSum ==
    ASSUME NEW clips
    PROVE  Voice(clips) = (CHOOSE sum : IsSum(sum, clips, DOMAIN clips))[DOMAIN clips]
  BY Zenon DEF Voice, FoldLeft, MapThenFoldSet, IsSum

LEMMA LargestOf ==
    ASSUME NEW n \in Nat, NEW s \in SUBSET (1 .. n + 1), n + 1 \in s
    PROVE  Max(s) = n + 1 /\ s \ {n + 1} \in SUBSET (1 .. n)
  <1>1. \A y \in s : y \in Int /\ n + 1 >= y
    OBVIOUS
  <1>2. Max(s) \in s /\ Max(s) >= n + 1
    BY <1>1 DEF Max
  <1>3. \A y \in s : y = n + 1 \/ y \in 1 .. n
    OBVIOUS
  <1>4. Max(s) = n + 1
    <2>. DEFINE x == Max(s)
    <2>1. x \in s /\ x >= n + 1
      BY <1>2
    <2>. HIDE DEF x
    <2>2. x = n + 1
      BY <1>1, <2>1
    <2>. QED BY <2>2 DEF x
  <1>. QED BY <1>3, <1>4

(* A set of numbers up to n has a largest.                                  *)
LEMMA LargestIsIn ==
    ASSUME NEW n \in Nat, NEW s \in SUBSET (1 .. n), s # {}
    PROVE  Max(s) \in s /\ \A y \in s : Max(s) >= y
  <1>. DEFINE T == {d \in Nat : \E y \in s : d = n - y}
  <1>1. T \in SUBSET Nat /\ T # {}
    <2>1. PICK y \in s : TRUE
      OBVIOUS
    <2>2. n - y \in Nat
      OBVIOUS
    <2>. QED BY <2>2
  <1>2. PICK d \in T : \A e \in T : d <= e
    <2>. HIDE DEF T
    <2>. QED BY <1>1, Least
  <1>3. PICK x \in s : d = n - x
    BY <1>2
  <1>4. \A y \in s : n - y \in T
    OBVIOUS
  <1>5. \A y \in s : x >= y
    BY <1>2, <1>3, <1>4
  <1>. QED BY <1>5 DEF Max

LEMMA SumExists ==
    ASSUME NEW clips, NEW n \in Nat
    PROVE  \E sum : IsSum(sum, clips, 1 .. n)
  <1>. DEFINE T == {i \in Nat : ~\E sum : IsSum(sum, clips, 1 .. i)}
  <1>. SUFFICES ASSUME T # {}
                PROVE  FALSE
    OBVIOUS
  <1>1. T \in SUBSET Nat
    OBVIOUS
  <1>. HIDE DEF T
  <1>2. PICK m \in T : \A i \in T : m <= i
    BY <1>1, Least
  <1>3. m \in Nat /\ ~\E sum : IsSum(sum, clips, 1 .. m)
    BY DEF T
  <1>4. CASE m = 0
    <2>1. \A s \in SUBSET (1 .. 0) : s = {}
      OBVIOUS
    <2>2. IsSum([s \in SUBSET (1 .. 0) |-> 0], clips, 1 .. 0)
      BY <2>1 DEF IsSum
    <2>. QED BY <1>3, <1>4, <2>2
  <1>5. CASE m # 0
    <2>1. m - 1 \in Nat /\ m - 1 \notin T /\ (m - 1) + 1 = m
      BY <1>1, <1>2, <1>3, <1>5
    <2>. DEFINE n1 == m - 1
    <2>2. PICK sum : IsSum(sum, clips, 1 .. n1)
      BY <2>1 DEF T
    <2>3. n1 \in Nat /\ m = n1 + 1
      BY <2>1
    <2>. HIDE DEF n1
    <2>. DEFINE with(s) == sum[s \ {m}] + clips[m].voice
                longer == [s \in SUBSET (1 .. m) |-> IF m \in s THEN with(s) ELSE sum[s]]
    <2>4. \A s \in SUBSET (1 .. m) : longer[s] = IF m \in s THEN with(s) ELSE sum[s]
      OBVIOUS
    <2>5. longer = [s \in SUBSET (1 .. m) |-> longer[s]]
      OBVIOUS
    <2>. HIDE DEF longer
    <2>6. \A s \in SUBSET (1 .. n1) :
             sum[s] = IF s = {} THEN 0 ELSE sum[s \ {Max(s)}] + clips[Max(s)].voice
      BY <2>2 DEF IsSum
    <2>7. \A s \in SUBSET (1 .. m) : m \notin s => s \in SUBSET (1 .. n1)
      BY <2>3
    <2>8. ASSUME NEW s \in SUBSET (1 .. m)
          PROVE  longer[s] = IF s = {} THEN 0
                             ELSE longer[s \ {Max(s)}] + clips[Max(s)].voice
      <3>1. CASE m \in s
        <4>1. Max(s) = m /\ s # {}
          BY <2>3, <3>1, LargestOf
        <4>2. longer[s \ {m}] = sum[s \ {m}]
          BY <2>4
        <4>. QED BY <2>4, <3>1, <4>1, <4>2
      <3>2. CASE m \notin s
        <4>1. longer[s] = sum[s] /\ longer[s \ {Max(s)}] = sum[s \ {Max(s)}]
          BY <2>4, <3>2
        <4>. QED BY <2>6, <2>7, <3>2, <4>1
      <3>. QED BY <3>1, <3>2
    <2>9. IsSum(longer, clips, 1 .. m)
      BY <2>5, <2>8 DEF IsSum
    <2>. QED BY <1>3, <2>9
  <1>. QED BY <1>4, <1>5

Clips == Seq([clean : BOOLEAN, match : BOOLEAN, voice : Int])

LEMMA VoiceIsNumber ==
    ASSUME NEW clips \in Clips
    PROVE  Voice(clips) \in Int
  <1>. DEFINE n == Len(clips)
              sum == CHOOSE f : IsSum(f, clips, 1 .. n)
  <1>1. n \in Nat /\ DOMAIN clips = 1 .. n /\ \A i \in 1 .. n : clips[i].voice \in Int
    <2>. DEFINE R == [clean : BOOLEAN, match : BOOLEAN, voice : Int]
    <2>1. clips \in Seq(R)
      BY DEF Clips
    <2>. HIDE DEF R
    <2>2. n \in Nat /\ DOMAIN clips = 1 .. n /\ \A i \in 1 .. n : clips[i] \in R
      BY <2>1
    <2>. QED BY <2>2 DEF R
  <1>2. IsSum(sum, clips, 1 .. n)
    BY <1>1, SumExists
  <1>3. Voice(clips) = sum[1 .. n]
    BY <1>1, VoiceIsSum
  <1>. HIDE DEF n, sum
  <1>4. \A s \in SUBSET (1 .. n) :
           sum[s] = IF s = {} THEN 0 ELSE sum[s \ {Max(s)}] + clips[Max(s)].voice
    BY <1>2 DEF IsSum
  <1>. DEFINE T == {k \in 0 .. n : sum[1 .. k] \notin Int}
  <1>5. ASSUME T # {}
        PROVE  FALSE
    <2>1. T \in SUBSET Nat
      OBVIOUS
    <2>. HIDE DEF T
    <2>2. PICK k \in T : \A i \in T : k <= i
      BY <1>5, <2>1, Least
    <2>3. k \in 0 .. n /\ sum[1 .. k] \notin Int
      BY DEF T
    <2>4. CASE k = 0
      <3>1. 1 .. k = {} /\ {} \in SUBSET (1 .. n)
        BY <2>4
      <3>2. sum[{}] = 0
        BY <1>4, <3>1
      <3>3. sum[1 .. k] = 0
        BY <3>1, <3>2
      <3>. QED BY <2>3, <3>3
    <2>5. CASE k # 0
      <3>1. k - 1 \in 0 .. n /\ k - 1 \in Nat /\ k - 1 \notin T
        BY <1>1, <2>1, <2>2, <2>3, <2>5
      <3>2. sum[1 .. (k - 1)] \in Int
        BY <3>1 DEF T
      <3>3. k \in 1 .. k /\ 1 .. k \in SUBSET (1 .. n) /\ k \in 1 .. n
            /\ (1 .. k) \ {k} = 1 .. (k - 1) /\ (k - 1) + 1 = k
        BY <1>1, <2>3, <2>5
      <3>4. Max(1 .. k) = k
        <4>. DEFINE k1 == k - 1
        <4>1. k1 \in Nat /\ k = k1 + 1
          BY <3>1, <3>3
        <4>. HIDE DEF k1
        <4>2. 1 .. k \in SUBSET (1 .. k1 + 1) /\ k1 + 1 \in 1 .. k
          BY <4>1
        <4>. QED BY <4>1, <4>2, LargestOf
      <3>5. sum[1 .. k] = sum[1 .. (k - 1)] + clips[k].voice
        BY <1>4, <3>3, <3>4
      <3>. QED BY <1>1, <2>3, <3>2, <3>3, <3>5
    <2>. QED BY <2>4, <2>5
  <1>6. n \in 0 .. n
    BY <1>1
  <1>. QED BY <1>3, <1>5, <1>6

-----------------------------------------------------------------------------
(* The best take.                                                           *)

(* As good or better: never worse than the best, in the order of scores.    *)
LEMMA BetterOrders ==
    ASSUME NEW a \in Clips, NEW b \in Clips, NEW c \in Clips
    PROVE  /\ ~Better(a, a)
           /\ Better(a, b) => ~Better(b, a)
           /\ ~Better(a, b) /\ ~Better(b, c) => ~Better(a, c)
  <1>. DEFINE va == Voice(a)
              vb == Voice(b)
              vc == Voice(c)
              ca == AllClean(a)
              cb == AllClean(b)
              cc == AllClean(c)
              ma == AllMatch(a)
              mb == AllMatch(b)
              mc == AllMatch(c)
  <1>1. /\ va \in Int /\ vb \in Int /\ vc \in Int
        /\ {ca, cb, cc, ma, mb, mc} \subseteq BOOLEAN
    BY VoiceIsNumber DEF AllClean, AllMatch
  <1>. HIDE DEF va, vb, vc, ca, cb, cc, ma, mb, mc
  <1>. QED BY <1>1 DEF Better, va, vb, vc, ca, cb, cc, ma, mb, mc

LEMMA SomeTakeIsBest ==
    ASSUME NEW n \in Nat \ {0}, NEW clips \in [1 .. n -> Clips]
    PROVE  \E t \in 1 .. n : \A u \in 1 .. n : ~Better(clips[u], clips[t])
  <1>. DEFINE T == {d \in Nat \ {0} : ~\A f \in [1 .. d -> Clips] :
                       \E t \in 1 .. d : \A u \in 1 .. d : ~Better(f[u], f[t])}
  <1>. SUFFICES ASSUME T # {}
                PROVE  FALSE
    OBVIOUS
  <1>1. T \in SUBSET Nat
    OBVIOUS
  <1>. HIDE DEF T
  <1>2. PICK d \in T : \A e \in T : d <= e
    BY <1>1, Least
  <1>3. PICK f \in [1 .. d -> Clips] :
           /\ d \in Nat \ {0}
           /\ ~\E t \in 1 .. d : \A u \in 1 .. d : ~Better(f[u], f[t])
    BY DEF T
  <1>4. d # 1
    <2>. SUFFICES ASSUME d = 1
                  PROVE  FALSE
      OBVIOUS
    <2>1. 1 .. d = {1}
      OBVIOUS
    <2>2. ~Better(f[1], f[1])
      BY <2>1, BetterOrders
    <2>. QED BY <1>3, <2>1, <2>2
  <1>5. d - 1 \in Nat \ {0} /\ d - 1 \notin T
    BY <1>1, <1>2, <1>3, <1>4
  <1>. DEFINE g == [i \in 1 .. d - 1 |-> f[i]]
  <1>6. g \in [1 .. d - 1 -> Clips]
    BY <1>3
  <1>7. PICK t \in 1 .. d - 1 : \A u \in 1 .. d - 1 : ~Better(g[u], g[t])
    BY <1>5, <1>6 DEF T
  <1>8. \A u \in 1 .. d - 1 : ~Better(f[u], f[t])
    BY <1>7
  <1>9. /\ t \in 1 .. d /\ d \in 1 .. d
        /\ \A i \in 1 .. d : i = d \/ i \in 1 .. d - 1
    <2>1. d \in Nat \ {0}
      BY <1>3
    <2>. QED BY <1>7, <2>1
  <1>10. \A i \in 1 .. d : f[i] \in Clips
    OBVIOUS
  <1>11. CASE ~Better(f[d], f[t])
    BY <1>3, <1>8, <1>9, <1>11
  <1>12. CASE Better(f[d], f[t])
    <2>1. ~Better(f[t], f[d])
      BY <1>9, <1>10, <1>12, BetterOrders
    <2>2. \A u \in 1 .. d : ~Better(f[u], f[d])
      BY <1>8, <1>9, <1>10, <2>1, BetterOrders
    <2>. QED BY <1>3, <1>9, <2>2
  <1>. QED BY <1>11, <1>12

(* The take that is kept has no fault unless every take of the sentence has *)
(* one, and of the takes without a fault it is one whose voice is likest,   *)
(* whatever the takes (main of pick_voice.py).                              *)
THEOREM FaultsComeLast ==
    ASSUME NEW n \in Nat \ {0}, NEW clips \in [1 .. n -> Clips]
    PROVE  FaultsAreLast(clips)
  <1>. DEFINE best == {t \in 1 .. n : \A u \in 1 .. n : ~Better(clips[u], clips[t])}
              b == BestTake(clips)
  <1>1. DOMAIN clips = 1 .. n /\ best \in SUBSET Nat /\ best # {}
    BY SomeTakeIsBest
  <1>2. b = Min(best)
    BY <1>1 DEF BestTake
  <1>3. b \in best
    <2>1. PICK m \in best : \A t \in best : m <= t
      <3>. HIDE DEF best
      <3>. QED BY <1>1, Least
    <2>2. Min(best) \in best
      <3>. HIDE DEF best
      <3>. QED BY <2>1 DEF Min
    <2>. QED BY <1>2, <2>2
  <1>. HIDE DEF b
  <1>4. ASSUME NEW t \in 1 .. n, AllClean(clips[t]), AllMatch(clips[t])
        PROVE  /\ AllClean(clips[b]) /\ AllMatch(clips[b])
               /\ Voice(clips[t]) <= Voice(clips[b])
    <2>1. ~Better(clips[t], clips[b]) /\ b \in 1 .. n
      BY <1>3
    <2>2. Voice(clips[t]) \in Int /\ Voice(clips[b]) \in Int
      BY <2>1, VoiceIsNumber
    <2>3. AllClean(clips[b])
      BY <1>4, <2>1, Zenon DEF Better
    <2>4. AllClean(clips[t]) = AllClean(clips[b])
      BY <1>4, <2>3 DEF AllClean
    <2>5. AllMatch(clips[b])
      BY <1>4, <2>1, <2>4, Zenon DEF Better
    <2>6. AllMatch(clips[t]) = AllMatch(clips[b])
      BY <1>4, <2>5 DEF AllMatch
    <2>7. ~(Voice(clips[t]) > Voice(clips[b]))
      BY <2>1, <2>4, <2>6, Zenon DEF Better
    <2>. QED BY <2>2, <2>3, <2>5, <2>7
  <1>. QED BY <1>1, <1>4 DEF FaultsAreLast, b

-----------------------------------------------------------------------------
(* The lines grouped into sentences.                                        *)

IsGrouping(sofar, lines, S) ==
    sofar = [s \in SUBSET S |-> IF s = {} THEN <<>>
                                ELSE Grouped(sofar[s \ {Max(s)}], lines[Max(s)])]

LEMMA SentencesIsGrouping ==
    ASSUME NEW lines
    PROVE  Sentences(lines) =
              (CHOOSE sofar : IsGrouping(sofar, lines, DOMAIN lines))[DOMAIN lines]
  BY Zenon DEF Sentences, FoldLeft, MapThenFoldSet, IsGrouping

LEMMA GroupingExists ==
    ASSUME NEW lines, NEW n \in Nat
    PROVE  \E sofar : IsGrouping(sofar, lines, 1 .. n)
  <1>. DEFINE T == {i \in Nat : ~\E sofar : IsGrouping(sofar, lines, 1 .. i)}
  <1>. SUFFICES ASSUME T # {}
                PROVE  FALSE
    OBVIOUS
  <1>1. T \in SUBSET Nat
    OBVIOUS
  <1>. HIDE DEF T
  <1>2. PICK m \in T : \A i \in T : m <= i
    BY <1>1, Least
  <1>3. m \in Nat /\ ~\E sofar : IsGrouping(sofar, lines, 1 .. m)
    BY DEF T
  <1>4. CASE m = 0
    <2>1. \A s \in SUBSET (1 .. 0) : s = {}
      OBVIOUS
    <2>2. IsGrouping([s \in SUBSET (1 .. 0) |-> <<>>], lines, 1 .. 0)
      BY <2>1 DEF IsGrouping
    <2>. QED BY <1>3, <1>4, <2>2
  <1>5. CASE m # 0
    <2>1. m - 1 \in Nat /\ m - 1 \notin T /\ (m - 1) + 1 = m
      BY <1>1, <1>2, <1>3, <1>5
    <2>. DEFINE n1 == m - 1
    <2>2. PICK sofar : IsGrouping(sofar, lines, 1 .. n1)
      BY <2>1 DEF T
    <2>3. n1 \in Nat /\ m = n1 + 1
      BY <2>1
    <2>. HIDE DEF n1
    <2>. DEFINE with(s) == Grouped(sofar[s \ {m}], lines[m])
                longer == [s \in SUBSET (1 .. m) |-> IF m \in s THEN with(s) ELSE sofar[s]]
    <2>4. \A s \in SUBSET (1 .. m) : longer[s] = IF m \in s THEN with(s) ELSE sofar[s]
      OBVIOUS
    <2>5. longer = [s \in SUBSET (1 .. m) |-> longer[s]]
      OBVIOUS
    <2>. HIDE DEF longer
    <2>6. \A s \in SUBSET (1 .. n1) :
             sofar[s] = IF s = {} THEN <<>> ELSE Grouped(sofar[s \ {Max(s)}], lines[Max(s)])
      BY <2>2 DEF IsGrouping
    <2>7. \A s \in SUBSET (1 .. m) : m \notin s => s \in SUBSET (1 .. n1)
      BY <2>3
    <2>8. ASSUME NEW s \in SUBSET (1 .. m)
          PROVE  longer[s] = IF s = {} THEN <<>>
                             ELSE Grouped(longer[s \ {Max(s)}], lines[Max(s)])
      <3>1. CASE m \in s
        <4>1. Max(s) = m /\ s # {}
          BY <2>3, <3>1, LargestOf
        <4>2. longer[s \ {m}] = sofar[s \ {m}]
          BY <2>4
        <4>. QED BY <2>4, <3>1, <4>1, <4>2
      <3>2. CASE m \notin s
        <4>1. longer[s] = sofar[s] /\ longer[s \ {Max(s)}] = sofar[s \ {Max(s)}]
          BY <2>4, <3>2
        <4>. QED BY <2>6, <2>7, <3>2, <4>1
      <3>. QED BY <3>1, <3>2
    <2>9. IsGrouping(longer, lines, 1 .. m)
      BY <2>5, <2>8 DEF IsGrouping
    <2>. QED BY <1>3, <2>9
  <1>. QED BY <1>4, <1>5

(* A list of sentences, flattened one after the other.                      *)
IsFlat(flat, groups) ==
    flat = [i \in 1 .. Len(groups) |->
              IF i = 1 THEN groups[i] ELSE flat[i - 1] \o groups[i]]

LEMMA FlattenIsFlat ==
    ASSUME NEW groups, Len(groups) # 0
    PROVE  FlattenSeq(groups) = (CHOOSE flat : IsFlat(flat, groups))[Len(groups)]
  BY Zenon DEF FlattenSeq, IsFlat

(* flat is the flattening of all beginnings of groups.                      *)
Flat(flat, groups, n) ==
    \A i \in 1 .. n : flat[i] = IF i = 1 THEN groups[i] ELSE flat[i - 1] \o groups[i]

LEMMA FlatExists ==
    ASSUME NEW groups, NEW n \in Nat, Len(groups) = n
    PROVE  \E flat : IsFlat(flat, groups)
  <1>. DEFINE T == {i \in Nat : ~\E flat : Flat(flat, groups, i)}
  <1>1. T = {}
    <2>. SUFFICES ASSUME T # {}
                  PROVE  FALSE
      OBVIOUS
    <2>1. T \in SUBSET Nat
      OBVIOUS
    <2>. HIDE DEF T
    <2>2. PICK m \in T : \A i \in T : m <= i
      BY <2>1, Least
    <2>3. m \in Nat /\ ~\E flat : Flat(flat, groups, m)
      BY DEF T
    <2>4. CASE m = 0
      BY <2>3, <2>4 DEF Flat
    <2>5. CASE m # 0
      <3>1. m - 1 \in Nat /\ m - 1 \notin T
        BY <2>1, <2>2, <2>3, <2>5
      <3>2. PICK flat : Flat(flat, groups, m - 1)
        BY <3>1 DEF T
      <3>. DEFINE last == IF m = 1 THEN groups[m] ELSE flat[m - 1] \o groups[m]
                  longer == [i \in 1 .. m |-> IF i = m THEN last ELSE flat[i]]
      <3>3. /\ longer[m] = last
            /\ \A i \in 1 .. m : i # m => longer[i] = flat[i] /\ i \in 1 .. m - 1
        BY <2>3, <2>5
      <3>. HIDE DEF longer
      <3>4. ASSUME NEW i \in 1 .. m
            PROVE  longer[i] = IF i = 1 THEN groups[i] ELSE longer[i - 1] \o groups[i]
        <4>1. i # 1 => i - 1 \in 1 .. m /\ i - 1 # m
          BY <2>3
        <4>2. i # 1 => longer[i - 1] = flat[i - 1]
          BY <3>3, <4>1
        <4>3. CASE i = m
          BY <3>3, <4>2, <4>3
        <4>4. CASE i # m
          BY <3>2, <3>3, <4>2, <4>4 DEF Flat
        <4>. QED BY <4>3, <4>4
      <3>5. Flat(longer, groups, m)
        BY <3>4 DEF Flat
      <3>. QED BY <2>3, <3>5
    <2>. QED BY <2>4, <2>5
  <1>2. PICK flat : Flat(flat, groups, n)
    BY <1>1
  <1>. DEFINE f == [i \in 1 .. n |-> flat[i]]
  <1>3. \A i \in 1 .. n : f[i] = IF i = 1 THEN groups[i] ELSE f[i - 1] \o groups[i]
    <2> TAKE i \in 1 .. n
    <2>1. i # 1 => i - 1 \in 1 .. n
      OBVIOUS
    <2>2. i # 1 => f[i - 1] = flat[i - 1]
      BY <2>1
    <2>3. f[i] = flat[i]
      OBVIOUS
    <2>. HIDE DEF f
    <2>. QED BY <1>2, <2>2, <2>3 DEF Flat
  <1>4. f = [i \in 1 .. n |-> f[i]]
    OBVIOUS
  <1>. HIDE DEF f
  <1>5. IsFlat(f, groups)
    BY <1>3, <1>4 DEF IsFlat
  <1>. QED BY <1>5

(* Two flattenings agree as long as the groups do.                          *)
LEMMA FlatsAgree ==
    ASSUME NEW flat, NEW other, NEW groups, NEW others, NEW n \in Nat,
           Flat(flat, groups, n), Flat(other, others, n),
           \A i \in 1 .. n : groups[i] = others[i]
    PROVE  \A i \in 1 .. n : flat[i] = other[i]
  <1>. DEFINE T == {i \in 1 .. n : flat[i] # other[i]}
  <1>. SUFFICES ASSUME T # {}
                PROVE  FALSE
    OBVIOUS
  <1>1. T \in SUBSET Nat
    OBVIOUS
  <1>2. \A i \in T : i \in 1 .. n /\ flat[i] # other[i]
    OBVIOUS
  <1>3. \A i \in 1 .. n : i \notin T => flat[i] = other[i]
    OBVIOUS
  <1>. HIDE DEF T
  <1>4. PICK m \in T : \A i \in T : m <= i
    BY <1>1, Least
  <1>5. CASE m = 1
    BY <1>2, <1>5 DEF Flat
  <1>6. CASE m # 1
    <2>1. m - 1 \in 1 .. n /\ m - 1 \notin T
      BY <1>1, <1>2, <1>4, <1>6
    <2>2. flat[m - 1] = other[m - 1]
      BY <1>3, <2>1
    <2>. QED BY <1>2, <1>6, <2>2 DEF Flat
  <1>. QED BY <1>5, <1>6

LEMMA FlatsAreSequences ==
    ASSUME NEW S, NEW flat, NEW groups, NEW n \in Nat, Flat(flat, groups, n),
           \A i \in 1 .. n : groups[i] \in Seq(S)
    PROVE  \A i \in 1 .. n : flat[i] \in Seq(S)
  <1>. DEFINE T == {i \in 1 .. n : flat[i] \notin Seq(S)}
  <1>. SUFFICES ASSUME T # {}
                PROVE  FALSE
    OBVIOUS
  <1>1. T \in SUBSET Nat
    OBVIOUS
  <1>2. \A i \in T : i \in 1 .. n /\ flat[i] \notin Seq(S)
    OBVIOUS
  <1>3. \A i \in 1 .. n : i \notin T => flat[i] \in Seq(S)
    OBVIOUS
  <1>. HIDE DEF T
  <1>4. PICK m \in T : \A i \in T : m <= i
    BY <1>1, Least
  <1>5. CASE m = 1
    BY <1>2, <1>5 DEF Flat
  <1>6. CASE m # 1
    <2>1. m - 1 \in 1 .. n /\ m - 1 \notin T
      BY <1>1, <1>2, <1>4, <1>6
    <2>2. flat[m - 1] \in Seq(S) /\ groups[m] \in Seq(S)
      BY <1>2, <1>3, <2>1
    <2>3. flat[m] = flat[m - 1] \o groups[m]
      BY <1>2, <1>6 DEF Flat
    <2>4. flat[m] \in Seq(S)
      BY <2>2, <2>3, ConcatProperties
    <2>. QED BY <1>2, <2>4
  <1>. QED BY <1>5, <1>6

LEMMA FlattenOf ==
    ASSUME NEW groups, NEW n \in Nat, Len(groups) = n, n # 0
    PROVE  \E flat : Flat(flat, groups, n) /\ FlattenSeq(groups) = flat[n]
  <1>. DEFINE flat == CHOOSE f : IsFlat(f, groups)
  <1>1. IsFlat(flat, groups)
    BY FlatExists
  <1>2. FlattenSeq(groups) = flat[n]
    BY FlattenIsFlat
  <1>. HIDE DEF flat
  <1>3. flat = [i \in 1 .. n |-> IF i = 1 THEN groups[i] ELSE flat[i - 1] \o groups[i]]
    BY <1>1 DEF IsFlat
  <1>4. Flat(flat, groups, n)
    BY <1>3 DEF Flat
  <1>. QED BY <1>2, <1>4

LEMMA FlattenOfNothing == FlattenSeq(<<>>) = <<>>
  BY DEF FlattenSeq

LEMMA FlattenIsSequence ==
    ASSUME NEW S, NEW groups \in Seq(Seq(S))
    PROVE  FlattenSeq(groups) \in Seq(S)
  <1>1. CASE groups = <<>>
    <2>1. FlattenSeq(groups) = <<>>
      BY <1>1, FlattenOfNothing
    <2>2. <<>> \in Seq(S)
      OBVIOUS
    <2>. QED BY <2>1, <2>2
  <1>2. CASE groups # <<>>
    <2>1. Len(groups) \in Nat /\ Len(groups) # 0
      BY <1>2
    <2>2. PICK flat : Flat(flat, groups, Len(groups)) /\ FlattenSeq(groups) = flat[Len(groups)]
      BY <2>1, FlattenOf
    <2>3. \A i \in 1 .. Len(groups) : groups[i] \in Seq(S)
      OBVIOUS
    <2>4. \A i \in 1 .. Len(groups) : flat[i] \in Seq(S)
      BY <2>1, <2>2, <2>3, FlatsAreSequences
    <2>. QED BY <2>1, <2>2, <2>4
  <1>. QED BY <1>1, <1>2

(* A new group of one line, flattened.                                      *)
LEMMA FlattenNewGroup ==
    ASSUME NEW S, NEW groups \in Seq(Seq(S)), NEW x \in S
    PROVE  FlattenSeq(Append(groups, <<x>>)) = Append(FlattenSeq(groups), x)
  <1>. DEFINE n == Len(groups)
              more == Append(groups, <<x>>)
  <1>1. /\ n \in Nat
        /\ Len(more) = n + 1
        /\ more[n + 1] = <<x>>
        /\ \A i \in 1 .. n : more[i] = groups[i] /\ groups[i] \in Seq(S)
    OBVIOUS
  <1>2. n = 0 => groups = <<>>
    OBVIOUS
  <1>3. n # 0 => groups # <<>>
    OBVIOUS
  <1>. HIDE DEF n, more
  <1>4. PICK flat : Flat(flat, more, n + 1) /\ FlattenSeq(more) = flat[n + 1]
    BY <1>1, FlattenOf
  <1>5. CASE n = 0
    <2>1. n + 1 = 1 /\ n + 1 \in 1 .. n + 1
      BY <1>5
    <2>2. flat[n + 1] = more[n + 1]
      BY <1>4, <2>1 DEF Flat
    <2>3. FlattenSeq(more) = <<x>>
      BY <1>1, <1>4, <2>2
    <2>4. FlattenSeq(groups) = <<>>
      BY <1>2, <1>5, FlattenOfNothing
    <2>5. Append(<<>>, x) = <<x>>
      OBVIOUS
    <2>. QED BY <2>3, <2>4, <2>5 DEF more
  <1>6. CASE n # 0
    <2>1. PICK other : Flat(other, groups, n) /\ FlattenSeq(groups) = other[n]
      BY <1>1, <1>6, FlattenOf DEF n
    <2>2. Flat(flat, more, n)
      BY <1>1, <1>4 DEF Flat
    <2>3. flat[n] = other[n]
      BY <1>1, <1>6, <2>1, <2>2, FlatsAgree
    <2>4. flat[n + 1] = flat[n] \o <<x>>
      <3>1. n + 1 \in 1 .. n + 1 /\ n + 1 # 1 /\ (n + 1) - 1 = n
        BY <1>1, <1>6
      <3>2. flat[n + 1] = flat[(n + 1) - 1] \o more[n + 1]
        BY <1>4, <3>1 DEF Flat
      <3>. QED BY <1>1, <3>1, <3>2
    <2>5. FlattenSeq(groups) \in Seq(S)
      BY FlattenIsSequence
    <2>6. FlattenSeq(groups) \o <<x>> = Append(FlattenSeq(groups), x)
      BY <2>5
    <2>. QED BY <1>4, <2>1, <2>3, <2>4, <2>6 DEF more
  <1>. QED BY <1>5, <1>6

(* The last group, longer by one line, flattened.                           *)
LEMMA FlattenLongerGroup ==
    ASSUME NEW S, NEW groups \in Seq(Seq(S)), groups # <<>>, NEW x \in S
    PROVE  FlattenSeq([groups EXCEPT ![Len(groups)] = Append(@, x)])
             = Append(FlattenSeq(groups), x)
  <1>. DEFINE n == Len(groups)
              longer == [groups EXCEPT ![n] = Append(@, x)]
  <1>1. /\ n \in Nat /\ n # 0
        /\ Len(longer) = n
        /\ longer[n] = Append(groups[n], x) /\ groups[n] \in Seq(S)
        /\ \A i \in 1 .. n : i # n => longer[i] = groups[i] 
        /\ \A i \in 1 .. n : groups[i] \in Seq(S)
    OBVIOUS
  <1>2. Len(groups) = n
    OBVIOUS
  <1>. HIDE DEF n, longer
  <1>3. PICK flat : Flat(flat, longer, n) /\ FlattenSeq(longer) = flat[n]
    BY <1>1, FlattenOf
  <1>4. PICK other : Flat(other, groups, n) /\ FlattenSeq(groups) = other[n]
    BY <1>1, <1>2, FlattenOf
  <1>5. flat[n] = Append(other[n], x)
    <2>1. CASE n = 1
      BY <1>1, <1>3, <1>4, <2>1 DEF Flat
    <2>2. CASE n # 1
      <3>1. n - 1 \in Nat /\ n - 1 \in 1 .. n /\ \A i \in 1 .. n - 1 : i \in 1 .. n /\ i # n
        BY <1>1, <2>2
      <3>2. Flat(flat, longer, n - 1) /\ Flat(other, groups, n - 1)
        BY <1>3, <1>4, <3>1 DEF Flat
      <3>3. \A i \in 1 .. n - 1 : longer[i] = groups[i]
        BY <1>1, <3>1
      <3>4. n - 1 \in 1 .. n - 1
        BY <1>1, <2>2
      <3>5. flat[n - 1] = other[n - 1]
        BY <3>1, <3>2, <3>3, <3>4, FlatsAgree
      <3>6. other[n - 1] \in Seq(S)
        BY <1>1, <1>4, <3>1, FlatsAreSequences
      <3>7. flat[n] = other[n - 1] \o Append(groups[n], x)
        <4>1. n \in 1 .. n
          BY <1>1
        <4>2. flat[n] = flat[n - 1] \o longer[n]
          BY <1>3, <2>2, <4>1 DEF Flat
        <4>. QED BY <1>1, <3>5, <4>2
      <3>8. other[n] = other[n - 1] \o groups[n]
        <4>1. n \in 1 .. n
          BY <1>1
        <4>. QED BY <1>4, <2>2, <4>1 DEF Flat
      <3>. DEFINE p == other[n - 1]
                  q == groups[n]
      <3>9. p \in Seq(S) /\ q \in Seq(S)
        BY <1>1, <3>6
      <3>. HIDE DEF p, q
      <3>10. p \o Append(q, x) = Append(p \o q, x)
        BY <3>9
      <3>. QED BY <3>7, <3>8, <3>10 DEF p, q
    <2>. QED BY <2>1, <2>2
  <1>. QED BY <1>2, <1>3, <1>4, <1>5 DEF longer

(* Every group has one scene and only its last line ends a sentence; two    *)
(* groups are apart because a sentence or a scene ends between them.        *)
AreWhole(groups) ==
    /\ \A g \in 1 .. Len(groups) :
          /\ groups[g] # <<>>
          /\ \A i \in 1 .. Len(groups[g]) - 1 :
                groups[g][i].scene = groups[g][i + 1].scene /\ ~groups[g][i].ends
    /\ \A g \in 1 .. Len(groups) - 1 :
          \/ Last(groups[g]).ends
          \/ Last(groups[g]).scene # Head(groups[g + 1]).scene

LEMMA GroupedKeepsSentences ==
    ASSUME NEW S, NEW groups \in Seq(Seq(S)), AreWhole(groups), NEW x \in S
    PROVE  /\ Grouped(groups, x) \in Seq(Seq(S))
           /\ AreWhole(Grouped(groups, x))
           /\ FlattenSeq(Grouped(groups, x)) = Append(FlattenSeq(groups), x)
  <1>. DEFINE n == Len(groups)
              joins == /\ groups # <<>>
                       /\ Last(Last(groups)).scene = x.scene
                       /\ ~Last(Last(groups)).ends
  <1>1. /\ n \in Nat
        /\ \A g \in 1 .. n : groups[g] \in Seq(S) /\ Len(groups[g]) \in Nat
        /\ groups # <<>> => n # 0 /\ Last(groups) = groups[n]
    BY DEF Last
  <1>2. \A g \in 1 .. n : Len(groups[g]) # 0 /\ Last(groups[g]) = groups[g][Len(groups[g])]
    BY <1>1 DEF AreWhole, Last
  <1>3. CASE joins
    <2>. DEFINE h == [groups EXCEPT ![n] = Append(@, x)]
                last == groups[n]
                k == Len(last)
    <2>1. Grouped(groups, x) = h
      BY <1>3 DEF Grouped
    <2>2. n # 0 /\ n \in 1 .. n /\ last \in Seq(S) /\ k \in Nat /\ k # 0
      BY <1>1, <1>2, <1>3
    <2>3. h \in Seq(Seq(S)) /\ Len(h) = n
      BY <2>2
    <2>4. h[n] = Append(last, x) /\ \A g \in 1 .. n : g # n => h[g] = groups[g]
      BY <2>2
    <2>5. /\ Len(Append(last, x)) = k + 1
          /\ Append(last, x)[k + 1] = x
          /\ \A i \in 1 .. k : Append(last, x)[i] = last[i]
          /\ Append(last, x) # <<>>
      <3>1. last \in Seq(S)
        BY <2>2
      <3>. HIDE DEF last
      <3>. QED BY <3>1
    <2>6. last[k].scene = x.scene /\ ~last[k].ends
      BY <1>1, <1>2, <1>3, <2>2
    <2>7. \A i \in 1 .. k - 1 : last[i].scene = last[i + 1].scene /\ ~last[i].ends
      BY <2>2 DEF AreWhole
    <2>8. Head(Append(last, x)) = Head(last)
      BY <2>2
    <2>9. FlattenSeq(h) = Append(FlattenSeq(groups), x)
      BY <1>3, FlattenLongerGroup
    <2>. HIDE DEF h, k
    <2>10. \A i \in 1 .. k : Append(last, x)[i].scene = Append(last, x)[i + 1].scene
                             /\ ~Append(last, x)[i].ends
      <3>. SUFFICES ASSUME NEW i \in 1 .. k
                    PROVE  Append(last, x)[i].scene = Append(last, x)[i + 1].scene
                           /\ ~Append(last, x)[i].ends
        OBVIOUS
      <3>. HIDE DEF last
      <3>1. CASE i = k
        BY <2>2, <2>5, <2>6, <3>1
      <3>2. CASE i # k
        <4>1. i \in 1 .. k - 1 /\ i + 1 \in 1 .. k
          BY <2>2, <3>2
        <4>. QED BY <2>5, <2>7, <4>1
      <3>. QED BY <3>1, <3>2
    <2>11. ASSUME NEW g \in 1 .. n
           PROVE  /\ h[g] # <<>>
                  /\ \A i \in 1 .. Len(h[g]) - 1 :
                        h[g][i].scene = h[g][i + 1].scene /\ ~h[g][i].ends
      <3>1. CASE g = n
        <4>1. Len(h[g]) - 1 = k
          BY <2>2, <2>4, <2>5, <3>1
        <4>. QED BY <2>4, <2>5, <2>10, <3>1, <4>1
      <3>2. CASE g # n
        BY <2>4, <3>2 DEF AreWhole
      <3>. QED BY <3>1, <3>2
    <2>12. ASSUME NEW g \in 1 .. n - 1
           PROVE  Last(h[g]).ends \/ Last(h[g]).scene # Head(h[g + 1]).scene
      <3>1. g \in 1 .. n /\ g # n /\ g + 1 \in 1 .. n
        BY <1>1
      <3>2. h[g] = groups[g] /\ Head(h[g + 1]) = Head(groups[g + 1])
        BY <2>4, <2>8, <3>1
      <3>. QED BY <3>2 DEF AreWhole
    <2>13. AreWhole(h)
      BY <2>3, <2>11, <2>12 DEF AreWhole
    <2>. QED BY <2>1, <2>3, <2>9, <2>13
  <1>4. CASE ~joins
    <2>. DEFINE h == Append(groups, <<x>>)
    <2>1. Grouped(groups, x) = h
      BY <1>4 DEF Grouped
    <2>2. h \in Seq(Seq(S)) /\ Len(h) = n + 1
      OBVIOUS
    <2>3. h[n + 1] = <<x>> /\ \A g \in 1 .. n : h[g] = groups[g]
      OBVIOUS
    <2>4. FlattenSeq(h) = Append(FlattenSeq(groups), x)
      BY FlattenNewGroup
    <2>. HIDE DEF h
    <2>5. ASSUME NEW g \in 1 .. n + 1
          PROVE  /\ h[g] # <<>>
                 /\ \A i \in 1 .. Len(h[g]) - 1 :
                       h[g][i].scene = h[g][i + 1].scene /\ ~h[g][i].ends
      <3>1. CASE g = n + 1
        <4>1. h[g] = <<x>> /\ Len(<<x>>) = 1 /\ <<x>> # <<>> /\ 1 .. 1 - 1 = {}
          BY <2>3, <3>1
        <4>. QED BY <4>1
      <3>2. CASE g # n + 1
        <4>1. g \in 1 .. n
          BY <1>1, <3>2
        <4>. QED BY <2>3, <4>1 DEF AreWhole
      <3>. QED BY <3>1, <3>2
    <2>6. ASSUME NEW g \in 1 .. n
          PROVE  Last(h[g]).ends \/ Last(h[g]).scene # Head(h[g + 1]).scene
      <3>1. h[g] = groups[g]
        BY <2>3
      <3>2. CASE g = n
        <4>1. groups # <<>> /\ Last(groups) = groups[g]
          BY <1>1, <3>2
        <4>2. Head(h[g + 1]) = x
          BY <2>3, <3>2
        <4>. QED BY <1>4, <3>1, <4>1, <4>2
      <3>3. CASE g # n
        <4>1. g \in 1 .. n - 1 /\ g + 1 \in 1 .. n
          BY <1>1, <3>3
        <4>2. h[g + 1] = groups[g + 1]
          BY <2>3, <4>1
        <4>. QED BY <3>1, <4>1, <4>2 DEF AreWhole
      <3>. QED BY <3>2, <3>3
    <2>7. AreWhole(h)
      <3>1. (n + 1) - 1 = n
        BY <1>1
      <3>. QED BY <2>2, <2>5, <2>6, <3>1 DEF AreWhole
    <2>. QED BY <2>1, <2>2, <2>4, <2>7
  <1>. QED BY <1>3, <1>4

(* sentences (pick_voice.py:56) loses no line and adds none, keeps the      *)
(* lines of a sentence of one scene together and parts all others, however  *)
(* many lines the script has.                                               *)
THEOREM SentencesAreAlwaysWhole ==
    \A S : \A lines \in Seq(S) : SentencesAreWhole(lines)
  <1>. SUFFICES ASSUME NEW S, NEW lines \in Seq(S)
                PROVE  SentencesAreWhole(lines)
    OBVIOUS
  <1>. DEFINE n == Len(lines)
              sofar == CHOOSE f : IsGrouping(f, lines, 1 .. n)
              Good(groups, k) == /\ groups \in Seq(Seq(S))
                                 /\ AreWhole(groups)
                                 /\ FlattenSeq(groups) = SubSeq(lines, 1, k)
              T == {k \in Nat : k <= n /\ ~Good(sofar[1 .. k], k)}
  <1>1. n \in Nat /\ DOMAIN lines = 1 .. n
    OBVIOUS
  <1>2. IsGrouping(sofar, lines, 1 .. n)
    BY <1>1, GroupingExists
  <1>3. Sentences(lines) = sofar[1 .. n]
    BY <1>1, SentencesIsGrouping
  <1>. HIDE DEF sofar
  <1>4. \A s \in SUBSET (1 .. n) :
           sofar[s] = IF s = {} THEN <<>> ELSE Grouped(sofar[s \ {Max(s)}], lines[Max(s)])
    <2>1. sofar = [s \in SUBSET (1 .. n) |->
                     IF s = {} THEN <<>> ELSE Grouped(sofar[s \ {Max(s)}], lines[Max(s)])]
      BY <1>2 DEF IsGrouping
    <2>. QED BY ONLY <2>1
  <1>5. Good(sofar[1 .. 0], 0)
    <2>1. 1 .. 0 = {} /\ 1 .. 0 \in SUBSET (1 .. n)
      OBVIOUS
    <2>2. sofar[1 .. 0] = <<>>
      BY <1>4, <2>1
    <2>3. <<>> \in Seq(Seq(S)) /\ AreWhole(<<>>)
      BY DEF AreWhole
    <2>4. SubSeq(lines, 1, 0) = <<>>
      OBVIOUS
    <2>. QED BY <2>2, <2>3, <2>4, FlattenOfNothing
  <1>6. ASSUME NEW k \in Nat, k + 1 <= n, Good(sofar[1 .. k], k)
        PROVE  Good(sofar[1 .. k + 1], k + 1)
    <2>1. Max(1 .. k + 1) = k + 1
      BY LargestOf
    <2>2. (1 .. k + 1) \ {k + 1} = 1 .. k
      OBVIOUS
    <2>3. 1 .. k + 1 \in SUBSET (1 .. n) /\ 1 .. k + 1 # {}
      <3>1. k + 1 <= n /\ k \in Nat
        BY <1>6
      <3>. HIDE DEF n, Good, T
      <3>. QED BY <1>1, <3>1
    <2>4. sofar[1 .. k + 1] = Grouped(sofar[1 .. k], lines[k + 1])
      BY <1>4, <2>1, <2>2, <2>3
    <2>5. lines[k + 1] \in S
      BY <1>6
    <2>6. SubSeq(lines, 1, k + 1) = Append(SubSeq(lines, 1, k), lines[k + 1])
      BY <1>6
    <2>. QED BY <1>6, <2>4, <2>5, <2>6, GroupedKeepsSentences
  <1>7. T = {}
    <2>. SUFFICES ASSUME T # {}
                  PROVE  FALSE
      OBVIOUS
    <2>1. T \in SUBSET Nat
      OBVIOUS
    <2>2. PICK m \in T : \A i \in T : m <= i
      <3>. HIDE DEF T
      <3>. QED BY <2>1, Least
    <2>3. m \in Nat /\ m <= n /\ ~Good(sofar[1 .. m], m)
      BY DEF T
    <2>4. m # 0
      BY <1>5, <2>3
    <2>. DEFINE k == m - 1
    <2>5. k \in Nat /\ k + 1 = m /\ k + 1 <= n /\ k <= n /\ ~(m <= k)
      <3>1. m \in Nat /\ m <= n /\ m # 0
        BY <2>3, <2>4
      <3>. HIDE DEF n, T, Good
      <3>. QED BY <1>1, <3>1
    <2>6. k \notin T
      <3>. HIDE DEF T, k
      <3>. QED BY <2>2, <2>5
    <2>7. Good(sofar[1 .. k], k)
      BY <2>5, <2>6 DEF T
    <2>. HIDE DEF k, Good, T
    <2>. QED BY <1>6, <2>3, <2>5, <2>7
  <1>8. Good(sofar[1 .. n], n)
    BY <1>1, <1>7
  <1>9. SubSeq(lines, 1, n) = lines
    OBVIOUS
  <1>10. Sentences(lines) \in Seq(Seq(S)) /\ AreWhole(Sentences(lines))
         /\ FlattenSeq(Sentences(lines)) = lines
    BY <1>3, <1>8, <1>9
  <1>. QED BY <1>10 DEF SentencesAreWhole, AreWhole

-----------------------------------------------------------------------------
(* Places in an order.                                                      *)

Before(R, S, i) == {j \in S : <<j, i>> \in R}
Place(R, S, i) == Cardinality(Before(R, S, i))

(* R orders S strictly and totally.                                         *)
IsOrder(R, S) ==
    /\ \A i \in S : <<i, i>> \notin R
    /\ \A i, j, k \in S : <<i, j>> \in R /\ <<j, k>> \in R => <<i, k>> \in R
    /\ \A i, j \in S : i = j \/ <<i, j>> \in R \/ <<j, i>> \in R

LEMMA PlacesAreNumbers ==
    ASSUME NEW S, IsFiniteSet(S), NEW R, IsOrder(R, S), NEW i \in S
    PROVE  /\ IsFiniteSet(Before(R, S, i))
           /\ Place(R, S, i) \in 0 .. Cardinality(S) - 1
  <1>. DEFINE B == Before(R, S, i)
  <1>1. B \in SUBSET S /\ i \notin B
    BY DEF Before, IsOrder
  <1>2. IsFiniteSet(B) /\ Cardinality(B) <= Cardinality(S)
        /\ (Cardinality(S) = Cardinality(B) => S = B)
    BY <1>1, FS_Subset
  <1>3. Cardinality(B) \in Nat /\ Cardinality(S) \in Nat
    BY <1>2, FS_CardinalityType
  <1>4. Cardinality(B) # Cardinality(S)
    BY <1>1, <1>2
  <1>. HIDE DEF B
  <1>5. Cardinality(B) \in 0 .. Cardinality(S) - 1
    BY <1>2, <1>3, <1>4
  <1>. QED BY <1>2, <1>5 DEF Place, B

LEMMA PlacesGrow ==
    ASSUME NEW S, IsFiniteSet(S), NEW R, IsOrder(R, S), NEW i \in S, NEW j \in S,
           <<i, j>> \in R
    PROVE  Place(R, S, i) < Place(R, S, j)
  <1>. DEFINE A == Before(R, S, i)
              B == Before(R, S, j)
  <1>1. A \in SUBSET B /\ i \in B /\ i \notin A
    BY DEF Before, IsOrder
  <1>2. IsFiniteSet(A) /\ IsFiniteSet(B)
    BY PlacesAreNumbers
  <1>3. Cardinality(A) <= Cardinality(B) /\ (Cardinality(B) = Cardinality(A) => B = A)
    BY <1>1, <1>2, FS_Subset
  <1>4. Cardinality(A) \in Nat /\ Cardinality(B) \in Nat
    BY <1>2, FS_CardinalityType
  <1>5. Cardinality(A) # Cardinality(B)
    BY <1>1, <1>3
  <1>. HIDE DEF A, B
  <1>6. Cardinality(A) < Cardinality(B)
    BY <1>3, <1>4, <1>5
  <1>. QED BY <1>6 DEF Place, A, B

(* Two elements are in the order of their places, and have two places.      *)
LEMMA PlacesAreOrdered ==
    ASSUME NEW S, IsFiniteSet(S), NEW R, IsOrder(R, S), NEW i \in S, NEW j \in S
    PROVE  /\ Place(R, S, i) < Place(R, S, j) => <<i, j>> \in R
           /\ Place(R, S, i) = Place(R, S, j) => i = j
  <1>1. Place(R, S, i) \in Int /\ Place(R, S, j) \in Int
    BY PlacesAreNumbers
  <1>2. CASE i = j
    BY <1>1, <1>2
  <1>3. CASE <<i, j>> \in R
    BY <1>1, <1>3, PlacesGrow
  <1>4. CASE <<j, i>> \in R
    BY <1>1, <1>4, PlacesGrow
  <1>. QED BY <1>2, <1>3, <1>4 DEF IsOrder

(* Every place is taken.                                                    *)
LEMMA PlacesAreTaken ==
    ASSUME NEW S, IsFiniteSet(S), NEW R, IsOrder(R, S), NEW m \in 0 .. Cardinality(S) - 1
    PROVE  \E i \in S : Place(R, S, i) = m
  <1>. DEFINE n == Cardinality(S)
              p == [i \in S |-> Place(R, S, i)]
  <1>1. n \in Nat
    BY FS_CardinalityType
  <1>2. \A i \in S : Place(R, S, i) \in 0 .. n - 1
    BY PlacesAreNumbers
  <1>3. \A i, j \in S : Place(R, S, i) = Place(R, S, j) => i = j
    BY PlacesAreOrdered
  <1>4. p \in Injection(S, 0 .. n - 1)
    BY <1>2, <1>3 DEF Injection, IsInjective
  <1>5. IsFiniteSet(0 .. n - 1) /\ Cardinality(0 .. n - 1) = n
    <2>. HIDE DEF n
    <2>1. 0 \in Int /\ n - 1 \in Int
      BY <1>1
    <2>2. IsFiniteSet(0 .. n - 1)
          /\ Cardinality(0 .. n - 1) = IF 0 > n - 1 THEN 0 ELSE n - 1 - 0 + 1
      BY <2>1, FS_Interval
    <2>. QED BY <1>1, <2>2
  <1>6. p \in Surjection(S, 0 .. n - 1)
    BY <1>4, <1>5, FS_Injection
  <1>. QED BY <1>6 DEF Surjection

(* k elements have the first k places.                                      *)
LEMMA FirstPlaces ==
    ASSUME NEW S, IsFiniteSet(S), NEW R, IsOrder(R, S), NEW k \in 0 .. Cardinality(S)
    PROVE  /\ IsFiniteSet({i \in S : Place(R, S, i) < k})
           /\ Cardinality({i \in S : Place(R, S, i) < k}) = k
  <1>. DEFINE n == Cardinality(S)
              F == {i \in S : Place(R, S, i) < k}
              q == [i \in F |-> Place(R, S, i)]
  <1>1. n \in Nat
    BY FS_CardinalityType
  <1>2. \A i \in S : Place(R, S, i) \in 0 .. n - 1
    BY PlacesAreNumbers
  <1>3. \A i, j \in S : Place(R, S, i) = Place(R, S, j) => i = j
    BY PlacesAreOrdered
  <1>4. \A m \in 0 .. n - 1 : \E i \in S : Place(R, S, i) = m
    BY PlacesAreTaken
  <1>5. \A m \in 0 .. k - 1 : m \in 0 .. n - 1 /\ m < k
    BY <1>1
  <1>6. \A i \in F : Place(R, S, i) \in 0 .. k - 1
    BY <1>1, <1>2
  <1>7. q \in Bijection(F, 0 .. k - 1)
    <2>1. \A m \in 0 .. k - 1 : \E i \in F : Place(R, S, i) = m
      BY <1>4, <1>5
    <2>2. q \in [F -> 0 .. k - 1]
      BY <1>6
    <2>3. \A i, j \in F : q[i] = q[j] => i = j
      BY <1>3
    <2>4. \A m \in 0 .. k - 1 : \E i \in F : q[i] = m
      BY <2>1
    <2>. HIDE DEF q, F
    <2>. QED BY <2>2, <2>3, <2>4 DEF Bijection, Injection, Surjection, IsInjective
  <1>8. IsFiniteSet(F)
    <2>1. F \in SUBSET S
      OBVIOUS
    <2>. HIDE DEF F
    <2>. QED BY <2>1, FS_Subset
  <1>9. Cardinality(0 .. k - 1) = Cardinality(F)
    <2>. HIDE DEF F
    <2>. QED BY <1>7, <1>8, FS_Bijection DEF ExistsBijection
  <1>10. Cardinality(0 .. k - 1) = k
    <2>1. k \in Nat /\ k - 1 \in Int /\ 0 \in Int
      BY <1>1
    <2>2. Cardinality(0 .. k - 1) = IF 0 > k - 1 THEN 0 ELSE k - 1 - 0 + 1
      BY <2>1, FS_Interval
    <2>. QED BY <2>1, <2>2
  <1>. QED BY <1>8, <1>9, <1>10

-----------------------------------------------------------------------------
(* The pauses in which the lines without a matched word are cut.            *)

GapLists == Seq(Int \X Int)

LEMMA GapsAreNumbers ==
    ASSUME NEW gaps \in GapLists, NEW i \in DOMAIN gaps
    PROVE  i \in Nat /\ gaps[i][1] \in Int /\ gaps[i][2] \in Int
  <1>1. gaps[i] \in Int \X Int /\ i \in Nat
    BY DEF GapLists
  <1>. QED BY <1>1

LEMMA SomeGapsAreFinite ==
    ASSUME NEW gaps \in GapLists, NEW inside \in SUBSET DOMAIN gaps
    PROVE  IsFiniteSet(inside) /\ Cardinality(inside) \in Nat
  <1>1. DOMAIN gaps = 1 .. Len(gaps) /\ Len(gaps) \in Int
    BY DEF GapLists
  <1>2. IsFiniteSet(DOMAIN gaps)
    BY <1>1, FS_Interval
  <1>. QED BY <1>2, FS_Subset, FS_CardinalityType

LEMMA LongestAreCounted ==
    ASSUME NEW gaps \in GapLists, NEW inside \in SUBSET DOMAIN gaps,
           NEW k \in 0 .. Cardinality(inside)
    PROVE  /\ Longest(gaps, inside, k) \in SUBSET inside
           /\ Cardinality(Longest(gaps, inside, k)) = k
  <1>. DEFINE R == LongerFirst(gaps, inside)
              size(i) == gaps[i][2] - gaps[i][1]
              longer(i, j) == size(i) > size(j) \/ (size(i) = size(j) /\ i < j)
  <1>1. Longest(gaps, inside, k) = {i \in inside : Place(R, inside, i) < k}
    BY Zenon DEF Longest, Rank, Place, Before
  <1>2. \A i \in inside : i \in Int /\ size(i) \in Int
    <2> TAKE i \in inside
    <2>1. i \in Nat /\ gaps[i][1] \in Int /\ gaps[i][2] \in Int
      BY GapsAreNumbers
    <2>. QED BY <2>1
  <1>3. \A i, j \in inside : <<i, j>> \in R <=> longer(i, j)
    BY DEF LongerFirst
  <1>. HIDE DEF R, size
  <1>4. IsOrder(R, inside)
    BY <1>2, <1>3 DEF IsOrder
  <1>5. IsFiniteSet(inside)
    BY SomeGapsAreFinite
  <1>. QED BY <1>1, <1>4, <1>5, FirstPlaces

LEMMA MiddlesAreInOrder ==
    ASSUME NEW gaps \in GapLists, NEW chosen \in SUBSET DOMAIN gaps,
           NEW lo \in Int, NEW hi \in Int
    PROVE  LET cuts == Middles(gaps, chosen, lo, hi)
           IN  /\ cuts \in Seq(Int)
               /\ Len(cuts) = Cardinality(chosen)
               /\ \A n \in 1 .. Len(cuts) :
                     \E i \in chosen : cuts[n] = Middle(gaps, lo, hi, i)
               /\ \A n \in 1 .. Len(cuts) - 1 : cuts[n] <= cuts[n + 1]
  <1>. DEFINE R == EarlierFirst(gaps, chosen, lo, hi)
              size == Cardinality(chosen)
              middle(i) == Middle(gaps, lo, hi, i)
              sooner(i, j) == middle(i) < middle(j) \/ (middle(i) = middle(j) /\ i < j)
              at(n) == CHOOSE i \in chosen : Place(R, chosen, i) = n - 1
              order == [n \in 1 .. size |-> at(n)]
              cuts == [n \in 1 .. size |-> middle(order[n])]
  <1>1. Middles(gaps, chosen, lo, hi) = cuts
    BY Zenon DEF Middles, InOrder, Rank, Place, Before
  <1>2. IsFiniteSet(chosen) /\ size \in Nat
    BY SomeGapsAreFinite
  <1>3. \A i \in chosen : i \in Int /\ middle(i) \in Int
    <2> TAKE i \in chosen
    <2>1. i \in Nat /\ gaps[i][1] \in Int /\ gaps[i][2] \in Int
      BY GapsAreNumbers
    <2>. DEFINE a == gaps[i][1]
                b == gaps[i][2]
    <2>2. a \in Int /\ b \in Int
      BY <2>1
    <2>3. middle(i) = Max({a, lo}) + Min({b, hi})
      BY DEF Middle
    <2>. HIDE DEF a, b
    <2>4. Max({a, lo}) \in Int /\ Min({b, hi}) \in Int
      BY <2>2, TwoNumbers
    <2>. QED BY <2>1, <2>3, <2>4
  <1>4. \A i, j \in chosen : <<i, j>> \in R <=> sooner(i, j)
    BY DEF EarlierFirst
  <1>. HIDE DEF R, middle
  <1>5. IsOrder(R, chosen)
    BY <1>3, <1>4 DEF IsOrder
  <1>6. \A i, j \in chosen : <<i, j>> \in R => middle(i) <= middle(j)
    BY <1>3, <1>4
  <1>. HIDE DEF sooner
  <1>9. ASSUME NEW n \in 1 .. size
        PROVE  at(n) \in chosen /\ Place(R, chosen, at(n)) = n - 1
    <2>1. n - 1 \in 0 .. size - 1
      BY <1>2
    <2>2. \E i \in chosen : Place(R, chosen, i) = n - 1
      BY <1>2, <1>5, <2>1, PlacesAreTaken
    <2>. QED BY <2>2
  <1>. HIDE DEF at
  <1>10. \A n \in 1 .. size : cuts[n] = middle(at(n)) /\ cuts[n] \in Int
    BY <1>3, <1>9
  <1>11. cuts \in Seq(Int) /\ Len(cuts) = size
    <2>1. cuts \in [1 .. size -> Int]
      BY <1>3, <1>9
    <2>. HIDE DEF size, cuts
    <2>2. DOMAIN cuts = 1 .. size
      BY <2>1
    <2>3. cuts \in Seq(Int)
      BY <1>2, <2>1, ListsAreSequences
    <2>. QED BY <1>2, <2>2, <2>3
  <1>. HIDE DEF cuts
  <1>12. ASSUME NEW n \in 1 .. size - 1
         PROVE  cuts[n] <= cuts[n + 1]
    <2>1. n \in 1 .. size /\ n + 1 \in 1 .. size /\ n - 1 < n + 1 - 1
      BY <1>2
    <2>2. Place(R, chosen, at(n)) < Place(R, chosen, at(n + 1))
      BY <1>9, <2>1
    <2>3. <<at(n), at(n + 1)>> \in R
      BY <1>2, <1>5, <1>9, <2>1, <2>2, PlacesAreOrdered
    <2>. QED BY <1>6, <1>9, <1>10, <2>1, <2>3
  <1>13. \A n \in 1 .. size : \E i \in chosen : cuts[n] = Middle(gaps, lo, hi, i)
    BY <1>9, <1>10 DEF middle
  <1>. QED BY <1>1, <1>11, <1>12, <1>13

(* u lines without a matched word need u + 1 pauses; the cuts are in them,  *)
(* one after the other.                                                     *)
LEMMA PausesAreCuts ==
    ASSUME NEW gaps \in GapLists, NEW lo \in Int, NEW hi \in Int, NEW u \in Nat,
           \A i \in DOMAIN gaps : gaps[i][1] <= gaps[i][2],
           Pauses(gaps, lo, hi, u).placed
    PROVE  LET cuts == Pauses(gaps, lo, hi, u).cuts
           IN  /\ cuts \in Seq(Int)
               /\ Len(cuts) = u + 1
               /\ \A n \in 1 .. u + 1 : IF lo < hi THEN 2 * lo < cuts[n] /\ cuts[n] < 2 * hi
                                                     ELSE cuts[n] = lo + hi
               /\ \A n \in 1 .. u : cuts[n] <= cuts[n + 1]
  <1>. DEFINE inside == Inside(gaps, lo, hi)
              chosen == Longest(gaps, inside, u + 1)
              cuts == Middles(gaps, chosen, lo, hi)
  <1>1. inside \in SUBSET DOMAIN gaps
    BY DEF Inside
  <1>2. Cardinality(inside) \in Nat
    BY <1>1, SomeGapsAreFinite
  <1>3. ~(Cardinality(inside) < u + 1) /\ Pauses(gaps, lo, hi, u).cuts = cuts
    BY DEF Pauses, Placed, NotPlaced
  <1>4. chosen \in SUBSET inside /\ Cardinality(chosen) = u + 1
    <2>1. u + 1 \in 0 .. Cardinality(inside)
      BY <1>2, <1>3
    <2>. QED BY <1>1, <2>1, LongestAreCounted
  <1>5. \A i \in chosen : IF lo < hi THEN /\ 2 * lo < Middle(gaps, lo, hi, i)
                                           /\ Middle(gaps, lo, hi, i) < 2 * hi
                                      ELSE Middle(gaps, lo, hi, i) = lo + hi
    <2> TAKE i \in chosen
    <2>1. i \in DOMAIN gaps /\ gaps[i][2] > lo /\ gaps[i][1] < hi /\ gaps[i][1] <= gaps[i][2]
      BY <1>4 DEF Inside
    <2>2. gaps[i][1] \in Int /\ gaps[i][2] \in Int
      BY <2>1, GapsAreNumbers
    <2>. DEFINE a == gaps[i][1]
                b == gaps[i][2]
    <2>3. Middle(gaps, lo, hi, i) = (IF a >= lo THEN a ELSE lo) + (IF b <= hi THEN b ELSE hi)
      BY <2>2, TwoNumbers DEF Middle
    <2>. HIDE DEF a, b
    <2>4. a \in Int /\ b \in Int /\ b > lo /\ a < hi /\ a <= b
      BY <2>1, <2>2 DEF a, b
    <2>. QED BY <2>3, <2>4
  <1>6. /\ cuts \in Seq(Int)
        /\ Len(cuts) = u + 1
        /\ \A n \in 1 .. Len(cuts) : \E i \in chosen : cuts[n] = Middle(gaps, lo, hi, i)
        /\ \A n \in 1 .. Len(cuts) - 1 : cuts[n] <= cuts[n + 1]
    <2>1. chosen \in SUBSET DOMAIN gaps
      BY <1>1, <1>4
    <2>. QED BY <1>4, <2>1, MiddlesAreInOrder
  <1>7. Len(cuts) - 1 = u
    BY <1>6
  <1>. HIDE DEF cuts, chosen, inside
  <1>. QED BY <1>3, <1>5, <1>6, <1>7

(* Where a cut is searched from a frame on to an earlier one, it is in the  *)
(* middle of the two.                                                       *)
LEMMA QuietestBackwards ==
    ASSUME NEW db \in Seq(Int), NEW lo \in Nat, NEW hi \in Nat, ~(lo < hi)
    PROVE  Quietest(db, lo, hi) = lo + hi
  <1>1. Max({0, lo}) = lo
    BY TwoNumbers
  <1>2. Len(db) \in Int /\ hi + 1 \in Int
    OBVIOUS
  <1>3. Min({Len(db), hi + 1}) = IF Len(db) <= hi + 1 THEN Len(db) ELSE hi + 1
    BY <1>2, TwoNumbers
  <1>4. Min({Len(db), hi + 1}) - lo < 3
    BY <1>2, <1>3
  <1>. QED BY <1>1, <1>4 DEF Quietest

(* Where a cut is searched in the quietest stretch from frame lo to hi, it  *)
(* is in one of these frames.                                               *)
LEMMA QuietestIsNear ==
    ASSUME NEW db \in Seq(Int), NEW lo \in Nat, NEW hi \in Nat, lo < hi
    PROVE  /\ Quietest(db, lo, hi) \in Int
           /\ 2 * lo < Quietest(db, lo, hi)
           /\ Quietest(db, lo, hi) <= 2 * hi + 1
  <1>. DEFINE b == Min({Len(db), hi + 1})
              window == Window(db, lo, b)
  <1>1. Max({0, lo}) = lo
    BY TwoNumbers
  <1>2. b \in Nat /\ b <= Len(db) /\ b <= hi + 1 /\ Len(db) \in Nat
    <2>1. Len(db) \in Nat /\ Len(db) \in Int /\ hi + 1 \in Int
      OBVIOUS
    <2>2. b = IF Len(db) <= hi + 1 THEN Len(db) ELSE hi + 1
      BY <2>1, TwoNumbers
    <2>. QED BY <2>1, <2>2
  <1>3. CASE b - lo < 3
    <2>1. Quietest(db, lo, hi) = lo + hi
      BY <1>1, <1>3 DEF Quietest
    <2>. QED BY <2>1
  <1>4. CASE b - lo >= 3
    <2>1. Len(window) = b - lo
      BY <1>2, <1>4, WindowOf
    <2>2. CutsThePause(db, lo, hi)
      BY EveryCutIsInAPause
    <2>3. \E p \in Stretches(window) : Quietest(db, lo, hi) = 2 * lo + p[1] + p[2]
      <3>1. Len(window) >= 3
        BY <1>4, <2>1
      <3>. QED BY <1>1, <2>2, <3>1 DEF CutsThePause
    <2>4. PICK p \in Stretches(window) : Quietest(db, lo, hi) = 2 * lo + p[1] + p[2]
      BY <2>3
    <2>5. p[1] \in 0 .. Len(window) /\ p[2] \in 0 .. Len(window) /\ p[1] < p[2]
      BY DEF Stretches
    <2>. DEFINE x == p[1]
                y == p[2]
    <2>6. x \in Nat /\ y \in Nat /\ x < y /\ y <= b - lo
      BY <1>2, <1>4, <2>1, <2>5
    <2>7. Quietest(db, lo, hi) = 2 * lo + x + y
      BY <2>4
    <2>. HIDE DEF x, y, b
    <2>. QED BY <1>2, <2>6, <2>7
  <1>5. b - lo < 3 \/ b - lo >= 3
    BY <1>2
  <1>. QED BY <1>3, <1>4, <1>5

-----------------------------------------------------------------------------
(* The lines of a take, from line to line.                                  *)

(* The words Whisper heard, in order and apart but for their edges.  A word *)
(* that is spelled out ("24") gives several, from one start to one end.     *)
HeardWords ==
    {words \in Seq([start : Nat, end : Nat]) :
        /\ \A i \in DOMAIN words : words[i].start <= words[i].end
        /\ \A i, j \in DOMAIN words : i < j =>
              words[i].end <= words[j].start \/ words[i] = words[j]}

(* What difflib matches: words of lines in the order of the lines.          *)
Matched(matched, words) ==
    /\ matched \in Seq(SUBSET DOMAIN words)
    /\ \A i, j \in DOMAIN matched : i < j =>
          \A v \in matched[i], w \in matched[j] : v < w

LEMMA ElementsOf ==
    ASSUME NEW S, NEW s \in Seq(S)
    PROVE  \A i \in DOMAIN s : s[i] \in S /\ i \in Nat
  OBVIOUS

LEMMA EdgesOf ==
    ASSUME NEW words \in HeardWords, NEW i \in DOMAIN words
    PROVE  /\ words[i] \in [start : Nat, end : Nat]
           /\ words[i].start \in Nat /\ words[i].end \in Nat
           /\ i \in Nat
  <1>1. words \in Seq([start : Nat, end : Nat])
    BY DEF HeardWords
  <1>2. words[i] \in [start : Nat, end : Nat] /\ i \in Nat
    BY <1>1, ElementsOf, Zenon
  <1>. QED BY <1>2

LEMMA LeastOf ==
    ASSUME NEW T \in SUBSET Nat, T # {}
    PROVE  Min(T) \in T /\ \A x \in T : Min(T) <= x
  BY Least DEF Min

LEMMA WordsOf ==
    ASSUME NEW words \in HeardWords, NEW T \in SUBSET DOMAIN words, T # {}
    PROVE  /\ Max(T) \in T /\ \A x \in T : x <= Max(T)
           /\ Min(T) \in T /\ \A x \in T : Min(T) <= x
           /\ T \subseteq Nat
  <1>1. DOMAIN words = 1 .. Len(words) /\ Len(words) \in Nat
    BY DEF HeardWords
  <1>. DEFINE n == Len(words)
  <1>2. n \in Nat /\ T \in SUBSET (1 .. n) /\ T \in SUBSET Nat
    BY <1>1
  <1>. HIDE DEF n
  <1>3. Max(T) \in T /\ \A y \in T : Max(T) >= y
    BY <1>2, LargestIsIn
  <1>4. Min(T) \in T /\ \A x \in T : Min(T) <= x
    BY <1>2, LeastOf
  <1>5. \A y \in T : y \in Int
    BY <1>2
  <1>. QED BY <1>2, <1>3, <1>4, <1>5

(* The number of lines from line n on without a matched word.               *)
Unmatched(matched, n) == Min({k \in 0 .. Len(matched) - n : matched[n + k] # {}})

LEMMA UnmatchedLines ==
    ASSUME NEW words \in HeardWords, NEW matched, Matched(matched, words),
           NEW n \in 2 .. Len(matched), matched[Len(matched)] # {}
    PROVE  /\ Unmatched(matched, n) \in 0 .. Len(matched) - n
           /\ matched[n + Unmatched(matched, n)] # {}
           /\ \A k \in n .. n + Unmatched(matched, n) - 1 : matched[k] = {}
  <1>. DEFINE N == Len(matched)
              T == {k \in 0 .. N - n : matched[n + k] # {}}
              u == Min(T)
  <1>1. N \in Nat /\ n \in Nat /\ n <= N
    BY DEF Matched
  <1>2. N - n \in T /\ T \in SUBSET Nat
    <2>1. n + (N - n) = N /\ N - n \in 0 .. N - n
      BY <1>1
    <2>. QED BY <1>1, <2>1
  <1>. HIDE DEF T
  <1>3. u \in T /\ \A x \in T : u <= x
    BY <1>2, LeastOf
  <1>. HIDE DEF u
  <1>4. u \in 0 .. N - n /\ matched[n + u] # {}
    BY <1>3 DEF T
  <1>5. ASSUME NEW k \in n .. n + u - 1
        PROVE  matched[k] = {}
    <2>. DEFINE d == k - n
    <2>1. d \in 0 .. N - n /\ n + d = k /\ ~(u <= d)
      BY <1>1, <1>4
    <2>. HIDE DEF d, N
    <2>. QED BY <1>3, <2>1 DEF T
  <1>. QED BY <1>4, <1>5 DEF Unmatched, T, u

(* The last word before line m is that of the last line with one before it. *)
LEMMA LastWordBefore ==
    ASSUME NEW words \in HeardWords, NEW matched, Matched(matched, words),
           NEW p \in DOMAIN matched, matched[p] # {},
           NEW m \in DOMAIN matched, p < m,
           \A k \in p + 1 .. m - 1 : matched[k] = {}
    PROVE  Max(UNION {matched[k] : k \in 1 .. m - 1}) = Max(matched[p])
  <1>. DEFINE U == UNION {matched[k] : k \in 1 .. m - 1}
              x == Max(matched[p])
  <1>1. DOMAIN matched = 1 .. Len(matched) /\ Len(matched) \in Nat
        /\ \A k \in DOMAIN matched : matched[k] \in SUBSET DOMAIN words
    BY DEF Matched
  <1>2. p \in 1 .. m - 1 /\ \A k \in 1 .. m - 1 : k \in DOMAIN matched
    BY <1>1
  <1>3. x \in matched[p] /\ \A y \in matched[p] : y <= x
    BY <1>1, WordsOf
  <1>4. x \in Nat
    BY <1>1, <1>3, WordsOf
  <1>5. U \in SUBSET DOMAIN words /\ x \in U
    BY <1>1, <1>2, <1>3
  <1>. HIDE DEF x
  <1>6. ASSUME NEW y \in U
        PROVE  y <= x
    <2>1. PICK k \in 1 .. m - 1 : y \in matched[k]
      OBVIOUS
    <2>2. k \notin p + 1 .. m - 1
      BY <2>1
    <2>3. k < p \/ k = p
      BY <1>1, <2>2
    <2>4. y \in Nat
      BY <1>1, <1>2, <2>1, WordsOf
    <2>5. CASE k < p
      <3>1. y < x
        BY <1>2, <1>3, <2>1, <2>5 DEF Matched
      <3>. QED BY <1>4, <2>4, <3>1
    <2>6. CASE k = p
      BY <1>3, <2>1, <2>6
    <2>. QED BY <2>3, <2>5, <2>6
  <1>. HIDE DEF U
  <1>7. Max(U) \in U /\ x <= Max(U) /\ Max(U) \in Nat
    BY <1>5, WordsOf
  <1>8. Max(U) <= x
    BY <1>6, <1>7
  <1>9. Max(U) = x
    BY <1>4, <1>7, <1>8
  <1>. QED BY <1>9 DEF U, x

(* The first word from line m on is that of the first line with one.        *)
LEMMA FirstWordFrom ==
    ASSUME NEW words \in HeardWords, NEW matched, Matched(matched, words),
           NEW q \in DOMAIN matched, matched[q] # {},
           NEW m \in DOMAIN matched, m <= q,
           \A k \in m .. q - 1 : matched[k] = {}
    PROVE  Min(UNION {matched[k] : k \in m .. Len(matched)}) = Min(matched[q])
  <1>. DEFINE U == UNION {matched[k] : k \in m .. Len(matched)}
              x == Min(matched[q])
  <1>1. DOMAIN matched = 1 .. Len(matched) /\ Len(matched) \in Nat
        /\ \A k \in DOMAIN matched : matched[k] \in SUBSET DOMAIN words
    BY DEF Matched
  <1>2. q \in m .. Len(matched) /\ \A k \in m .. Len(matched) : k \in DOMAIN matched
    BY <1>1
  <1>3. x \in matched[q] /\ \A y \in matched[q] : x <= y
    BY <1>1, WordsOf
  <1>4. x \in Nat
    BY <1>1, <1>3, WordsOf
  <1>5. U \in SUBSET DOMAIN words /\ x \in U
    BY <1>1, <1>2, <1>3
  <1>. HIDE DEF x
  <1>6. ASSUME NEW y \in U
        PROVE  x <= y
    <2>1. PICK k \in m .. Len(matched) : y \in matched[k]
      OBVIOUS
    <2>2. k \notin m .. q - 1
      BY <2>1
    <2>3. q < k \/ k = q
      BY <1>1, <2>2
    <2>4. y \in Nat
      BY <1>1, <1>2, <2>1, WordsOf
    <2>5. CASE q < k
      <3>1. x < y
        BY <1>2, <1>3, <2>1, <2>5 DEF Matched
      <3>. QED BY <1>4, <2>4, <3>1
    <2>6. CASE k = q
      BY <1>3, <2>1, <2>6
    <2>. QED BY <2>3, <2>5, <2>6
  <1>. HIDE DEF U
  <1>7. Min(U) \in U /\ Min(U) <= x /\ Min(U) \in Nat
    BY <1>5, WordsOf
  <1>8. x <= Min(U)
    BY <1>6, <1>7
  <1>9. Min(U) = x
    BY <1>4, <1>7, <1>8
  <1>. QED BY <1>9 DEF U, x

-----------------------------------------------------------------------------
(* The cuts from one line with a matched word to the next.                  *)

LastWord(matched, words, n) == words[Max(matched[n - 1])]
NextWord(matched, words, n) == words[Min(matched[n + Unmatched(matched, n)])]

QuietLo(w) == Max({w.start, w.end - Back})
QuietHi(v) == Max({v.start + Slack, Min({v.end, v.start + Ahead})})

CutsAt(matched, words, gaps, db, n) ==
    IF Unmatched(matched, n) = 0
    THEN Placed(<<Quietest(db, QuietLo(LastWord(matched, words, n)),
                               QuietHi(NextWord(matched, words, n)))>>)
    ELSE Pauses(gaps, LastWord(matched, words, n).end - Slack,
                      NextWord(matched, words, n).start + Slack, Unmatched(matched, n))

(* How far the search for a cut between w and v goes: if the two come from  *)
(* one long word, it goes backwards, from its end to after its start.       *)
Reach(w, v) == IF w.end <= v.start THEN QuietHi(v) ELSE Max({w.end, QuietHi(v)})

LEMMA SearchedFrames ==
    ASSUME NEW w \in [start : Nat, end : Nat], NEW v \in [start : Nat, end : Nat],
           w.start <= w.end, v.start <= v.end
    PROVE  /\ QuietLo(w) \in Nat /\ QuietHi(v) \in Nat
           /\ w.end <= v.start => QuietLo(w) < QuietHi(v)
           /\ w.start <= QuietLo(w) /\ QuietLo(w) <= w.end
           /\ v.start + Slack <= QuietHi(v)
           /\ QuietHi(v) <= v.start + Max({Ahead, Slack})
           /\ QuietHi(v) <= v.start + Slack \/ QuietHi(v) <= v.end
  <1>. DEFINE a == w.start
              b == w.end
              c == v.start
              d == v.end
              e == c + Ahead
              m == IF d <= e THEN d ELSE e
              s == c + Slack
  <1>1. a \in Nat /\ b \in Nat /\ c \in Nat /\ d \in Nat /\ a <= b /\ c <= d
    OBVIOUS
  <1>2. Slack \in Nat /\ Slack # 0 /\ Back \in Nat /\ Ahead \in Nat
    BY SearchAssumption
  <1>3. QuietLo(w) = IF a >= b - Back THEN a ELSE b - Back
    <2>1. b - Back \in Int /\ a \in Int
      BY <1>1, <1>2
    <2>. QED BY <2>1, TwoNumbers DEF QuietLo
  <1>4. Min({d, e}) = m /\ m \in Int /\ s \in Int
    <2>1. d \in Int /\ e \in Int /\ s \in Int
      BY <1>1, <1>2
    <2>. HIDE DEF d, e, s
    <2>2. Min({d, e}) = IF d <= e THEN d ELSE e
      BY <2>1, TwoNumbers
    <2>. QED BY <2>1, <2>2
  <1>5. QuietHi(v) = IF s >= m THEN s ELSE m
    <2>1. QuietHi(v) = Max({s, Min({d, e})})
      BY DEF QuietHi
    <2>. HIDE DEF s, m, d, e
    <2>2. Max({s, m}) = IF s >= m THEN s ELSE m
      BY <1>4, TwoNumbers
    <2>. QED BY <1>4, <2>1, <2>2
  <1>6. Max({Ahead, Slack}) = IF Ahead >= Slack THEN Ahead ELSE Slack
    BY <1>2, TwoNumbers
  <1>7. v.start = c /\ w.start = a /\ v.end = d /\ w.end = b
    BY DEF a, b, c, d
  <1>. HIDE DEF a, b, c, d
  <1>8. QuietLo(w) \in Nat /\ a <= QuietLo(w) /\ QuietLo(w) <= b
    BY <1>1, <1>2, <1>3
  <1>9. QuietHi(v) \in Nat /\ c + Slack <= QuietHi(v)
    BY <1>1, <1>2, <1>5
  <1>10. QuietHi(v) <= c + Slack \/ QuietHi(v) <= d
    BY <1>1, <1>2, <1>5
  <1>11. QuietHi(v) <= c + Max({Ahead, Slack})
    BY <1>1, <1>2, <1>5, <1>6
  <1>12. b <= c => QuietLo(w) < QuietHi(v)
    BY <1>1, <1>2, <1>8, <1>9
  <1>. QED BY <1>7, <1>8, <1>9, <1>10, <1>11, <1>12

LEMMA CutsAtLine ==
    ASSUME NEW words \in HeardWords, NEW matched, Matched(matched, words),
           NEW gaps \in GapLists, \A i \in DOMAIN gaps : gaps[i][1] <= gaps[i][2],
           NEW db \in Seq(Int),
           NEW n \in 2 .. Len(matched), matched[Len(matched)] # {}, matched[n - 1] # {},
           CutsAt(matched, words, gaps, db, n).placed
    PROVE  LET cuts == CutsAt(matched, words, gaps, db, n).cuts
               u == Unmatched(matched, n)
               w == LastWord(matched, words, n)
               v == NextWord(matched, words, n)
           IN  /\ cuts \in Seq(Int) /\ Len(cuts) = u + 1
               /\ \A i \in 1 .. u + 1 : /\ 2 * (w.start - Slack) <= cuts[i]
                                        /\ cuts[i] <= 2 * Reach(w, v) + 1
               /\ \A i \in 1 .. u : cuts[i] <= cuts[i + 1]
               /\ w.start + Slack <= w.end => 2 * w.start < cuts[1]
               /\ Reach(w, v) \in Nat
               /\ Reach(w, v) <= v.start + Max({Ahead, Slack}) \/ Reach(w, v) <= w.end
               /\ Reach(w, v) <= v.start + Slack \/ Reach(w, v) <= v.end
  <1>. DEFINE cuts == CutsAt(matched, words, gaps, db, n).cuts
              u == Unmatched(matched, n)
              w == LastWord(matched, words, n)
              v == NextWord(matched, words, n)
  <1>1. /\ DOMAIN matched = 1 .. Len(matched) /\ Len(matched) \in Nat
        /\ \A k \in DOMAIN matched : matched[k] \in SUBSET DOMAIN words
    BY DEF Matched
  <1>2. u \in 0 .. Len(matched) - n /\ matched[n + u] # {}
    BY UnmatchedLines
  <1>3. n - 1 \in DOMAIN matched /\ n + u \in DOMAIN matched /\ n - 1 < n + u /\ u \in Nat
    BY <1>1, <1>2
  <1>. HIDE DEF u
  <1>4. Max(matched[n - 1]) \in matched[n - 1] /\ Min(matched[n + u]) \in matched[n + u]
    BY <1>1, <1>2, <1>3, WordsOf
  <1>5. Max(matched[n - 1]) < Min(matched[n + u])
    BY <1>3, <1>4 DEF Matched
  <1>6. /\ w \in [start : Nat, end : Nat] /\ v \in [start : Nat, end : Nat]
        /\ w.start <= w.end /\ v.start <= v.end /\ (w.end <= v.start \/ w = v)
    <2>1. /\ Max(matched[n - 1]) \in DOMAIN words
          /\ Min(matched[n + u]) \in DOMAIN words
      BY <1>1, <1>3, <1>4
    <2>2. w = words[Max(matched[n - 1])] /\ v = words[Min(matched[n + u])]
      BY DEF LastWord, NextWord, u
    <2>3. \A i \in DOMAIN words : words[i] \in [start : Nat, end : Nat]
      BY EdgesOf
    <2>4. /\ \A i \in DOMAIN words : words[i].start <= words[i].end
          /\ \A i, j \in DOMAIN words : i < j =>
                words[i].end <= words[j].start \/ words[i] = words[j]
      BY DEF HeardWords
    <2>. HIDE DEF w, v
    <2>. QED BY <1>5, <2>1, <2>2, <2>3, <2>4
  <1>7. Slack \in Nat /\ Slack # 0
    BY SearchAssumption
  <1>8. /\ QuietLo(w) \in Nat /\ QuietHi(v) \in Nat
        /\ w.end <= v.start => QuietLo(w) < QuietHi(v)
        /\ w.start <= QuietLo(w) /\ QuietLo(w) <= w.end
        /\ v.start + Slack <= QuietHi(v)
        /\ QuietHi(v) <= v.start + Max({Ahead, Slack})
        /\ QuietHi(v) <= v.start + Slack \/ QuietHi(v) <= v.end
    BY <1>6, SearchedFrames
  <1>. DEFINE a == w.start
              b == w.end
              c == v.start
              d == v.end
              l == QuietLo(w)
              h == QuietHi(v)
              e == Reach(w, v)
  <1>9. /\ a \in Nat /\ b \in Nat /\ c \in Nat /\ d \in Nat /\ a <= b
        /\ b <= c \/ (a = c /\ b = d)
        /\ l \in Nat /\ h \in Nat /\ a <= l /\ l <= b /\ c + Slack <= h
        /\ b <= c => l < h
    BY <1>6, <1>8
  <1>10. e \in Nat /\ h <= e /\ (b <= c => e = h) /\ (~(b <= c) => b <= e) /\ e \in {b, h}
    <2>1. Max({b, h}) = IF b >= h THEN b ELSE h
      <3>. HIDE DEF b, h
      <3>. QED BY <1>9, TwoNumbers
    <2>2. e = IF b <= c THEN h ELSE Max({b, h})
      BY DEF Reach
    <2>. HIDE DEF a, b, c, d, l, h, e
    <2>. QED BY <1>9, <2>1, <2>2
  <1>11. /\ e <= c + Max({Ahead, Slack}) \/ e <= b
         /\ e <= c + Slack \/ e <= d
    <2>. DEFINE far == Max({Ahead, Slack})
    <2>1. h <= c + far /\ (h <= c + Slack \/ h <= d)
      BY <1>8
    <2>. HIDE DEF a, b, c, d, l, h, e, far
    <2>2. e <= c + far \/ e <= b
      BY <1>9, <1>10, <2>1
    <2>3. e <= c + Slack \/ e <= d
      BY <1>7, <1>9, <1>10, <2>1
    <2>. QED BY <2>2, <2>3 DEF far
  <1>12. /\ cuts \in Seq(Int) /\ Len(cuts) = u + 1
         /\ \A i \in 1 .. u + 1 : 2 * (a - Slack) <= cuts[i] /\ cuts[i] <= 2 * e + 1
         /\ \A i \in 1 .. u : cuts[i] <= cuts[i + 1]
         /\ a + Slack <= b => 2 * a < cuts[1]
    <2>1. CASE u = 0
      <3>. DEFINE cut == Quietest(db, l, h)
      <3>1. cuts = <<cut>>
        BY <2>1 DEF CutsAt, Placed, u
      <3>2. cut \in Int /\ 2 * (a - Slack) <= cut /\ 2 * a < cut /\ cut <= 2 * e + 1
        <4>1. CASE l < h
          <5>1. cut \in Int /\ 2 * l < cut /\ cut <= 2 * h + 1
            BY <1>9, <4>1, QuietestIsNear
          <5>. HIDE DEF cut, l, h, a, b, c, d, e
          <5>. QED BY <1>7, <1>9, <1>10, <5>1
        <4>2. CASE ~(l < h)
          <5>1. cut = l + h
            BY <1>9, <4>2, QuietestBackwards
          <5>. HIDE DEF cut, l, h, a, b, c, d, e
          <5>2. a = c /\ b <= e
            BY <1>9, <1>10, <4>2
          <5>. QED BY <1>7, <1>9, <1>10, <4>2, <5>1, <5>2
        <4>. QED BY <4>1, <4>2
      <3>. HIDE DEF cuts, cut, l, h, a, b, c, d, e
      <3>3. /\ cuts \in Seq(Int) /\ Len(cuts) = 1 /\ cuts[1] = cut
            /\ \A i \in 1 .. u + 1 : i = 1 /\ 1 .. u = {} /\ u + 1 = 1
        BY <2>1, <3>1, <3>2
      <3>5. 1 .. u = {} /\ u + 1 = 1
        BY <2>1
      <3>. QED BY <3>2, <3>3, <3>5
    <2>2. CASE u # 0
      <3>. DEFINE lo == b - Slack
                  hi == c + Slack
                  found == Pauses(gaps, lo, hi, u)
      <3>1. CutsAt(matched, words, gaps, db, n) = found
        BY <2>2 DEF CutsAt, u
      <3>. HIDE DEF a, b, c, d, l, h, e
      <3>2. lo \in Int /\ hi \in Int
        BY <1>7, <1>9
      <3>3. cuts = found.cuts /\ found.placed
        BY <3>1
      <3>. HIDE DEF cuts, lo, hi
      <3>4. /\ cuts \in Seq(Int)
            /\ Len(cuts) = u + 1
            /\ \A i \in 1 .. u + 1 : IF lo < hi THEN 2 * lo < cuts[i] /\ cuts[i] < 2 * hi
                                                ELSE cuts[i] = lo + hi
            /\ \A i \in 1 .. u : cuts[i] <= cuts[i + 1]
        BY <1>3, <3>2, <3>3, PausesAreCuts
      <3>. HIDE DEF found
      <3>5. \A i \in 1 .. u + 1 : cuts[i] \in Int
        BY <1>3, <3>4
      <3>6. 1 \in 1 .. u + 1
        BY <1>3
      <3>7. ASSUME NEW i \in 1 .. u + 1
            PROVE  /\ 2 * (a - Slack) <= cuts[i] /\ cuts[i] <= 2 * e + 1
                   /\ a + Slack <= b => 2 * a < cuts[i]
        <4>. DEFINE x == cuts[i]
        <4>1. x \in Int /\ IF lo < hi THEN 2 * lo < x /\ x < 2 * hi ELSE x = lo + hi
          BY <3>4, <3>5
        <4>2. lo = b - Slack /\ hi = c + Slack
          BY DEF lo, hi
        <4>. HIDE DEF x
        <4>3. CASE lo < hi
          <5>1. 2 * (b - Slack) < x /\ x < 2 * (c + Slack)
            BY <4>1, <4>2, <4>3
          <5>2. 2 * (a - Slack) <= x /\ x <= 2 * e + 1
            BY <1>7, <1>9, <1>10, <4>1, <5>1
          <5>3. a + Slack <= b => 2 * a < x
            BY <1>7, <1>9, <4>1, <5>1
          <5>. QED BY <5>2, <5>3 DEF x
        <4>4. CASE ~(lo < hi)
          <5>1. a = c /\ b <= e /\ x = b + c
            BY <1>7, <1>9, <1>10, <4>1, <4>2, <4>4
          <5>. QED BY <1>7, <1>9, <1>10, <5>1 DEF x
        <4>. QED BY <4>3, <4>4 DEF x
      <3>. QED BY <3>4, <3>6, <3>7
    <2>. QED BY <2>1, <2>2
  <1>. QED BY <1>10, <1>11, <1>12 DEF u

-----------------------------------------------------------------------------
(* The recursion of cut_points over the lines.                              *)

Joined(here, rest) ==
    IF here.placed /\ rest.placed THEN Placed(here.cuts \o rest.cuts) ELSE NotPlaced

(* from is the result from every line on, next the line after a cut's.      *)
FromLines(from, N, here, next) ==
    from = [n \in 2 .. N + 1 |->
              IF n > N THEN Placed(<<>>) ELSE Joined(here[n], from[next[n]])]

LEMMA FromLinesExists ==
    ASSUME NEW N \in Nat \ {0}, NEW here, NEW next,
           \A n \in 2 .. N : next[n] \in n + 1 .. N + 1
    PROVE  \E from : FromLines(from, N, here, next)
  <1>. DEFINE From(from, m) ==
                \A n \in m .. N + 1 :
                   from[n] = IF n > N THEN Placed(<<>>) ELSE Joined(here[n], from[next[n]])
              T == {d \in Nat : d < N /\ ~\E from : From(from, N + 1 - d)}
  <1>1. T = {}
    <2>. SUFFICES ASSUME T # {}
                  PROVE  FALSE
      OBVIOUS
    <2>1. T \in SUBSET Nat
      OBVIOUS
    <2>2. PICK d \in T : \A e \in T : d <= e
      <3>. HIDE DEF T
      <3>. QED BY <2>1, Least
    <2>3. d \in Nat /\ d < N /\ ~\E from : From(from, N + 1 - d)
      OBVIOUS
    <2>. HIDE DEF From
    <2>4. CASE d = 0
      <3>. DEFINE f == [n \in {N + 1} |-> Placed(<<>>)]
      <3>1. \A n \in N + 1 .. N + 1 : n = N + 1 /\ n > N
        OBVIOUS
      <3>2. f[N + 1] = Placed(<<>>)
        OBVIOUS
      <3>. HIDE DEF f
      <3>3. From(f, N + 1)
        BY <3>1, <3>2 DEF From
      <3>4. N + 1 - d = N + 1
        BY <2>4
      <3>. QED BY <2>3, <3>3, <3>4
    <2>5. CASE d # 0
      <3>. DEFINE e == d - 1
                  m == N + 1 - d
      <3>1. e \in Nat /\ e < N /\ e \notin T
        BY <2>2, <2>3, <2>5
      <3>2. PICK from : From(from, N + 1 - e)
        BY <3>1
      <3>3. m \in 2 .. N /\ N + 1 - e = m + 1 /\ \A n \in m .. N + 1 : n = m \/ n \in m + 1 .. N + 1
        BY <2>3, <2>5
      <3>. HIDE DEF e, m
      <3>. DEFINE f == [n \in m .. N + 1 |->
                          IF n = m THEN Joined(here[m], from[next[m]]) ELSE from[n]]
      <3>4. next[m] \in m + 1 .. N + 1 /\ \A n \in m + 1 .. N : next[n] \in m + 1 .. N + 1
        BY <3>3
      <3>5. f[m] = Joined(here[m], from[next[m]])
        BY <3>3
      <3>6. \A n \in m + 1 .. N + 1 : f[n] = from[n]
        BY <3>3
      <3>. HIDE DEF f
      <3>7. \A n \in m + 1 .. N + 1 :
               from[n] = IF n > N THEN Placed(<<>>) ELSE Joined(here[n], from[next[n]])
        BY <3>2, <3>3 DEF From
      <3>8. ASSUME NEW n \in m .. N + 1
            PROVE  f[n] = IF n > N THEN Placed(<<>>) ELSE Joined(here[n], f[next[n]])
        <4>1. CASE n = m
          <5>1. f[next[m]] = from[next[m]]
            BY <3>4, <3>6
          <5>2. ~(n > N)
            BY <3>3, <4>1
          <5>. QED BY <3>5, <4>1, <5>1, <5>2
        <4>2. CASE n # m
          <5>1. n \in m + 1 .. N + 1
            BY <3>3, <4>2
          <5>2. CASE n > N
            BY <3>6, <3>7, <5>1, <5>2
          <5>3. CASE ~(n > N)
            <6>1. n \in m + 1 .. N
              BY <3>3, <5>1, <5>3
            <6>2. f[next[n]] = from[next[n]]
              BY <3>4, <3>6, <6>1
            <6>. QED BY <3>6, <3>7, <5>1, <5>3, <6>2
          <5>. QED BY <5>2, <5>3
        <4>. QED BY <4>1, <4>2
      <3>9. From(f, m)
        BY <3>8 DEF From
      <3>. QED BY <2>3, <3>9 DEF m
    <2>. QED BY <2>4, <2>5
  <1>2. PICK from : From(from, 2)
    <2>. DEFINE d == N - 1
    <2>1. d \in Nat /\ d < N /\ N + 1 - d = 2
      OBVIOUS
    <2>. HIDE DEF d, From
    <2>2. \E from : From(from, N + 1 - d)
      BY <1>1, <2>1
    <2>. QED BY <2>1, <2>2
  <1>. DEFINE f == [n \in 2 .. N + 1 |-> from[n]]
  <1>3. \A n \in 2 .. N + 1 : f[n] = from[n]
    OBVIOUS
  <1>4. f = [n \in 2 .. N + 1 |-> f[n]]
    OBVIOUS
  <1>. HIDE DEF f
  <1>5. ASSUME NEW n \in 2 .. N + 1
        PROVE  f[n] = IF n > N THEN Placed(<<>>) ELSE Joined(here[n], f[next[n]])
    <2>1. CASE n > N
      BY <1>2, <1>3, <2>1
    <2>2. CASE ~(n > N)
      <3>1. n \in 2 .. N /\ next[n] \in 2 .. N + 1
        BY <2>2
      <3>. QED BY <1>2, <1>3, <2>2, <3>1
    <2>. QED BY <2>1, <2>2
  <1>6. FromLines(f, N, here, next)
    BY <1>4, <1>5 DEF FromLines
  <1>. QED BY <1>6

NextLine(matched, n) == n + Unmatched(matched, n) + 1

IsCutting(from, matched, words, gaps, db) ==
    from = [n \in 2 .. Len(matched) + 1 |->
              IF n > Len(matched) THEN Placed(<<>>)
              ELSE Joined(CutsAt(matched, words, gaps, db, n), from[NextLine(matched, n)])]

LEMMA CutPointsIsCutting ==
    ASSUME NEW matched, NEW words, NEW gaps, NEW db,
           matched[1] # {}, matched[Len(matched)] # {}
    PROVE  CutPoints(matched, words, gaps, db)
             = (CHOOSE from : IsCutting(from, matched, words, gaps, db))[2]
  BY Zenon DEF CutPoints, IsCutting, CutsAt, NextLine, Joined, QuietLo, QuietHi,
               LastWord, NextWord, Unmatched

LEMMA CuttingExists ==
    ASSUME NEW words \in HeardWords, NEW matched, Matched(matched, words),
           NEW gaps, NEW db, Len(matched) # 0, matched[Len(matched)] # {}
    PROVE  \E from : IsCutting(from, matched, words, gaps, db)
  <1>. DEFINE N == Len(matched)
              here == [n \in 2 .. N |-> CutsAt(matched, words, gaps, db, n)]
              next == [n \in 2 .. N |-> NextLine(matched, n)]
  <1>1. N \in Nat \ {0}
    BY DEF Matched
  <1>2. ASSUME NEW n \in 2 .. N
        PROVE  next[n] \in n + 1 .. N + 1
    <2>1. Unmatched(matched, n) \in 0 .. N - n
      BY UnmatchedLines
    <2>2. next[n] = n + Unmatched(matched, n) + 1
      BY DEF NextLine
    <2>. HIDE DEF next, N
    <2>. QED BY <1>1, <2>1, <2>2
  <1>3. \A n \in 2 .. N : next[n] = NextLine(matched, n)
                          /\ here[n] = CutsAt(matched, words, gaps, db, n)
    OBVIOUS
  <1>. HIDE DEF here, next
  <1>4. PICK from : FromLines(from, N, here, next)
    <2>. HIDE DEF N
    <2>. QED BY <1>1, <1>2, FromLinesExists
  <1>5. \A n \in 2 .. N + 1 : ~(n > N) => n \in 2 .. N
    BY <1>1
  <1>6. from = [n \in 2 .. N + 1 |->
                  IF n > N THEN Placed(<<>>)
                  ELSE Joined(CutsAt(matched, words, gaps, db, n), from[NextLine(matched, n)])]
    <2>1. from = [n \in 2 .. N + 1 |->
                    IF n > N THEN Placed(<<>>) ELSE Joined(here[n], from[next[n]])]
      BY <1>4 DEF FromLines
    <2>. HIDE DEF N
    <2>. QED BY <1>3, <1>5, <2>1
  <1>. QED BY <1>6 DEF IsCutting

-----------------------------------------------------------------------------
(* Every cut is near the words next to it, and no clip ends before it       *)
(* starts.                                                                  *)

Near(matched, words, m, cut) ==
    /\ cut >= 2 * (words[Max(UNION {matched[k] : k \in 1 .. m - 1})].start - Slack)
    /\ \/ cut <= 2 * (words[Min(UNION {matched[k] : k \in m .. Len(matched)})].start
                        + Max({Ahead, Slack})) + 1
       \/ cut <= 2 * words[Max(UNION {matched[k] : k \in 1 .. m - 1})].end + 1

Apart(v, w) == v.start + Slack <= w.start /\ w.start + Slack <= w.end

(* Line m has a clip from one cut to another.                               *)
ClipFits(matched, words, m, start, end) ==
    \/ start <= end
    \/ matched[m] # {} /\ ~Apart(words[Min(matched[m])], words[Max(matched[m])])

(* The cuts from line n on are good.                                        *)
GoodCuts(matched, words, n, cuts) ==
    /\ cuts \in Seq(Int)
    /\ Len(cuts) = Len(matched) + 1 - n
    /\ \A m \in n .. Len(matched) : Near(matched, words, m, cuts[m - n + 1])
    /\ \A m \in n .. Len(matched) - 1 :
          ClipFits(matched, words, m, cuts[m - n + 1], cuts[m - n + 2])
    /\ n <= Len(matched) =>
          LET w == words[Max(matched[n - 1])]
          IN  w.start + Slack <= w.end => 2 * w.start < cuts[1]

LEMMA AmongTwo ==
    ASSUME NEW x \in Int, NEW y \in Int
    PROVE  Max({x, y}) \in Int /\ Min({x, y}) \in Int
  BY TwoNumbers

LEMMA LineCutsAreGood ==
    ASSUME NEW words \in HeardWords, NEW matched, Matched(matched, words),
           NEW gaps \in GapLists, \A i \in DOMAIN gaps : gaps[i][1] <= gaps[i][2],
           NEW db \in Seq(Int),
           NEW n \in 2 .. Len(matched), matched[Len(matched)] # {}, matched[n - 1] # {},
           CutsAt(matched, words, gaps, db, n).placed,
           NEW rest, GoodCuts(matched, words, NextLine(matched, n), rest)
    PROVE  GoodCuts(matched, words, n, CutsAt(matched, words, gaps, db, n).cuts \o rest)
  <1>. DEFINE N == Len(matched)
              here == CutsAt(matched, words, gaps, db, n).cuts
              u == Unmatched(matched, n)
              next == NextLine(matched, n)
              cuts == here \o rest
              w == LastWord(matched, words, n)
              v == NextWord(matched, words, n)
              h == Reach(w, v)
  <1>1. /\ DOMAIN matched = 1 .. N /\ N \in Nat
        /\ \A k \in DOMAIN matched : matched[k] \in SUBSET DOMAIN words
    BY DEF Matched
  <1>2. /\ u \in 0 .. N - n /\ matched[n + u] # {}
        /\ \A k \in n .. n + u - 1 : matched[k] = {}
    BY UnmatchedLines
  <1>3. next = n + u + 1 /\ u \in Nat /\ n \in Nat /\ n >= 2 /\ n + u <= N
    BY <1>1, <1>2 DEF NextLine
  <1>4. /\ here \in Seq(Int) /\ Len(here) = u + 1
        /\ \A i \in 1 .. u + 1 : 2 * (w.start - Slack) <= here[i] /\ here[i] <= 2 * h + 1
        /\ \A i \in 1 .. u : here[i] <= here[i + 1]
        /\ w.start + Slack <= w.end => 2 * w.start < here[1]
        /\ h \in Nat
        /\ h <= v.start + Max({Ahead, Slack}) \/ h <= w.end
        /\ h <= v.start + Slack \/ h <= v.end
    BY CutsAtLine
  <1>5. w = words[Max(matched[n - 1])] /\ v = words[Min(matched[n + u])]
    BY DEF LastWord, NextWord
  <1>. HIDE DEF h, w, v, here, u, next, N
  <1>6. /\ rest \in Seq(Int) /\ Len(rest) = N + 1 - next
        /\ \A m \in next .. N : Near(matched, words, m, rest[m - next + 1])
        /\ \A m \in next .. N - 1 :
              ClipFits(matched, words, m, rest[m - next + 1], rest[m - next + 2])
        /\ next <= N =>
              (words[Max(matched[next - 1])].start + Slack <= words[Max(matched[next - 1])].end
                 => 2 * words[Max(matched[next - 1])].start < rest[1])
    BY DEF GoodCuts, next, N
  <1>7. /\ cuts \in Seq(Int) /\ Len(cuts) = N + 1 - n
        /\ \A i \in 1 .. u + 1 : cuts[i] = here[i]
        /\ \A i \in 1 .. N + 1 - next : cuts[u + 1 + i] = rest[i]
    <2>1. Len(here) + Len(rest) = N + 1 - n
      <3>1. Len(here) = u + 1 /\ Len(rest) = N + 1 - next
        BY <1>4, <1>6
      <3>2. u + 1 + (N + 1 - next) = N + 1 - n
        <4>1. N \in Int /\ next = n + u + 1 /\ u \in Int /\ n \in Int
          BY <1>1, <1>3
        <4>. QED BY ONLY <4>1
      <3>. QED BY <3>1, <3>2
    <2>2. /\ cuts \in Seq(Int) /\ Len(cuts) = Len(here) + Len(rest)
          /\ \A i \in 1 .. Len(here) : cuts[i] = here[i]
          /\ \A i \in 1 .. Len(rest) : cuts[Len(here) + i] = rest[i]
      <3>1. here \in Seq(Int) /\ rest \in Seq(Int)
        BY <1>4, <1>6
      <3>. QED BY ONLY <3>1
    <2>. QED BY <1>4, <1>6, <2>1, <2>2
  <1>. HIDE DEF cuts
  <1>8. n - 1 \in DOMAIN matched /\ n + u \in DOMAIN matched
    BY <1>1, <1>3
  <1>9. /\ Max(matched[n - 1]) \in DOMAIN words /\ Min(matched[n + u]) \in DOMAIN words
        /\ Max(matched[n + u]) \in matched[n + u] /\ Min(matched[n + u]) \in matched[n + u]
        /\ Min(matched[n + u]) <= Max(matched[n + u])
        /\ Max(matched[n + u]) \in DOMAIN words
    BY <1>1, <1>2, <1>8, WordsOf
  <1>10. \A i \in DOMAIN words : words[i].start \in Nat /\ words[i].end \in Nat /\ i \in Nat
    BY EdgesOf
  <1>11. w.start \in Nat /\ w.end \in Nat /\ v.start \in Nat /\ v.end \in Nat
    BY <1>5, <1>9, <1>10
  <1>12. Slack \in Nat /\ Slack # 0 /\ Max({Ahead, Slack}) \in Nat
    <2>1. Slack \in Nat /\ Slack # 0 /\ Ahead \in Nat
      BY SearchAssumption
    <2>. QED BY <2>1, TwoNumbers
  <1>13. h \in Int
    BY <1>4
  <1>14. ASSUME NEW m \in n .. n + u
         PROVE  /\ Near(matched, words, m, cuts[m - n + 1])
                /\ m - n + 1 \in 1 .. u + 1 /\ cuts[m - n + 1] = here[m - n + 1]
    <2>1. m - n + 1 \in 1 .. u + 1 /\ m \in DOMAIN matched
      BY <1>1, <1>3
    <2>2. Max(UNION {matched[k] : k \in 1 .. m - 1}) = Max(matched[n - 1])
      <3>1. n - 1 < m /\ \A k \in n - 1 + 1 .. m - 1 : k \in n .. n + u - 1
        BY <1>3
      <3>2. \A k \in n - 1 + 1 .. m - 1 : matched[k] = {}
        BY <1>2, <3>1
      <3>. QED BY <1>8, <2>1, <3>1, <3>2, LastWordBefore
    <2>3. Min(UNION {matched[k] : k \in m .. Len(matched)}) = Min(matched[n + u])
      <3>1. m <= n + u /\ \A k \in m .. n + u - 1 : k \in n .. n + u - 1
        BY <1>3
      <3>2. \A k \in m .. n + u - 1 : matched[k] = {}
        BY <1>2, <3>1
      <3>. DEFINE q == n + u
      <3>3. /\ matched[q] # {} /\ m <= q /\ q \in DOMAIN matched
            /\ \A k \in m .. q - 1 : matched[k] = {}
        BY <1>2, <1>8, <3>1, <3>2
      <3>4. m \in DOMAIN matched
        BY <2>1
      <3>. HIDE DEF q
      <3>5. Min(UNION {matched[k] : k \in m .. Len(matched)}) = Min(matched[q])
        BY <3>3, <3>4, FirstWordFrom
      <3>. QED BY <3>5 DEF q
    <2>. DEFINE c == cuts[m - n + 1]
    <2>4. c = here[m - n + 1] /\ c \in Int
      <3>. DEFINE i == m - n + 1
      <3>1. i \in 1 .. u + 1 /\ here \in Seq(Int) /\ Len(here) = u + 1
        BY <1>4, <2>1
      <3>2. cuts[i] = here[i]
        BY <1>7, <3>1
      <3>. HIDE DEF i
      <3>3. here[i] \in Int
        BY ONLY <3>1
      <3>. QED BY <3>2, <3>3 DEF i
    <2>5. 2 * (w.start - Slack) <= c /\ c <= 2 * h + 1
      BY <1>4, <2>1, <2>4
    <2>. HIDE DEF c
    <2>6. \/ c <= 2 * (v.start + Max({Ahead, Slack})) + 1
          \/ c <= 2 * w.end + 1
      <3>. DEFINE far == Max({Ahead, Slack})
                  a == v.start
                  b == w.end
      <3>1. (h <= a + far \/ h <= b) /\ a \in Nat /\ b \in Nat /\ far \in Nat
        BY <1>4, <1>11, <1>12
      <3>. HIDE DEF far, a, b
      <3>2. c <= 2 * (a + far) + 1 \/ c <= 2 * b + 1
        BY <1>13, <2>4, <2>5, <3>1
      <3>. QED BY <3>2 DEF far, a, b
    <2>7. Near(matched, words, m, c)
      BY <1>5, <2>2, <2>3, <2>4, <2>5, <2>6, <1>11, <1>12 DEF Near
    <2>. QED BY <2>1, <2>4, <2>7 DEF c
  <1>15. ASSUME NEW m \in next .. N
         PROVE  /\ cuts[m - n + 1] = rest[m - next + 1]
                /\ m < N => cuts[m - n + 2] = rest[m - next + 2]
    <2>0. N \in Int /\ next = n + u + 1 /\ u \in Int /\ n \in Int /\ m \in next .. N
      BY <1>1, <1>3
    <2>1. m - next + 1 \in 1 .. N + 1 - next /\ u + 1 + (m - next + 1) = m - n + 1
      BY ONLY <2>0
    <2>2. m < N => m - next + 2 \in 1 .. N + 1 - next /\ u + 1 + (m - next + 2) = m - n + 2
      BY ONLY <2>0
    <2>. QED BY <1>7, <2>1, <2>2
  <1>16. \A m \in n .. N : Near(matched, words, m, cuts[m - n + 1])
    <2> TAKE m \in n .. N
    <2>1. m \in n .. n + u \/ m \in next .. N
      BY <1>1, <1>3
    <2>. QED BY <1>6, <1>14, <1>15, <2>1
  <1>17. ASSUME NEW m \in n .. n + u - 1
         PROVE  cuts[m - n + 1] <= cuts[m - n + 2]
    <2>1. m - n + 1 \in 1 .. u /\ m - n + 1 \in 1 .. u + 1 /\ m - n + 2 \in 1 .. u + 1
          /\ m - n + 1 + 1 = m - n + 2
      <3>1. u \in Int /\ n \in Int /\ m \in n .. n + u - 1
        BY <1>3
      <3>. QED BY ONLY <3>1
    <2>. QED BY <1>4, <1>7, <2>1
  <1>18. ASSUME n + u < N,
                Apart(words[Min(matched[n + u])], words[Max(matched[n + u])])
         PROVE  cuts[u + 1] <= cuts[u + 2]
    <2>. DEFINE z == words[Max(matched[n + u])]
    <2>1. v.start + Slack <= z.start /\ z.start + Slack <= z.end
          /\ z.start \in Nat /\ z.end \in Nat
      BY <1>5, <1>9, <1>10, <1>18 DEF Apart
    <2>2. v.end <= z.start
      <3>1. v.start < z.start
        <4>. DEFINE x == v.start
                    y == z.start
        <4>1. x \in Nat /\ y \in Nat /\ x + Slack <= y /\ Slack \in Nat /\ Slack # 0
          BY <1>11, <1>12, <2>1
        <4>. HIDE DEF x, y
        <4>2. x < y
          BY ONLY <4>1
        <4>. QED BY <4>2 DEF x, y
      <3>2. Min(matched[n + u]) # Max(matched[n + u])
        BY <1>5, <1>11, <3>1
      <3>3. Min(matched[n + u]) < Max(matched[n + u])
        BY <1>9, <1>10, <3>2
      <3>4. v.end <= z.start \/ v = z
        BY <1>5, <1>9, <3>3 DEF HeardWords
      <3>5. v # z
        BY <1>11, <3>1
      <3>. QED BY <3>4, <3>5
    <2>3. h <= z.start
      <3>1. h <= v.start + Slack \/ h <= v.end
        BY <1>4
      <3>. QED BY <1>11, <1>12, <1>13, <2>1, <2>2, <3>1
    <2>4. next <= N /\ next - 1 = n + u
      BY <1>1, <1>3, <1>18
    <2>5. 2 * z.start < rest[1]
      BY <1>6, <2>1, <2>4
    <2>6. cuts[u + 1] <= 2 * h + 1 /\ cuts[u + 1] \in Int
      <3>1. u + 1 \in 1 .. u + 1
        BY <1>3
      <3>. QED BY <1>4, <1>7, <3>1
    <2>7. cuts[u + 2] = rest[1] /\ rest[1] \in Int
      <3>1. 1 \in 1 .. N + 1 - next /\ u + 1 + 1 = u + 2
        BY <1>1, <1>3, <2>4
      <3>2. cuts[u + 1 + 1] = rest[1]
        BY <1>7, <3>1
      <3>3. rest[1] \in Int
        BY <1>6, <3>1
      <3>. QED BY <3>1, <3>2, <3>3
    <2>. HIDE DEF z
    <2>. QED BY <1>13, <2>1, <2>3, <2>5, <2>6, <2>7
  <1>19. \A m \in n .. N - 1 : ClipFits(matched, words, m, cuts[m - n + 1], cuts[m - n + 2])
    <2> TAKE m \in n .. N - 1
    <2>1. CASE m \in n .. n + u - 1
      BY <1>17, <2>1 DEF ClipFits
    <2>2. CASE m = n + u
      <3>1. m - n + 1 = u + 1 /\ m - n + 2 = u + 2 /\ n + u < N
        BY <1>1, <1>3, <2>2
      <3>2. CASE Apart(words[Min(matched[n + u])], words[Max(matched[n + u])])
        BY <1>18, <3>1, <3>2 DEF ClipFits
      <3>3. CASE ~Apart(words[Min(matched[n + u])], words[Max(matched[n + u])])
        BY <1>2, <2>2, <3>3 DEF ClipFits
      <3>. QED BY <3>2, <3>3
    <2>3. CASE m \in next .. N - 1
      <3>1. m \in next .. N /\ m < N
        BY <1>1, <1>3, <2>3
      <3>. QED BY <1>6, <1>15, <2>3, <3>1
    <2>4. m \in n .. n + u - 1 \/ m = n + u \/ m \in next .. N - 1
      BY <1>1, <1>3
    <2>. QED BY <2>1, <2>2, <2>3, <2>4
  <1>20. w.start + Slack <= w.end => 2 * w.start < cuts[1]
    <2>1. 1 \in 1 .. u + 1
      BY <1>3
    <2>. QED BY <1>4, <1>7, <2>1
  <1>. QED BY <1>5, <1>7, <1>16, <1>19, <1>20 DEF GoodCuts, N, cuts, here

(* cut_points (tts.py:291) gives each line after the first exactly one cut, *)
(* near the words next to it and never before the cut of the line before    *)
(* (unless a line's words are too near each other), or gives up: whatever   *)
(* words are heard, spelled out, matched and missed and wherever the        *)
(* silences are.                                                            *)
THEOREM LinesAreAlwaysCut ==
    ASSUME NEW words \in HeardWords, NEW matched, Matched(matched, words), Len(matched) # 0,
           NEW gaps \in GapLists, \A i \in DOMAIN gaps : gaps[i][1] <= gaps[i][2],
           NEW db \in Seq(Int)
    PROVE  OneCutPerLine(matched, words, gaps, db)
  <1>. SUFFICES ASSUME CutPoints(matched, words, gaps, db).placed
                PROVE  OneCutPerLine(matched, words, gaps, db)
    BY Zenon DEF OneCutPerLine
  <1>. DEFINE N == Len(matched)
              from == CHOOSE f : IsCutting(f, matched, words, gaps, db)
              Good(n) == matched[n - 1] # {} /\ from[n].placed
                            => GoodCuts(matched, words, n, from[n].cuts)
              T == {d \in Nat : d < N /\ ~Good(N + 1 - d)}
  <1>1. N \in Nat \ {0}
    BY DEF Matched
  <1>2. matched[1] # {} /\ matched[N] # {}
    BY DEF CutPoints, NotPlaced
  <1>3. IsCutting(from, matched, words, gaps, db)
    BY <1>2, CuttingExists
  <1>4. CutPoints(matched, words, gaps, db) = from[2]
    BY <1>2, CutPointsIsCutting
  <1>. HIDE DEF from
  <1>5. \A n \in 2 .. N + 1 :
           from[n] = IF n > N THEN Placed(<<>>)
                     ELSE Joined(CutsAt(matched, words, gaps, db, n), from[NextLine(matched, n)])
    <2>1. from = [n \in 2 .. N + 1 |->
                    IF n > N THEN Placed(<<>>)
                    ELSE Joined(CutsAt(matched, words, gaps, db, n), from[NextLine(matched, n)])]
      BY <1>3 DEF IsCutting
    <2>. HIDE DEF N
    <2>. QED BY ONLY <2>1
  <1>6. Good(N + 1)
    <2>. DEFINE M == N + 1
    <2>1. M \in 2 .. M /\ M > N /\ ~(M <= N) /\ N + 1 - M = 0 /\ M .. N = {} /\ M .. N - 1 = {}
      BY <1>1
    <2>2. from[M].cuts = <<>>
      BY <1>5, <2>1 DEF Placed
    <2>3. <<>> \in Seq(Int) /\ Len(<<>>) = 0
      OBVIOUS
    <2>4. GoodCuts(matched, words, M, <<>>)
      BY <2>1, <2>3 DEF GoodCuts
    <2>. QED BY <2>2, <2>4
  <1>7. ASSUME NEW n \in 2 .. N,
               \A k \in n + 1 .. N + 1 : Good(k)
        PROVE  Good(n)
    <2>. SUFFICES ASSUME matched[n - 1] # {}, from[n].placed
                  PROVE  GoodCuts(matched, words, n, from[n].cuts)
      OBVIOUS
    <2>. DEFINE here == CutsAt(matched, words, gaps, db, n)
                next == NextLine(matched, n)
                rest == from[next]
    <2>1. from[n] = Joined(here, rest)
      BY <1>1, <1>5
    <2>2. here.placed /\ rest.placed /\ from[n].cuts = here.cuts \o rest.cuts
      <3>. HIDE DEF here, rest
      <3>1. ~NotPlaced.placed
        BY DEF NotPlaced
      <3>2. here.placed /\ rest.placed
        BY <2>1, <3>1 DEF Joined
      <3>3. from[n] = Placed(here.cuts \o rest.cuts)
        BY <2>1, <3>2 DEF Joined
      <3>. DEFINE x == here.cuts \o rest.cuts
      <3>4. from[n] = Placed(x)
        BY <3>3
      <3>. HIDE DEF x
      <3>5. from[n].cuts = x
        BY <3>4 DEF Placed
      <3>. QED BY <3>2, <3>5 DEF x
    <2>3. Unmatched(matched, n) \in 0 .. N - n /\ matched[n + Unmatched(matched, n)] # {}
      BY <1>2, UnmatchedLines
    <2>4. next \in n + 1 .. N + 1 /\ matched[next - 1] # {}
      <3>. DEFINE u == Unmatched(matched, n)
      <3>1. next = n + u + 1
        BY DEF NextLine
      <3>. HIDE DEF u, next, N
      <3>2. next - 1 = n + u /\ next \in n + 1 .. N + 1
        BY <1>1, <2>3, <3>1 DEF u
      <3>. QED BY <2>3, <3>2 DEF u
    <2>5. GoodCuts(matched, words, next, rest.cuts)
      BY <1>7, <2>2, <2>4
    <2>6. GoodCuts(matched, words, n, here.cuts \o rest.cuts)
      <3>. HIDE DEF rest
      <3>. QED BY <1>2, <2>2, <2>5, LineCutsAreGood
    <2>. QED BY <2>2, <2>6
  <1>8. T = {}
    <2>. SUFFICES ASSUME T # {}
                  PROVE  FALSE
      OBVIOUS
    <2>. HIDE DEF Good
    <2>1. T \in SUBSET Nat
      OBVIOUS
    <2>2. PICK d \in T : \A e \in T : d <= e
      <3>. HIDE DEF T
      <3>. QED BY <2>1, Least
    <2>3. d \in Nat /\ d < N /\ ~Good(N + 1 - d)
      OBVIOUS
    <2>. DEFINE n == N + 1 - d
    <2>4. d # 0
      BY <1>1, <1>6, <2>3
    <2>5. n \in 2 .. N
      BY <1>1, <2>3, <2>4
    <2>6. ASSUME NEW k \in n + 1 .. N + 1
          PROVE  Good(k)
      <3>. DEFINE e == N + 1 - k
      <3>1. e \in Nat /\ e < d /\ e < N /\ N + 1 - e = k
        BY <1>1, <2>3, <2>5
      <3>2. e \notin T
        BY <2>2, <2>3, <3>1
      <3>. QED BY <3>1, <3>2
    <2>7. Good(n)
      <3>. HIDE DEF n
      <3>. QED BY <1>7, <2>5, <2>6
    <2>. QED BY <2>3, <2>7
  <1>9. CASE N = 1
    <2>1. from[2].cuts = <<>>
      BY <1>5, <1>9 DEF Placed
    <2>2. 2 .. N = {} /\ 2 .. N - 1 = {} /\ N - 1 = 0
      BY <1>9
    <2>3. Len(<<>>) = 0
      OBVIOUS
    <2>. QED BY <1>4, <2>1, <2>2, <2>3 DEF OneCutPerLine
  <1>10. CASE N # 1
    <2>. DEFINE cuts == CutPoints(matched, words, gaps, db).cuts
    <2>1. N - 1 \in Nat /\ N - 1 < N /\ N + 1 - (N - 1) = 2
      BY <1>1
    <2>2. Good(2)
      <3>. HIDE DEF Good
      <3>. QED BY <1>8, <2>1
    <2>3. GoodCuts(matched, words, 2, cuts)
      BY <1>2, <1>4, <2>2
    <2>. HIDE DEF cuts
    <2>4. Len(cuts) = N - 1
      BY <1>1, <2>3 DEF GoodCuts
    <2>5. \A m \in 2 .. N : m - 2 + 1 = m - 1 /\ m - 2 + 2 = m
      BY <1>1
    <2>6. \A m \in 2 .. N : Near(matched, words, m, cuts[m - 1])
      BY <2>3, <2>5 DEF GoodCuts
    <2>7. \A m \in 2 .. N - 1 : ClipFits(matched, words, m, cuts[m - 1], cuts[m])
      <3>1. \A m \in 2 .. N - 1 : m \in 2 .. N
        BY <1>1
      <3>. QED BY <2>3, <2>5, <3>1 DEF GoodCuts
    <2>. QED BY <2>4, <2>6, <2>7 DEF OneCutPerLine, Near, ClipFits, Apart, cuts
  <1>. QED BY <1>9, <1>10

-----------------------------------------------------------------------------
(* What the runs check on bounded inputs, of every state.                   *)

(* Every cut of a take is the middle of the first of its longest pauses     *)
(* between two words (quietest, tts.py:247).                                *)
THEOREM TakesAreCutInPauses == Spec => []CutsAreInPauses
  <1>1. Loudness \subseteq Seq(Int)
    <2>1. Levels \subseteq Int
      BY DEF Levels
    <2>. SUFFICES ASSUME NEW n \in 3 .. 7, NEW db \in [1 .. n -> Levels]
                  PROVE  db \in Seq(Int)
      BY DEF Loudness
    <2>2. n \in Nat
      OBVIOUS
    <2>3. db \in [1 .. n -> Int]
      BY <2>1, Zenon
    <2>. QED BY <2>2, <2>3, ListsAreSequences
  <1>2. CutsAreInPauses
    BY <1>1, EveryCutIsInAPause DEF CutsAreInPauses
  <1>. QED BY <1>2, PTL

(* A sentence comes from one take, and from one without a fault when there  *)
(* is one (main of pick_voice.py).                                          *)
THEOREM SentencesComeFromOneTake == Spec => []SentencesFromOneTake
  <1>1. ASSUME NEW n \in 0 .. 4, NEW lines \in [1 .. n -> ScriptLines]
        PROVE  SentencesAreWhole(lines)
    <2>1. lines \in Seq(ScriptLines)
      OBVIOUS
    <2>. QED BY <2>1, SentencesAreAlwaysWhole
  <1>2. ASSUME NEW n \in 1 .. 2, NEW clips \in [1 .. 2 -> [1 .. n -> TakenClips]]
        PROVE  FaultsAreLast(clips)
    <2>1. ASSUME NEW f \in [1 .. n -> TakenClips]
          PROVE  f \in Clips
      <3>1. TakenClips \subseteq [clean : BOOLEAN, match : BOOLEAN, voice : Int]
        BY DEF TakenClips
      <3>2. n \in Nat
        OBVIOUS
      <3>3. f \in [1 .. n -> [clean : BOOLEAN, match : BOOLEAN, voice : Int]]
        BY <3>1, Zenon
      <3>4. f \in Seq([clean : BOOLEAN, match : BOOLEAN, voice : Int])
        BY <3>2, <3>3, ListsAreSequences
      <3>. QED BY <3>4 DEF Clips
    <2>2. clips \in [1 .. 2 -> Clips]
      BY <2>1, Zenon
    <2>3. 2 \in Nat \ {0}
      OBVIOUS
    <2>. QED BY <2>2, <2>3, FaultsComeLast
  <1>3. SentencesFromOneTake
    BY <1>1, <1>2 DEF SentencesFromOneTake
  <1>. QED BY <1>3, PTL

(* Every line of a take gets one cut, near its words and in order, or the   *)
(* script gives up (cut_points).                                            *)
THEOREM TakesAreCutIntoLines == Spec => []LinesAreCut
  <1>1. ASSUME NEW words \in Heard
        PROVE  words \in HeardWords /\ DOMAIN words = 1 .. 4
    <2>1. PICK a \in 1 .. 4, b \in 1 .. 8, c \in 1 .. 8 :
             /\ words = <<Word(0, 1), Word(1, b), Word(a, c), Word(c, 9)>>
             /\ b <= c /\ a <= c /\ (b <= a \/ (a = 1 /\ b = c))
      <3>1. CASE \E g \in 0 .. 1, c \in 6 .. 7 :
                    words = <<Word(0, 1), Word(1, 3), Word(3 + g, c), Word(c, 9)>>
        <4>1. PICK g \in 0 .. 1, c \in 6 .. 7 :
                    words = <<Word(0, 1), Word(1, 3), Word(3 + g, c), Word(c, 9)>>
          BY <3>1
        <4>2. 3 + g \in 1 .. 4 /\ 3 \in 1 .. 8 /\ c \in 1 .. 8 /\ 3 <= c /\ 3 + g <= c
              /\ 3 <= 3 + g
          OBVIOUS
        <4>. QED BY <4>1, <4>2
      <3>2. CASE \E c \in {2, 3, 8} :
                    words = <<Word(0, 1), Word(1, c), Word(1, c), Word(c, 9)>>
        <4>1. PICK c \in {2, 3, 8} :
                    words = <<Word(0, 1), Word(1, c), Word(1, c), Word(c, 9)>>
          BY <3>2
        <4>2. 1 \in 1 .. 4 /\ c \in 1 .. 8 /\ c <= c /\ 1 <= c
          OBVIOUS
        <4>. QED BY <4>1, <4>2
      <3>. QED BY <3>1, <3>2 DEF Heard
    <2>2. /\ Word(0, 1) \in [start : Nat, end : Nat]
          /\ Word(1, b) \in [start : Nat, end : Nat]
          /\ Word(a, c) \in [start : Nat, end : Nat]
          /\ Word(c, 9) \in [start : Nat, end : Nat]
      BY DEF Word
    <2>3. words \in Seq([start : Nat, end : Nat]) /\ DOMAIN words = 1 .. 4
      BY <2>1, <2>2
    <2>4. /\ words[1].start = 0 /\ words[1].end = 1 /\ words[2].start = 1 /\ words[2].end = b
          /\ words[3].start = a /\ words[3].end = c /\ words[4].start = c /\ words[4].end = 9
      BY <2>1 DEF Word
    <2>5. \A i \in 1 .. 4 : i = 1 \/ i = 2 \/ i = 3 \/ i = 4
      OBVIOUS
    <2>6. \A i \in 1 .. 4 : words[i].start <= words[i].end
      BY <2>1, <2>4, <2>5
    <2>7. \A i, j \in 1 .. 4 : i < j => words[i].end <= words[j].start \/ (i = 2 /\ j = 3)
      BY <2>1, <2>4, <2>5
    <2>8. words[2].end <= words[3].start \/ words[2] = words[3]
      BY <2>1, <2>4
    <2>. QED BY <2>3, <2>6, <2>7, <2>8 DEF HeardWords
  <1>2. ASSUME NEW words \in Heard, NEW matched \in Alignments
        PROVE  Matched(matched, words) /\ Len(matched) # 0
    <2>1. matched \in [1 .. 4 -> SUBSET (1 .. 4)]
          /\ \A i, j \in 1 .. 4 : i < j => \A v \in matched[i], w \in matched[j] : v < w
      BY DEF Alignments
    <2>2. matched \in Seq(SUBSET (1 .. 4))
      BY <2>1, ListsAreSequences
    <2>3. DOMAIN matched = 1 .. 4 /\ Len(matched) = 4
      BY <2>1, <2>2
    <2>4. DOMAIN words = 1 .. 4
      BY <1>1
    <2>. QED BY <2>1, <2>2, <2>3, <2>4 DEF Matched
  <1>3. ASSUME NEW gaps \in Silences
        PROVE  gaps \in GapLists /\ \A i \in DOMAIN gaps : gaps[i][1] <= gaps[i][2]
    <2>1. CASE gaps = <<>>
      BY <2>1 DEF GapLists
    <2>2. ASSUME NEW s \in 0 .. 6, gaps = <<<<s, s + 2>>>>
          PROVE  gaps \in GapLists /\ \A i \in DOMAIN gaps : gaps[i][1] <= gaps[i][2]
      BY <2>2 DEF GapLists
    <2>3. ASSUME NEW s \in 0 .. 2, NEW n \in 1 .. 2, NEW t \in 5 .. 6,
                 gaps = <<<<s, s + n>>, <<t, t + 1>>>>
          PROVE  gaps \in GapLists /\ \A i \in DOMAIN gaps : gaps[i][1] <= gaps[i][2]
      BY <2>3 DEF GapLists
    <2>4. CASE gaps = <<<<1, 2>>, <<3, 5>>, <<6, 7>>>>
      BY <2>4 DEF GapLists
    <2>. QED BY <2>1, <2>2, <2>3, <2>4 DEF Silences
  <1>4. ASSUME NEW db \in Speech
        PROVE  db \in Seq(Int)
    <2>1. CASE db = <<-20, -20, -20, -60, -60, -20, -60, -20, -20>>
      BY <2>1
    <2>2. CASE db = <<-20, -30, -20, -30, -30, -20, -20, -20, -20>>
      BY <2>2
    <2>3. CASE db = <<-20, -20, -20, -20, -20, -20, -60, -20, -20>>
      BY <2>3
    <2>. QED BY <2>1, <2>2, <2>3 DEF Speech
  <1>5. LinesAreCut
    BY <1>1, <1>2, <1>3, <1>4, LinesAreAlwaysCut DEF LinesAreCut
  <1>. QED BY <1>5, PTL
=============================================================================
