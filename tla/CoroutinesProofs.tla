-------------------------- MODULE CoroutinesProofs --------------------------
(***************************************************************************)
(* For any number of coroutines, frames and suspensions, whatever thunks   *)
(* do: the in and the out thunk of a frame are called in turn, and no      *)
(* finally block is called twice.  As long as no thunk has done anything   *)
(* but return: the dynamic context.  If no thunk resumes or suspends: how  *)
(* coroutines are linked, and that only finished stacks are freed.         *)
(***************************************************************************)
EXTENDS Coroutines, SequenceTheorems, FiniteSetTheorems, WellFoundedInduction, TLAPS

(* What an activation is, and the entries of a winder.  A wind-out that     *)
(* calls finally blocks puts nothing on a winder.                           *)
Activations ==
  [op : {"body"}, thunk : BOOLEAN]
    \cup [op : {"end", "resume", "break", "close"}, co : Coroutines]
    \cup [op : {"push-frame"}, frame : Frames, co : Coroutines]
    \cup [op : {"dynamic-wind"}, frame : Frames]
    \cup [op : {"wind-out"}, at : Coroutines, target : Coroutines, winder : {NoWinder},
          callFinally : {TRUE}]
    \cup [op : {"wind-out"}, at : Coroutines, target : Coroutines, winder : Winders,
          callFinally : {FALSE}]
    \cup [op : {"suspend", "suspended"}, co : Coroutines, winder : Winders]
    \cup [op : {"wind-in"}, winder : Winders, cos : Seq(Coroutines)]
    \cup [op : {"wind-in-out"}, winder : Winders, left : Nat]
Entries == [co : Coroutines, frame : Frames]

TypeInv ==
  /\ TypeOK
  /\ calls \in [Coroutines -> Seq(Activations)]
  /\ winders \in [Winders -> Seq(Entries)]

(* Where a frame is: wound in, about to be, or wound out.                   *)
InFrames == {f \in Frames : \E c \in Coroutines : \E i \in DOMAIN frames[c] : frames[c][i] = f}
InPushes == {f \in Frames : \E c \in Coroutines : \E i \in DOMAIN calls[c] :
               calls[c][i].op = "push-frame" /\ calls[c][i].frame = f}
InWinders == {f \in Frames : \E w \in Winders : \E i \in DOMAIN winders[w] : winders[w][i].frame = f}

(* It is at one place only.                                                 *)
FramesOnce ==
  \A c, d \in Coroutines : \A i \in DOMAIN frames[c], j \in DOMAIN frames[d] :
    frames[c][i] = frames[d][j] => c = d /\ i = j
PushesOnce ==
  \A c, d \in Coroutines : \A i \in DOMAIN calls[c], j \in DOMAIN calls[d] :
    /\ calls[c][i].op = "push-frame" /\ calls[d][j].op = "push-frame"
    /\ calls[c][i].frame = calls[d][j].frame
    => c = d /\ i = j
WindersOnce ==
  \A v, w \in Winders : \A i \in DOMAIN winders[v], j \in DOMAIN winders[w] :
    winders[v][i].frame = winders[w][j].frame => v = w /\ i = j
PlaceInv ==
  /\ FramesOnce /\ PushesOnce /\ WindersOnce
  /\ InFrames \cap InPushes = {} /\ InFrames \cap InWinders = {} /\ InPushes \cap InWinders = {}
  /\ InFrames \cup InPushes \cup InWinders \subseteq DOMAIN around

(* The number of calls of its thunks tells which of them it is.             *)
CountInv ==
  /\ \A f \in PlainFrames :
       /\ outs[f] <= ins[f] /\ ins[f] <= outs[f] + 1
       /\ f \in InFrames \cup InPushes => ins[f] = outs[f] + 1
       /\ f \in InWinders \/ f \notin DOMAIN around => ins[f] = outs[f]
  /\ \A f \in FinallyFrames :
       /\ outs[f] <= 1
       /\ f \in InFrames \cup InPushes \cup InWinders \/ f \notin DOMAIN around => outs[f] = 0

(* The inductive invariant.                                                 *)
IInv == TypeInv /\ PlaceInv /\ CountInv
-----------------------------------------------------------------------------
(* A set of naturals has a least element.                                   *)
LEMMA LeastOf ==
  ASSUME NEW S, S \subseteq Nat, S # {}
  PROVE  \E m \in S : \A j \in S : m <= j
<1>1. PICK m \in S : \A j \in S : <<j, m>> \notin OpToRel(<, Nat)
  BY NatLessThanWellFounded, WFMin
<1>2. \A j \in S : ~(j < m)
  BY <1>1 DEF OpToRel
<1> QED BY <1>2

(* The links of the coroutines as a function of how many are followed.      *)
Link(up, c, n) == IF n = 0 THEN c ELSE IF up[n - 1] = None THEN None ELSE parent[up[n - 1]]

(* There is such a function: induction over the number of links.            *)
LEMMA LinksExist ==
  ASSUME NEW c, NEW N \in Nat
  PROVE  \E up : up = [n \in 0 .. N |-> Link(up, c, n)]
<1> DEFINE Exists(k) == \E up : up = [n \in 0 .. k |-> Link(up, c, n)]
           Missing == {k \in Nat : ~Exists(k)}
<1>1. Exists(0)
  <2> DEFINE up == [n \in 0 .. 0 |-> c]
  <2>1. up = [n \in 0 .. 0 |-> Link(up, c, n)]
    BY DEF Link
  <2> QED BY <2>1
<1>2. ASSUME NEW k \in Nat, Exists(k)
      PROVE  Exists(k + 1)
  <2>1. PICK up : up = [n \in 0 .. k |-> Link(up, c, n)]
    BY <1>2
  <2> DEFINE next == [n \in 0 .. k + 1 |-> IF n = k + 1 THEN Link(up, c, n) ELSE up[n]]
  <2>2. \A n \in 0 .. k : next[n] = up[n]
    OBVIOUS
  <2>3. \A n \in 0 .. k + 1 : next[n] = Link(next, c, n)
    <3>1. ASSUME NEW n \in 0 .. k + 1
          PROVE  next[n] = Link(up, c, n)
      BY <2>1
    <3>2. ASSUME NEW n \in 0 .. k + 1
          PROVE  Link(next, c, n) = Link(up, c, n)
      <4>1. n # 0 => n - 1 \in 0 .. k
        OBVIOUS
      <4> HIDE DEF next
      <4> QED BY <2>2, <4>1 DEF Link
    <3> QED BY <3>1, <3>2
  <2>4. next = [n \in 0 .. k + 1 |-> next[n]]
    OBVIOUS
  <2> HIDE DEF next
  <2>5. next = [n \in 0 .. k + 1 |-> Link(next, c, n)]
    BY <2>3, <2>4
  <2> QED BY <2>5
<1> HIDE DEF Exists
<1>3. ASSUME Missing # {} PROVE FALSE
  <2>1. PICK m \in Missing : \A j \in Missing : m <= j
    BY <1>3, LeastOf
  <2>2. m # 0 /\ m \in Nat /\ ~Exists(m)
    BY <1>1, <2>1
  <2>3. m - 1 \in Nat /\ m - 1 \notin Missing
    BY <2>1, <2>2
  <2>4. Exists(m - 1 + 1)
    BY <1>2, <2>3
  <2> QED BY <2>2, <2>4
<1>4. Exists(N)
  BY <1>3
<1> QED BY <1>4 DEF Exists

(* The chain from a coroutine is a sequence of coroutines that begins there *)
(* and follows the links, to the end unless it has the greatest length.     *)
LEMMA ChainIs ==
  ASSUME parent \in [Coroutines -> Coroutines \cup {None}], NEW c \in Coroutines
  PROVE  /\ ChainFrom(c) \in Seq(Coroutines)
         /\ ChainFrom(c) # << >>
         /\ Len(ChainFrom(c)) \in 1 .. MaxCoroutines + 1
         /\ ChainFrom(c)[1] = c
         /\ \A i \in 1 .. Len(ChainFrom(c)) - 1 : ChainFrom(c)[i + 1] = parent[ChainFrom(c)[i]]
         /\ Len(ChainFrom(c)) <= MaxCoroutines => parent[ChainFrom(c)[Len(ChainFrom(c))]] = None
<1> DEFINE up == Links(c)
           last == CHOOSE n \in 0 .. MaxCoroutines :
                     up[n] # None /\ \A m \in n + 1 .. MaxCoroutines : up[m] = None
<1>1. ChainFrom(c) = [n \in 1 .. last + 1 |-> up[n - 1]]
  BY Zenon DEF ChainFrom
<1>2. up = CHOOSE g : g = [n \in 0 .. MaxCoroutines |-> Link(g, c, n)]
  BY Zenon DEF Links, Link
<1>3. up = [n \in 0 .. MaxCoroutines |-> Link(up, c, n)]
  BY <1>2, LinksExist, BoundsAssumption, Zenon
<1> HIDE DEF up
<1>4. \A n \in 0 .. MaxCoroutines : up[n] = Link(up, c, n)
  BY <1>3
<1>5. up[0] = c
  BY <1>4, BoundsAssumption DEF Link
<1>6. \A n \in 0 .. MaxCoroutines : up[n] \in Coroutines \cup {None}
  <2> DEFINE Wrong == {n \in 0 .. MaxCoroutines : up[n] \notin Coroutines \cup {None}}
  <2>1. ASSUME Wrong # {} PROVE FALSE
    <3>0. Wrong \subseteq Nat
      BY BoundsAssumption
    <3>1. PICK m \in Wrong : \A j \in Wrong : m <= j
      BY <2>1, <3>0, LeastOf
    <3>2. m # 0 /\ m - 1 \in 0 .. MaxCoroutines
      BY <1>5, <3>1, BoundsAssumption
    <3>3. m - 1 \notin Wrong
      BY <3>1, <3>2
    <3>4. up[m - 1] \in Coroutines \cup {None}
      BY <3>2, <3>3
    <3>5. up[m] = IF up[m - 1] = None THEN None ELSE parent[up[m - 1]]
      BY <1>4, <3>1, <3>2 DEF Link
    <3> QED BY <3>1, <3>4, <3>5
  <2> QED BY <2>1
<1>7. None \notin Coroutines
  BY DEF None, Coroutines
<1>8. /\ last \in 0 .. MaxCoroutines /\ up[last] # None
      /\ \A m \in last + 1 .. MaxCoroutines : up[m] = None
  <2> DEFINE Short == {n \in Nat : n <= MaxCoroutines /\ up[MaxCoroutines - n] # None}
  <2>1. MaxCoroutines \in Short
    BY <1>5, <1>7, BoundsAssumption
  <2>2. PICK k \in Short : \A j \in Short : k <= j
    BY <2>1, LeastOf
  <2> DEFINE n == MaxCoroutines - k
  <2>3. n \in 0 .. MaxCoroutines /\ up[n] # None
    BY <2>2, BoundsAssumption
  <2>4. ASSUME NEW m \in n + 1 .. MaxCoroutines PROVE up[m] = None
    <3>1. MaxCoroutines - m \in Nat /\ MaxCoroutines - m < k /\ MaxCoroutines - (MaxCoroutines - m) = m
      BY <2>2, BoundsAssumption
    <3>2. MaxCoroutines - m \notin Short
      BY <2>2, <3>1
    <3> QED BY <3>1, <3>2, BoundsAssumption
  <2> HIDE DEF n, Short
  <2>5. \E x \in 0 .. MaxCoroutines : up[x] # None /\ \A m \in x + 1 .. MaxCoroutines : up[m] = None
    BY <2>3, <2>4
  <2> QED BY <2>5
<1> HIDE DEF last
<1>9. \A n \in 0 .. last : up[n] # None
  <2> DEFINE Ends == {k \in Nat : k <= last /\ up[last - k] = None}
  <2>1. ASSUME NEW n \in Nat, n < last, up[n] = None PROVE up[n + 1] = None
    BY <1>4, <1>8, <2>1, BoundsAssumption DEF Link
  <2>2. ASSUME Ends # {} PROVE FALSE
    <3>1. PICK k \in Ends : \A j \in Ends : k <= j
      BY <2>2, LeastOf
    <3>2. k \in Nat /\ k <= last /\ up[last - k] = None
      BY <3>1
    <3>3. k # 0
      BY <1>8, <3>2
    <3>4. up[last - k + 1] = None
      BY <1>8, <2>1, <3>2, <3>3
    <3>5. k - 1 \in Nat /\ k - 1 <= last /\ last - (k - 1) = last - k + 1
      BY <1>8, <3>2, <3>3
    <3>6. k - 1 \in Ends
      BY <3>4, <3>5
    <3> QED BY <3>1, <3>6
  <2>3. ASSUME NEW n \in 0 .. last PROVE up[n] # None
    <3>1. last - n \in Nat /\ last - n <= last /\ last - (last - n) = n
      BY <1>8
    <3> QED BY <2>2, <3>1
  <2> QED BY <2>3
<1>10. \A n \in 1 .. last + 1 : up[n - 1] \in Coroutines
  BY <1>6, <1>8, <1>9, BoundsAssumption
<1>11. ChainFrom(c) \in Seq(Coroutines) /\ Len(ChainFrom(c)) = last + 1
  BY <1>1, <1>8, <1>10, BoundsAssumption
<1>12. \A i \in 1 .. last + 1 : ChainFrom(c)[i] = up[i - 1]
  BY <1>1
<1>13. ASSUME NEW i \in 1 .. last
       PROVE  ChainFrom(c)[i + 1] = parent[ChainFrom(c)[i]]
  <2>1. ChainFrom(c)[i + 1] = up[i] /\ ChainFrom(c)[i] = up[i - 1]
    BY <1>8, <1>12
  <2>2. i \in 0 .. MaxCoroutines /\ i # 0 /\ i - 1 \in 0 .. last
    BY <1>8, BoundsAssumption
  <2>3. up[i] = Link(up, c, i) /\ up[i - 1] # None
    BY <1>4, <1>9, <2>2
  <2>4. up[i] = parent[up[i - 1]]
    BY <2>2, <2>3 DEF Link
  <2> QED BY <2>1, <2>4
<1>14. ASSUME last < MaxCoroutines
       PROVE  parent[ChainFrom(c)[last + 1]] = None
  <2>1. last + 1 \in 0 .. MaxCoroutines /\ last + 1 # 0 /\ last + 1 - 1 = last
        /\ last + 1 \in last + 1 .. MaxCoroutines
    BY <1>8, <1>14, BoundsAssumption
  <2>2. up[last + 1] = Link(up, c, last + 1) /\ up[last + 1] = None /\ up[last] # None
    BY <1>4, <1>8, <2>1
  <2>3. ChainFrom(c)[last + 1] = up[last]
    BY <1>8, <1>12
  <2>4. parent[up[last]] = None
    BY <1>8, <2>1, <2>2 DEF Link
  <2> QED BY <2>3, <2>4
<1>15. ChainFrom(c)[1] = c
  BY <1>5, <1>8, <1>12
<1>16. Len(ChainFrom(c)) \in 1 .. MaxCoroutines + 1 /\ last = Len(ChainFrom(c)) - 1
  BY <1>8, <1>11, BoundsAssumption
<1>17. ChainFrom(c) # << >>
  BY <1>16
<1>18. Len(ChainFrom(c)) <= MaxCoroutines => parent[ChainFrom(c)[Len(ChainFrom(c))]] = None
  <2>1. ASSUME Len(ChainFrom(c)) <= MaxCoroutines
        PROVE  last < MaxCoroutines /\ last + 1 = Len(ChainFrom(c))
    BY <1>8, <1>11, <2>1, BoundsAssumption
  <2> QED BY <1>14, <2>1
<1> QED BY <1>11, <1>13, <1>15, <1>16, <1>17, <1>18

(* The chain to a coroutine that the chain reaches.                         *)
LEMMA ChainToIs ==
  ASSUME parent \in [Coroutines -> Coroutines \cup {None}], NEW c \in Coroutines, NEW t,
         Reaches(c, t)
  PROVE  ChainTo(c, t) \in Seq(Coroutines)
<1> DEFINE chain == ChainFrom(c)
<1>1. chain \in Seq(Coroutines)
  BY ChainIs
<1>2. \E n \in DOMAIN chain : chain[n] = t
  BY DEF Reaches, ToSet
<1> HIDE DEF chain
<1> DEFINE n == CHOOSE n \in DOMAIN chain : chain[n] = t
<1>3. n \in 1 .. Len(chain)
  BY <1>1, <1>2
<1> HIDE DEF n
<1>4. SubSeq(chain, 1, n) \in Seq(Coroutines)
  BY <1>1, <1>3
<1> QED BY <1>4, Zenon DEF ChainTo, n, chain

(* Links that are turned round are links.                                   *)
LEMMA RelinkedIs ==
  ASSUME parent \in [Coroutines -> Coroutines \cup {None}], NEW chain \in Seq(Coroutines),
         NEW first \in Coroutines \cup {None}
  PROVE  Relinked(chain, first) \in [Coroutines -> Coroutines \cup {None}]
<1>1. ASSUME NEW c \in Coroutines, c \in ToSet(chain)
      PROVE  LET n == CHOOSE i \in DOMAIN chain : chain[i] = c
             IN  (IF n = 1 THEN first ELSE chain[n - 1]) \in Coroutines \cup {None}
  <2> DEFINE n == CHOOSE i \in DOMAIN chain : chain[i] = c
  <2>1. \E i \in DOMAIN chain : chain[i] = c
    BY <1>1 DEF ToSet
  <2>2. n \in 1 .. Len(chain)
    BY <2>1
  <2> HIDE DEF n
  <2>3. n # 1 => chain[n - 1] \in Coroutines
    BY <2>2, ElementOfSeq
  <2>4. (IF n = 1 THEN first ELSE chain[n - 1]) \in Coroutines \cup {None}
    BY <2>3
  <2> QED BY <2>4 DEF n
<1> QED BY <1>1 DEF Relinked

(* How many entries are to be wound in is a number.                         *)
LEMMA NumFinallyIs ==
  ASSUME NEW w \in Winders, winders \in [Winders -> Seq(Entries)]
  PROVE  NumFinallyBlocks(w) \in Nat
<1> DEFINE L == Len(winders[w])
           Final(n) == winders[w][n].frame \in FinallyFrames
           Left == {k \in Nat : k <= L /\ (L - k > 0 => Final(L - k))}
<1>1. L \in Nat
  BY LenProperties
<1> HIDE DEF L, Final
<1>2. L \in Left /\ Left \subseteq Nat
  BY <1>1
<1>3. PICK k \in Left : \A j \in Left : k <= j
  BY <1>2, LeastOf
<1>4. L - k \in 0 .. L /\ (L - k > 0 => Final(L - k))
  BY <1>1, <1>3
<1>5. ASSUME NEW m \in L - k + 1 .. L PROVE ~Final(m)
  <2>1. L - m \in Nat /\ L - m < k /\ L - m <= L /\ L - (L - m) = m /\ m > 0
    BY <1>1, <1>3
  <2>2. ASSUME L - m \in Left PROVE FALSE
    <3> HIDE DEF Left
    <3>1. k <= L - m
      BY <1>3, <2>2
    <3>2. k \in Nat
      BY <1>2, <1>3
    <3> QED BY <2>1, <3>1, <3>2
  <2> QED BY <2>1, <2>2
<1>6. \E n \in 0 .. L : (n > 0 => Final(n)) /\ \A m \in n + 1 .. L : ~Final(m)
  BY <1>4, <1>5
<1>7. NumFinallyBlocks(w) \in 0 .. L
  BY <1>6 DEF NumFinallyBlocks, L, Final
<1> QED BY <1>1, <1>7

(* The fields that an activation has.                                       *)
LEMMA Fields ==
  ASSUME NEW a \in Activations
  PROVE  /\ a.op = "body" => a.thunk \in BOOLEAN
         /\ a.op \in {"end", "resume", "break", "close"} => a.co \in Coroutines
         /\ a.op = "push-frame" => a.frame \in Frames /\ a.co \in Coroutines
         /\ a.op = "wind-out" => /\ a.at \in Coroutines /\ a.target \in Coroutines
                                 /\ a.callFinally \in BOOLEAN
                                 /\ a.winder = NoWinder \/ a.winder \in Winders
                                 /\ a.winder = NoWinder <=> a.callFinally
                                 /\ \A c \in Coroutines : [a EXCEPT !.at = c] \in Activations
         /\ a.op \in {"suspend", "suspended"} => a.co \in Coroutines /\ a.winder \in Winders
         /\ a.op = "suspend" => [a EXCEPT !.op = "suspended"] \in Activations
         /\ a.op = "wind-in" => /\ a.winder \in Winders /\ a.cos \in Seq(Coroutines)
                                /\ \A s \in Seq(Coroutines) : [a EXCEPT !.cos = s] \in Activations
         /\ a.op = "wind-in-out" => /\ a.winder \in Winders /\ a.left \in Nat
                                    /\ \A n \in Nat : [a EXCEPT !.left = n] \in Activations
<1>1. CASE a \in [op : {"body"}, thunk : BOOLEAN]
  BY <1>1
<1>2. CASE a \in [op : {"end", "resume", "break", "close"}, co : Coroutines]
  BY <1>2
<1>3. CASE a \in [op : {"push-frame"}, frame : Frames, co : Coroutines]
  BY <1>3
<1>4. CASE a \in [op : {"dynamic-wind"}, frame : Frames]
  BY <1>4
<1>5. CASE a \in [op : {"wind-out"}, at : Coroutines, target : Coroutines, winder : {NoWinder},
                  callFinally : {TRUE}]
  <2>1. \A c \in Coroutines : [a EXCEPT !.at = c] \in
          [op : {"wind-out"}, at : Coroutines, target : Coroutines, winder : {NoWinder},
           callFinally : {TRUE}]
    BY <1>5
  <2> QED BY <1>5, <2>1 DEF Activations
<1>6. CASE a \in [op : {"wind-out"}, at : Coroutines, target : Coroutines, winder : Winders,
                  callFinally : {FALSE}]
  <2>1. \A c \in Coroutines : [a EXCEPT !.at = c] \in
          [op : {"wind-out"}, at : Coroutines, target : Coroutines, winder : Winders,
           callFinally : {FALSE}]
    BY <1>6
  <2>2. NoWinder \notin Winders
    BY BoundsAssumption DEF NoWinder, Winders
  <2> QED BY <1>6, <2>1, <2>2 DEF Activations
<1>7. CASE a \in [op : {"suspend", "suspended"}, co : Coroutines, winder : Winders]
  BY <1>7 DEF Activations
<1>8. CASE a \in [op : {"wind-in"}, winder : Winders, cos : Seq(Coroutines)]
  BY <1>8 DEF Activations
<1>9. CASE a \in [op : {"wind-in-out"}, winder : Winders, left : Nat]
  BY <1>9 DEF Activations
<1> QED BY <1>1, <1>2, <1>3, <1>4, <1>5, <1>6, <1>7, <1>8, <1>9 DEF Activations

-----------------------------------------------------------------------------
(* A sequence put before another.                                           *)
LEMMA Before ==
  ASSUME NEW T, NEW a \in Seq(T), NEW r \in Seq(T)
  PROVE  /\ a \o r \in Seq(T)
         /\ \A i \in DOMAIN (a \o r) :
              \/ i \in DOMAIN a /\ (a \o r)[i] = a[i]
              \/ i - Len(a) \in DOMAIN r /\ i > Len(a) /\ (a \o r)[i] = r[i - Len(a)]
<1>1. Len(a) \in Nat /\ Len(r) \in Nat /\ DOMAIN a = 1 .. Len(a) /\ DOMAIN r = 1 .. Len(r)
  BY LenProperties
<1>2. /\ a \o r \in Seq(T) /\ Len(a \o r) = Len(a) + Len(r)
      /\ \A i \in 1 .. Len(a) + Len(r) :
           (a \o r)[i] = IF i <= Len(a) THEN a[i] ELSE r[i - Len(a)]
  BY ConcatProperties
<1>3. DOMAIN (a \o r) = 1 .. Len(a) + Len(r)
  BY <1>2, LenProperties
<1>4. ASSUME NEW i \in 1 .. Len(a) + Len(r)
      PROVE  \/ i \in DOMAIN a /\ (a \o r)[i] = a[i]
             \/ i - Len(a) \in DOMAIN r /\ i > Len(a) /\ (a \o r)[i] = r[i - Len(a)]
  <2>1. CASE i <= Len(a)
    BY <1>1, <1>2, <2>1
  <2>2. CASE i > Len(a)
    BY <1>1, <1>2, <2>2
  <2> QED BY <1>1, <2>1, <2>2
<1> QED BY <1>2, <1>3, <1>4

(* The rest of a sequence.                                                  *)
LEMMA Rest ==
  ASSUME NEW T, NEW s \in Seq(T), s # << >>
  PROVE  /\ Head(s) \in T /\ Head(s) = s[1] /\ 1 \in DOMAIN s
         /\ Tail(s) \in Seq(T)
         /\ \A i \in DOMAIN Tail(s) : i + 1 \in DOMAIN s /\ i + 1 # 1 /\ Tail(s)[i] = s[i + 1]
<1>1. Len(s) \in Nat \ {0} /\ DOMAIN s = 1 .. Len(s)
  BY LenProperties, EmptySeq
<1>2. Head(s) = s[1] /\ s[1] \in T
  BY <1>1, ElementOfSeq
<1>3. /\ Tail(s) \in Seq(T) /\ Len(Tail(s)) = Len(s) - 1
      /\ \A i \in 1 .. Len(Tail(s)) : Tail(s)[i] = s[i + 1]
  BY HeadTailProperties
<1>4. DOMAIN Tail(s) = 1 .. Len(s) - 1
  BY <1>3, LenProperties
<1> QED BY <1>1, <1>2, <1>3, <1>4

-----------------------------------------------------------------------------
(* Activations change: the frames that are about to be pushed are among     *)
(* those before and F, and the others are below the first k of x's stack.   *)
Placed(F) ==
  /\ calls' \in [Coroutines -> Seq(Activations)]
  /\ PushesOnce'
  /\ InPushes' \subseteq InPushes \cup F
Below(x, k, F) ==
  \A f \in InPushes' \ F : \E c \in Coroutines : \E j \in DOMAIN calls[c] :
    /\ c = x => j > k
    /\ calls[c][j].op = "push-frame" /\ calls[c][j].frame = f

(* The activations a are put on the stack of x, and the first k are gone.   *)
LEMMA StackStep ==
  ASSUME TypeInv, PushesOnce, NEW x \in Coroutines, NEW a \in Seq(Activations),
         NEW r \in Seq(Activations), NEW k \in Nat,
         \A i \in DOMAIN r : i + k \in DOMAIN calls[x] /\ r[i] = calls[x][i + k],
         calls' = [calls EXCEPT ![x] = a \o r],
         NEW F, F \cap InPushes = {},
         \A i \in DOMAIN a : a[i].op = "push-frame" => a[i].frame \in F,
         \A i, j \in DOMAIN a : a[i].op = "push-frame" /\ a[j].op = "push-frame" => i = j
  PROVE  Placed(F) /\ Below(x, k, F)
<1> DEFINE New(c, i) == c = x /\ i \in DOMAIN a /\ calls'[c][i] = a[i]
           At0(c, i) == IF c = x THEN i - Len(a) + k ELSE i
           Old(c, i) == /\ c = x => i > Len(a)
                        /\ At0(c, i) \in DOMAIN calls[c]
                        /\ calls'[c][i] = calls[c][At0(c, i)]
<1>1. calls \in [Coroutines -> Seq(Activations)] /\ Len(a) \in Nat
  BY LenProperties DEF TypeInv
<1>2. /\ a \o r \in Seq(Activations)
      /\ \A i \in DOMAIN (a \o r) :
           \/ i \in DOMAIN a /\ (a \o r)[i] = a[i]
           \/ i - Len(a) \in DOMAIN r /\ i > Len(a) /\ (a \o r)[i] = r[i - Len(a)]
  <2> HIDE DEF New, Old, At0
  <2> QED BY Before
<1>3. calls' \in [Coroutines -> Seq(Activations)]
  BY <1>1, <1>2
<1>4. ASSUME NEW c \in Coroutines, NEW i \in DOMAIN calls'[c]
      PROVE  New(c, i) \/ Old(c, i)
  <2>1. CASE c # x
    BY <1>1, <2>1
  <2>2. CASE c = x
    <3>1. calls'[c] = a \o r
      BY <1>1, <2>2
    <3>2. \/ i \in DOMAIN a /\ calls'[c][i] = a[i]
          \/ i - Len(a) \in DOMAIN r /\ i > Len(a) /\ calls'[c][i] = r[i - Len(a)]
      BY <1>2, <3>1
    <3>3. CASE i - Len(a) \in DOMAIN r /\ i > Len(a) /\ calls'[c][i] = r[i - Len(a)]
      BY <2>2, <3>3
    <3> QED BY <2>2, <3>2, <3>3
  <2> QED BY <2>1, <2>2
<1>5. ASSUME NEW c \in Coroutines, NEW i \in DOMAIN calls'[c] PROVE i \in Int
  <2>1. calls'[c] \in Seq(Activations)
    BY <1>3
  <2>2. DOMAIN calls'[c] = 1 .. Len(calls'[c])
    BY <2>1, LenProperties
  <2> QED BY <2>2
<1>6. PushesOnce'
  <2> SUFFICES ASSUME NEW c \in Coroutines, NEW d \in Coroutines,
                      NEW i \in DOMAIN calls'[c], NEW j \in DOMAIN calls'[d],
                      calls'[c][i].op = "push-frame", calls'[d][j].op = "push-frame",
                      calls'[c][i].frame = calls'[d][j].frame
               PROVE  c = d /\ i = j
    BY DEF PushesOnce
  <2>0. i \in Int /\ j \in Int
    BY <1>5
  <2>1. ASSUME NEW b \in Coroutines, NEW n \in DOMAIN calls'[b], Old(b, n),
               calls'[b][n].op = "push-frame"
        PROVE  calls'[b][n].frame \in InPushes
    <3>1. calls[b] \in Seq(Activations)
      BY <1>1
    <3>2. calls[b][At0(b, n)] \in Activations
      BY <2>1, <3>1, ElementOfSeq, LenProperties
    <3>3. calls'[b][n].frame \in Frames
      BY <2>1, <3>2, Fields
    <3> HIDE DEF At0
    <3> QED BY <2>1, <3>3 DEF InPushes
  <2>2. CASE Old(c, i) /\ Old(d, j)
    <3>1. c = d /\ At0(c, i) = At0(d, j)
      <4> DEFINE m == At0(c, i)
                 n == At0(d, j)
      <4>1. /\ m \in DOMAIN calls[c] /\ n \in DOMAIN calls[d]
            /\ calls'[c][i] = calls[c][m] /\ calls'[d][j] = calls[d][n]
        BY <2>2
      <4> HIDE DEF m, n
      <4>2. /\ calls[c][m].op = "push-frame" /\ calls[d][n].op = "push-frame"
            /\ calls[c][m].frame = calls[d][n].frame
        BY <4>1
      <4>3. c = d /\ m = n
        BY <4>1, <4>2 DEF PushesOnce
      <4> QED BY <4>3 DEF m, n
    <3> QED BY <3>1, <2>0, <1>1
  <2>3. CASE Old(c, i) /\ New(d, j)
    <3>1. calls'[c][i].frame \in InPushes
      BY <2>1, <2>3
    <3> QED BY <2>3, <3>1
  <2>4. CASE New(c, i) /\ Old(d, j)
    <3>1. calls'[d][j].frame \in InPushes
      BY <2>1, <2>4
    <3> QED BY <2>4, <3>1
  <2>5. CASE New(c, i) /\ New(d, j)
    BY <2>5
  <2> HIDE DEF Old, New
  <2> QED BY <1>4, <2>2, <2>3, <2>4, <2>5
<1>7. ASSUME NEW f \in InPushes' \ F
      PROVE  \E c \in Coroutines : \E j \in DOMAIN calls[c] :
               /\ c = x => j > k
               /\ calls[c][j].op = "push-frame" /\ calls[c][j].frame = f
  <2>1. PICK c \in Coroutines : \E i \in DOMAIN calls'[c] :
                                  calls'[c][i].op = "push-frame" /\ calls'[c][i].frame = f
    BY DEF InPushes
  <2>2. PICK i \in DOMAIN calls'[c] : calls'[c][i].op = "push-frame" /\ calls'[c][i].frame = f
    BY <2>1
  <2>3. Old(c, i)
    BY <1>4, <2>2, <1>7
  <2>4. c = x => At0(c, i) > k
    BY <1>1, <1>5, <2>3
  <2> HIDE DEF At0
  <2> QED BY <2>2, <2>3, <2>4
<1>8. InPushes' \subseteq Frames
  BY DEF InPushes
<1> HIDE DEF New, Old, At0
<1>9. InPushes' \subseteq InPushes \cup F
  BY <1>7, <1>8 DEF InPushes
<1> QED BY <1>3, <1>6, <1>7, <1>9 DEF Placed, Below

(* Stacks that lose activations, or are freed.                              *)
LEMMA StacksDropped ==
  ASSUME TypeInv, PushesOnce, calls' \in [Coroutines -> Seq(Activations)],
         NEW k \in [Coroutines -> Nat],
         \A c \in Coroutines : \A i \in DOMAIN calls'[c] :
           i + k[c] \in DOMAIN calls[c] /\ calls'[c][i] = calls[c][i + k[c]]
  PROVE  PushesOnce' /\ InPushes' \subseteq InPushes
<1>1. PushesOnce'
  <2> SUFFICES ASSUME NEW c \in Coroutines, NEW d \in Coroutines,
                      NEW i \in DOMAIN calls'[c], NEW j \in DOMAIN calls'[d],
                      calls'[c][i].op = "push-frame", calls'[d][j].op = "push-frame",
                      calls'[c][i].frame = calls'[d][j].frame
               PROVE  c = d /\ i = j
    BY DEF PushesOnce
  <2>1. i \in Int /\ j \in Int
    BY LenProperties
  <2> DEFINE m == i + k[c]
             n == j + k[d]
  <2>2. /\ m \in DOMAIN calls[c] /\ calls'[c][i] = calls[c][m]
        /\ n \in DOMAIN calls[d] /\ calls'[d][j] = calls[d][n]
    OBVIOUS
  <2> HIDE DEF m, n
  <2>3. c = d /\ m = n
    BY <2>2 DEF PushesOnce
  <2> QED BY <2>1, <2>3 DEF m, n
<1>2. InPushes' \subseteq InPushes
  BY DEF InPushes
<1> QED BY <1>1, <1>2

(* A frame that is pushed.                                                  *)
LEMMA FramePushed ==
  ASSUME frames \in [Coroutines -> Seq(Frames)], FramesOnce, NEW c \in Coroutines,
         NEW f \in Frames \ InFrames, frames' = [frames EXCEPT ![c] = <<f>> \o @]
  PROVE  /\ frames' \in [Coroutines -> Seq(Frames)]
         /\ FramesOnce' /\ InFrames' \subseteq InFrames \cup {f}
<1> DEFINE one == <<f>>
<1>1. one \in Seq(Frames) /\ Len(one) = 1 /\ DOMAIN one = {1} /\ one[1] = f
  OBVIOUS
<1>2. frames[c] \in Seq(Frames) /\ frames' = [frames EXCEPT ![c] = one \o frames[c]]
  OBVIOUS
<1> HIDE DEF one
<1>3. one \o frames[c] \in Seq(Frames)
  BY <1>1, <1>2, Before
<1>4. frames' \in [Coroutines -> Seq(Frames)]
  BY <1>2, <1>3
<1>5. ASSUME NEW d \in Coroutines, NEW i \in DOMAIN frames'[d]
      PROVE  \/ d = c /\ i = 1 /\ frames'[d][i] = f
             \/ d = c /\ i - 1 \in DOMAIN frames[d] /\ frames'[d][i] = frames[d][i - 1]
             \/ d # c /\ i \in DOMAIN frames[d] /\ frames'[d][i] = frames[d][i]
  <2>1. CASE d # c
    BY <1>2, <2>1
  <2>2. CASE d = c
    <3>1. frames'[d] = one \o frames[c]
      BY <1>2, <2>2
    <3> QED BY <1>1, <1>2, <2>2, <3>1, Before
  <2> QED BY <2>1, <2>2
<1>6. \A d \in Coroutines : \A i \in DOMAIN frames[d] : frames[d][i] \in InFrames
  BY LenProperties, ElementOfSeq DEF InFrames
<1>7. \A d \in Coroutines : \A i \in DOMAIN frames'[d] : i \in Int
  BY <1>4, LenProperties
<1>8. FramesOnce'
  BY <1>5, <1>6, <1>7 DEF FramesOnce
<1>9. InFrames' \subseteq InFrames \cup {f}
  BY <1>5, <1>6 DEF InFrames
<1> QED BY <1>4, <1>8, <1>9

(* A frame that is popped.                                                  *)
LEMMA FramePopped ==
  ASSUME frames \in [Coroutines -> Seq(Frames)], FramesOnce, NEW c \in Coroutines,
         frames[c] # << >>, frames' = [frames EXCEPT ![c] = Tail(@)]
  PROVE  /\ frames' \in [Coroutines -> Seq(Frames)]
         /\ FramesOnce' /\ Head(frames[c]) \in InFrames
         /\ InFrames' \subseteq InFrames \ {Head(frames[c])}
<1>1. frames[c] \in Seq(Frames) /\ frames' = [frames EXCEPT ![c] = Tail(frames[c])]
  OBVIOUS
<1>2. /\ Head(frames[c]) \in Frames /\ Head(frames[c]) = frames[c][1] /\ 1 \in DOMAIN frames[c]
      /\ Tail(frames[c]) \in Seq(Frames)
      /\ \A i \in DOMAIN Tail(frames[c]) :
           i + 1 \in DOMAIN frames[c] /\ i + 1 # 1 /\ Tail(frames[c])[i] = frames[c][i + 1]
  BY <1>1, Rest
<1>3. frames' \in [Coroutines -> Seq(Frames)]
  BY <1>1, <1>2
<1>4. ASSUME NEW d \in Coroutines, NEW i \in DOMAIN frames'[d]
      PROVE  \/ d = c /\ i + 1 \in DOMAIN frames[d] /\ i + 1 # 1 /\ frames'[d][i] = frames[d][i + 1]
             \/ d # c /\ i \in DOMAIN frames[d] /\ frames'[d][i] = frames[d][i]
  BY <1>1, <1>2
<1>5. \A d \in Coroutines : \A i \in DOMAIN frames'[d] : i \in Int
  BY <1>3, LenProperties
<1>6. FramesOnce'
  BY <1>4, <1>5 DEF FramesOnce
<1>7. Head(frames[c]) \in InFrames
  BY <1>2 DEF InFrames
<1>8. InFrames' \subseteq InFrames \ {Head(frames[c])}
  <2>1. \A f \in InFrames' : f \in InFrames
    BY <1>4 DEF InFrames
  <2>2. Head(frames[c]) \notin InFrames'
    BY <1>2, <1>4 DEF InFrames, FramesOnce
  <2> QED BY <2>1, <2>2
<1> QED BY <1>3, <1>6, <1>7, <1>8

(* The same of the entries of winders.                                      *)
LEMMA WinderPushed ==
  ASSUME winders \in [Winders -> Seq(Entries)], WindersOnce, NEW w \in Winders,
         NEW e \in Entries, e.frame \notin InWinders,
         winders' = [winders EXCEPT ![w] = <<e>> \o @]
  PROVE  /\ winders' \in [Winders -> Seq(Entries)]
         /\ WindersOnce' /\ InWinders' \subseteq InWinders \cup {e.frame}
<1> DEFINE one == <<e>>
<1>1. one \in Seq(Entries) /\ Len(one) = 1 /\ DOMAIN one = {1} /\ one[1] = e
  OBVIOUS
<1>2. winders[w] \in Seq(Entries) /\ winders' = [winders EXCEPT ![w] = one \o winders[w]]
  OBVIOUS
<1> HIDE DEF one
<1>3. one \o winders[w] \in Seq(Entries)
  BY <1>1, <1>2, Before
<1>4. winders' \in [Winders -> Seq(Entries)]
  BY <1>2, <1>3
<1>5. ASSUME NEW v \in Winders, NEW i \in DOMAIN winders'[v]
      PROVE  \/ v = w /\ i = 1 /\ winders'[v][i] = e
             \/ v = w /\ i - 1 \in DOMAIN winders[v] /\ winders'[v][i] = winders[v][i - 1]
             \/ v # w /\ i \in DOMAIN winders[v] /\ winders'[v][i] = winders[v][i]
  <2>1. CASE v # w
    BY <1>2, <2>1
  <2>2. CASE v = w
    <3>1. winders'[v] = one \o winders[w]
      BY <1>2, <2>2
    <3> QED BY <1>1, <1>2, <2>2, <3>1, Before
  <2> QED BY <2>1, <2>2
<1>6. ASSUME NEW v \in Winders, NEW i \in DOMAIN winders[v]
      PROVE  winders[v][i].frame \in InWinders
  <2>1. winders[v][i] \in Entries
    BY LenProperties, ElementOfSeq
  <2>2. winders[v][i].frame \in Frames
    BY <2>1 DEF Entries
  <2> QED BY <2>2 DEF InWinders
<1>7. \A v \in Winders : \A i \in DOMAIN winders'[v] : i \in Int
  BY <1>4, LenProperties
<1>8. WindersOnce'
  BY <1>5, <1>6, <1>7 DEF WindersOnce
<1>9. InWinders' \subseteq InWinders \cup {e.frame}
  BY <1>5, <1>6 DEF InWinders
<1> QED BY <1>4, <1>8, <1>9

(* An entry that is taken from a winder.                                    *)
LEMMA WinderPopped ==
  ASSUME winders \in [Winders -> Seq(Entries)], WindersOnce, NEW w \in Winders,
         winders[w] # << >>, winders' = [winders EXCEPT ![w] = Tail(@)]
  PROVE  /\ winders' \in [Winders -> Seq(Entries)]
         /\ WindersOnce' /\ Head(winders[w]) \in Entries /\ Head(winders[w]).frame \in InWinders
         /\ InWinders' \subseteq InWinders \ {Head(winders[w]).frame}
<1>1. winders[w] \in Seq(Entries) /\ winders' = [winders EXCEPT ![w] = Tail(winders[w])]
  OBVIOUS
<1>2. /\ Head(winders[w]) \in Entries /\ Head(winders[w]) = winders[w][1] /\ 1 \in DOMAIN winders[w]
      /\ Tail(winders[w]) \in Seq(Entries)
      /\ \A i \in DOMAIN Tail(winders[w]) :
           i + 1 \in DOMAIN winders[w] /\ i + 1 # 1 /\ Tail(winders[w])[i] = winders[w][i + 1]
  BY <1>1, Rest
<1>3. winders' \in [Winders -> Seq(Entries)]
  BY <1>1, <1>2
<1>4. ASSUME NEW v \in Winders, NEW i \in DOMAIN winders'[v]
      PROVE  \/ v = w /\ i + 1 \in DOMAIN winders[v] /\ i + 1 # 1 /\ winders'[v][i] = winders[v][i + 1]
             \/ v # w /\ i \in DOMAIN winders[v] /\ winders'[v][i] = winders[v][i]
  BY <1>1, <1>2
<1>5. \A v \in Winders : \A i \in DOMAIN winders'[v] : i \in Int
  BY <1>3, LenProperties
<1>6. WindersOnce'
  BY <1>4, <1>5 DEF WindersOnce
<1>7. Head(winders[w]).frame \in InWinders
  BY <1>2 DEF InWinders, Entries
<1>8. InWinders' \subseteq InWinders \ {Head(winders[w]).frame}
  <2>1. \A f \in InWinders' : f \in InWinders
    BY <1>4 DEF InWinders
  <2>2. Head(winders[w]).frame \notin InWinders'
    BY <1>2, <1>4 DEF InWinders, WindersOnce
  <2> QED BY <2>1, <2>2
<1> QED BY <1>2, <1>3, <1>6, <1>7, <1>8

(* Activations that are called.                                             *)
LEMMA CallStep ==
  ASSUME TypeInv, PushesOnce, NEW a \in Seq(Activations), Call(a),
         NEW F, F \cap InPushes = {},
         \A i \in DOMAIN a : a[i].op = "push-frame" => a[i].frame \in F,
         \A i, j \in DOMAIN a : a[i].op = "push-frame" /\ a[j].op = "push-frame" => i = j
  PROVE  Placed(F)
<1> DEFINE r == calls[current]
           k == 0
<1>1. current \in Coroutines /\ r \in Seq(Activations) /\ k \in Nat
  BY DEF TypeInv, TypeOK
<1>2. calls' = [calls EXCEPT ![current] = a \o r]
  BY DEF Call
<1>3. \A i \in DOMAIN r : i + k \in DOMAIN calls[current] /\ r[i] = calls[current][i + k]
  <2>1. \A i \in DOMAIN r : i + k = i
    BY <1>1, LenProperties
  <2> QED BY <2>1
<1> HIDE DEF r, k
<1>4. Placed(F) /\ Below(current, k, F)
  BY <1>1, <1>2, <1>3, StackStep, Zenon
<1> QED BY <1>4

(* Activations that take the place of the innermost.                        *)
LEMMA ContinueStep ==
  ASSUME TypeInv, PushesOnce, NEW a \in Seq(Activations), Continue(a), calls[current] # << >>,
         NEW F, F \cap InPushes = {},
         \A i \in DOMAIN a : a[i].op = "push-frame" => a[i].frame \in F,
         \A i, j \in DOMAIN a : a[i].op = "push-frame" /\ a[j].op = "push-frame" => i = j
  PROVE  /\ Placed(F)
         /\ Top.op = "push-frame" => Top.frame \in InPushes /\ Top.frame \notin InPushes' \ F
<1> DEFINE r == Tail(calls[current])
           k == 1
<1>1. current \in Coroutines /\ calls[current] \in Seq(Activations) /\ k \in Nat
  BY DEF TypeInv, TypeOK
<1>2. calls' = [calls EXCEPT ![current] = a \o r]
  BY DEF Continue
<1>3. /\ r \in Seq(Activations)
      /\ \A i \in DOMAIN r : i + k \in DOMAIN calls[current] /\ r[i] = calls[current][i + k]
  BY <1>1, Rest
<1>4. Placed(F) /\ Below(current, k, F)
  <2> HIDE DEF r, k
  <2> QED BY <1>1, <1>2, <1>3, StackStep, Zenon
<1>6. Top \in Activations /\ Top = calls[current][1] /\ 1 \in DOMAIN calls[current]
  BY <1>1, Rest DEF Top
<1>5. ASSUME Top.op = "push-frame"
      PROVE  Top.frame \in InPushes /\ Top.frame \notin InPushes' \ F
  <2>1. Top.frame \in Frames
    BY <1>5, <1>6, Fields
  <2>2. Top.frame \in InPushes
    BY <1>1, <1>5, <1>6, <2>1 DEF InPushes
  <2>3. ASSUME Top.frame \in InPushes' \ F PROVE FALSE
    <3>0. PICK c \in Coroutines : \E j \in DOMAIN calls[c] :
            /\ c = current => j > 1
            /\ calls[c][j].op = "push-frame" /\ calls[c][j].frame = Top.frame
      BY <1>4, <2>3 DEF Below
    <3>1. PICK j \in DOMAIN calls[c] :
            /\ c = current => j > 1
            /\ calls[c][j].op = "push-frame" /\ calls[c][j].frame = Top.frame
      BY <3>0
    <3>2. c = current /\ j = 1
      BY <1>1, <1>5, <1>6, <3>1 DEF PushesOnce
    <3> QED BY <3>1, <3>2
  <2> QED BY <2>2, <2>3
<1> QED BY <1>4, <1>5

(* Sequences of activations in which no frame is to be pushed, or only f.   *)
NoPush(a) == a \in Seq(Activations) /\ \A i \in DOMAIN a : a[i].op # "push-frame"
OnePush(a, f) ==
  /\ a \in Seq(Activations)
  /\ \A i \in DOMAIN a : a[i].op = "push-frame" => a[i].frame = f
  /\ \A i, j \in DOMAIN a : a[i].op = "push-frame" /\ a[j].op = "push-frame" => i = j

(* An activation that is put on the stack alone.                            *)
LEMMA Single ==
  ASSUME NEW x \in Activations
  PROVE  /\ x.op # "push-frame" => NoPush(<<x>>)
         /\ x.op = "push-frame" => OnePush(<<x>>, x.frame)
<1>1. <<x>> \in Seq(Activations) /\ DOMAIN <<x>> = {1} /\ <<x>>[1] = x
  OBVIOUS
<1> QED BY <1>1 DEF NoPush, OnePush

(* No activation at all.                                                    *)
LEMMA NoneIsNoPush == NoPush(<< >>)
<1>1. << >> \in Seq(Activations) /\ DOMAIN << >> = {}
  OBVIOUS
<1> QED BY <1>1 DEF NoPush

(* Such sequences one before the other.                                     *)
LEMMA Joined ==
  ASSUME NEW a, NEW b, NEW f
  PROVE  /\ NoPush(a) /\ NoPush(b) => NoPush(a \o b)
         /\ NoPush(a) /\ OnePush(b, f) => OnePush(a \o b, f)
         /\ OnePush(a, f) /\ NoPush(b) => OnePush(a \o b, f)
<1> SUFFICES ASSUME a \in Seq(Activations), b \in Seq(Activations)
             PROVE  /\ NoPush(a) /\ NoPush(b) => NoPush(a \o b)
                    /\ NoPush(a) /\ OnePush(b, f) => OnePush(a \o b, f)
                    /\ OnePush(a, f) /\ NoPush(b) => OnePush(a \o b, f)
  BY DEF NoPush, OnePush
<1> DEFINE both == a \o b
<1>1. /\ both \in Seq(Activations)
      /\ \A i \in DOMAIN both : \/ i \in DOMAIN a /\ both[i] = a[i]
                                \/ i - Len(a) \in DOMAIN b /\ i > Len(a) /\ both[i] = b[i - Len(a)]
  BY Before
<1>2. Len(a) \in Nat /\ \A i \in DOMAIN both : i \in Int
  BY <1>1, LenProperties
<1> HIDE DEF both
<1>3. NoPush(a) /\ NoPush(b) => NoPush(both)
  BY <1>1 DEF NoPush
<1>4. ASSUME NoPush(a), OnePush(b, f) PROVE OnePush(both, f)
  <2>1. \A i \in DOMAIN both : both[i].op = "push-frame" =>
          i - Len(a) \in DOMAIN b /\ both[i] = b[i - Len(a)]
    BY <1>1, <1>4 DEF NoPush
  <2>2. ASSUME NEW i \in DOMAIN both, NEW j \in DOMAIN both,
               both[i].op = "push-frame", both[j].op = "push-frame"
        PROVE  i = j /\ both[i].frame = f
    <3> DEFINE m == i - Len(a)
               n == j - Len(a)
    <3>1. m \in DOMAIN b /\ n \in DOMAIN b /\ both[i] = b[m] /\ both[j] = b[n]
      BY <2>1, <2>2
    <3> HIDE DEF m, n
    <3>2. m = n /\ both[i].frame = f
      BY <1>4, <2>2, <3>1 DEF OnePush
    <3> QED BY <1>2, <3>2 DEF m, n
  <2> QED BY <1>1, <2>2 DEF OnePush
<1>5. OnePush(a, f) /\ NoPush(b) => OnePush(both, f)
  BY <1>1, <1>2 DEF NoPush, OnePush
<1> QED BY <1>3, <1>4, <1>5 DEF both

(* The steps that put such sequences on the stack.                          *)
LEMMA Calls ==
  ASSUME TypeInv, PushesOnce, NEW a
  PROVE  /\ NoPush(a) /\ Call(a) => Placed({})
         /\ NoPush(a) /\ Continue(a) /\ calls[current] # << >> =>
              Placed({}) /\ (Top.op = "push-frame" => Top.frame \in InPushes /\ Top.frame \notin InPushes')
         /\ \A f : /\ OnePush(a, f) /\ f \notin InPushes
                   /\ Call(a) \/ (Continue(a) /\ calls[current] # << >>)
                   => Placed({f})
<1>1. ASSUME NoPush(a), Call(a) PROVE Placed({})
  <2>1. a \in Seq(Activations) /\ \A i \in DOMAIN a : a[i].op # "push-frame"
    BY <1>1 DEF NoPush
  <2>2. /\ \A i \in DOMAIN a : a[i].op = "push-frame" => a[i].frame \in {}
        /\ \A i, j \in DOMAIN a : a[i].op = "push-frame" /\ a[j].op = "push-frame" => i = j
        /\ {} \cap InPushes = {}
    BY <2>1
  <2> QED BY <1>1, <2>1, <2>2, CallStep, Zenon
<1>2. ASSUME NoPush(a), Continue(a), calls[current] # << >>
      PROVE  Placed({}) /\ (Top.op = "push-frame" => Top.frame \in InPushes /\ Top.frame \notin InPushes')
  <2>1. a \in Seq(Activations) /\ \A i \in DOMAIN a : a[i].op # "push-frame"
    BY <1>2 DEF NoPush
  <2>2. /\ \A i \in DOMAIN a : a[i].op = "push-frame" => a[i].frame \in {}
        /\ \A i, j \in DOMAIN a : a[i].op = "push-frame" /\ a[j].op = "push-frame" => i = j
        /\ {} \cap InPushes = {}
    BY <2>1
  <2>3. Placed({}) /\ (Top.op = "push-frame" => Top.frame \in InPushes /\ Top.frame \notin InPushes' \ {})
    BY <1>2, <2>1, <2>2, ContinueStep, Zenon
  <2> QED BY <2>3
<1>3. ASSUME NEW f, OnePush(a, f), f \notin InPushes,
             Call(a) \/ (Continue(a) /\ calls[current] # << >>)
      PROVE  Placed({f})
  <2>1. /\ a \in Seq(Activations)
        /\ \A i \in DOMAIN a : a[i].op = "push-frame" => a[i].frame \in {f}
        /\ \A i, j \in DOMAIN a : a[i].op = "push-frame" /\ a[j].op = "push-frame" => i = j
        /\ {f} \cap InPushes = {}
    BY <1>3 DEF OnePush
  <2>2. CASE Call(a)
    BY <2>1, <2>2, CallStep, Zenon
  <2>3. CASE Continue(a) /\ calls[current] # << >>
    BY <2>1, <2>3, ContinueStep, Zenon
  <2> QED BY <1>3, <2>2, <2>3
<1> QED BY <1>1, <1>2, <1>3

(* A call that is to push a frame.                                          *)
LEMMA CallsOne ==
  ASSUME TypeInv, PushesOnce, NEW a, NEW f, OnePush(a, f), f \notin InPushes, Call(a)
  PROVE  Placed({f})
<1>1. /\ a \in Seq(Activations)
      /\ \A i \in DOMAIN a : a[i].op = "push-frame" => a[i].frame \in {f}
      /\ \A i, j \in DOMAIN a : a[i].op = "push-frame" /\ a[j].op = "push-frame" => i = j
      /\ {f} \cap InPushes = {}
  BY DEF OnePush
<1> QED BY <1>1, CallStep, Zenon

(* The activation of the running coroutine that is executed.                *)
LEMMA TopIs ==
  ASSUME TypeInv, NEW op, AtTop(op)
  PROVE  Top \in Activations /\ Top.op = op /\ calls[current] # << >> /\ current \in Coroutines
<1>1. current \in Coroutines /\ calls[current] \in Seq(Activations)
  BY DEF TypeInv, TypeOK
<1> QED BY <1>1, Rest DEF AtTop, Top

-----------------------------------------------------------------------------
(* Steps that leave the frames and winders alone, and call no thunk.        *)
LEMMA Quiet ==
  ASSUME PlaceInv, CountInv, Placed({}), UNCHANGED <<frames, winders, around, ins, outs>>
  PROVE  PlaceInv' /\ CountInv'
<1>1. InFrames' = InFrames /\ InWinders' = InWinders /\ InPushes' \subseteq InPushes
  BY DEF InFrames, InWinders, Placed
<1>2. PlaceInv'
  BY <1>1 DEF PlaceInv, FramesOnce, WindersOnce, Placed
<1>3. CountInv'
  BY <1>1 DEF CountInv
<1> QED BY <1>2, <1>3

(* Links that are followed to the coroutine that is to run.                 *)
LEMMA AttachIs ==
  ASSUME TypeInv, NEW c \in Coroutines, Attach(c)
  PROVE  /\ current' \in Coroutines
         /\ parent' \in [Coroutines -> Coroutines \cup {None}]
         /\ status' \in [Coroutines -> {"unborn", "active", "suspended", "open", "closed"}]
<1> DEFINE chain == ChainFrom(c)
<1>1. chain \in Seq(Coroutines) /\ chain # << >>
  BY ChainIs DEF TypeInv, TypeOK
<1>2. current \in Coroutines \cup {None}
  BY DEF TypeInv, TypeOK
<1> HIDE DEF chain
<1>3. parent' = Relinked(chain, current) /\ current' = Last(chain)
  BY DEF Attach, chain
<1>4. parent' \in [Coroutines -> Coroutines \cup {None}]
  BY <1>1, <1>2, <1>3, RelinkedIs DEF TypeInv, TypeOK
<1>5. current' \in Coroutines
  <2>1. Len(chain) \in 1 .. Len(chain)
    BY <1>1, EmptySeq
  <2>2. chain[Len(chain)] \in Coroutines
    BY <1>1, <2>1, ElementOfSeq
  <2> QED BY <1>3, <2>2 DEF Last
<1>6. status' \in [Coroutines -> {"unborn", "active", "suspended", "open", "closed"}]
  BY DEF Attach, TypeInv, TypeOK
<1> QED BY <1>4, <1>5, <1>6

(* Links that are turned round.                                             *)
LEMMA DetachIs ==
  ASSUME TypeInv, NEW c \in Coroutines, NEW detached \in {"open", "closed"},
         Reaches(current, c), Detach(c, detached)
  PROVE  /\ current' \in Coroutines
         /\ parent' \in [Coroutines -> Coroutines \cup {None}]
         /\ status' \in [Coroutines -> {"unborn", "active", "suspended", "open", "closed"}]
<1> DEFINE chain == ChainTo(current, c)
<1>1. chain \in Seq(Coroutines) /\ None \in Coroutines \cup {None}
  BY ChainToIs DEF TypeInv, TypeOK
<1> HIDE DEF chain
<1>2. parent' = Relinked(chain, None) /\ parent[c] # None /\ current' = parent[c]
  BY DEF Detach, chain
<1>3. parent' \in [Coroutines -> Coroutines \cup {None}]
  BY <1>1, <1>2, RelinkedIs DEF TypeInv, TypeOK
<1>4. current' \in Coroutines
  BY <1>2 DEF TypeInv, TypeOK
<1>5. status' \in [Coroutines -> {"unborn", "active", "suspended", "open", "closed"}]
  BY DEF Detach, TypeInv, TypeOK
<1> QED BY <1>3, <1>4, <1>5

(* Coroutines that are closed, the stack that runs having returned.         *)
LEMMA FreedIs ==
  ASSUME TypeInv, PushesOnce, NEW c \in Coroutines, Freed(c, Returned), calls[current] # << >>
  PROVE  /\ Placed({})
         /\ parent' \in [Coroutines -> Coroutines \cup {None}]
         /\ status' \in [Coroutines -> {"unborn", "active", "suspended", "open", "closed"}]
<1>1. current \in Coroutines /\ calls \in [Coroutines -> Seq(Activations)]
  BY DEF TypeInv, TypeOK
<1>2. /\ Tail(calls[current]) \in Seq(Activations)
      /\ \A i \in DOMAIN Tail(calls[current]) :
           i + 1 \in DOMAIN calls[current] /\ Tail(calls[current])[i] = calls[current][i + 1]
  BY <1>1, Rest
<1>3. << >> \in Seq(Activations) /\ DOMAIN << >> = {}
  OBVIOUS
<1>4. \A d \in Coroutines : \/ calls'[d] = << >>
                            \/ calls'[d] = IF d = current THEN Tail(calls[current]) ELSE calls[d]
  BY <1>1 DEF Freed, Returned
<1>5. calls' \in [Coroutines -> Seq(Activations)]
  <2>1. calls' = [d \in Coroutines |-> calls'[d]]
    BY DEF Freed
  <2>2. \A d \in Coroutines : calls'[d] \in Seq(Activations)
    BY <1>1, <1>2, <1>3, <1>4
  <2> QED BY <2>1, <2>2
<1> DEFINE k == [d \in Coroutines |-> IF d = current THEN 1 ELSE 0]
<1>6. k \in [Coroutines -> Nat]
  OBVIOUS
<1>7. ASSUME NEW d \in Coroutines, NEW i \in DOMAIN calls'[d]
      PROVE  i + k[d] \in DOMAIN calls[d] /\ calls'[d][i] = calls[d][i + k[d]]
  <2>1. calls'[d] = IF d = current THEN Tail(calls[current]) ELSE calls[d]
    BY <1>3, <1>4
  <2>2. CASE d = current
    <3>1. k[d] = 1
      BY <2>2
    <3> HIDE DEF k
    <3> QED BY <1>2, <2>1, <2>2, <3>1
  <2>3. CASE d # current
    <3>1. k[d] = 0
      BY <2>3
    <3>2. i \in Int
      BY <1>5, LenProperties
    <3> HIDE DEF k
    <3> QED BY <2>1, <2>3, <3>1, <3>2
  <2> QED BY <2>2, <2>3
<1> HIDE DEF k
<1>8. PushesOnce' /\ InPushes' \subseteq InPushes
  BY <1>5, <1>6, <1>7, StacksDropped, Zenon
<1>9. parent' \in [Coroutines -> Coroutines \cup {None}]
  BY DEF Freed, TypeInv, TypeOK
<1>10. status' \in [Coroutines -> {"unborn", "active", "suspended", "open", "closed"}]
  BY DEF Freed, TypeInv, TypeOK
<1> QED BY <1>5, <1>8, <1>9, <1>10 DEF Placed

(* What a call by the program records.                                      *)
LEMMA MayIs ==
  ASSUME TypeInv, NEW op, May(op)
  PROVE  /\ Top.thunk \in BOOLEAN /\ thrown' \in BOOLEAN
         /\ calls[current] # << >> /\ current \in Coroutines
<1>1. AtTop("body")
  BY DEF May
<1>2. Top \in Activations /\ Top.op = "body" /\ calls[current] # << >> /\ current \in Coroutines
  BY <1>1, TopIs
<1>3. Top.thunk \in BOOLEAN
  BY <1>2, Fields
<1>4. thrown \in BOOLEAN
  BY DEF TypeInv, TypeOK
<1>5. thrown' = (thrown \/ Top.thunk)
  BY DEF May
<1>6. thrown' \in BOOLEAN
  BY <1>3, <1>4, <1>5, Zenon
<1> QED BY <1>2, <1>3, <1>6

-----------------------------------------------------------------------------
(* The steps of the program that call no thunk.                             *)
LEMMA ReturnStep ==
  ASSUME IInv, Return, UNCHANGED thrown
  PROVE  IInv'
<1>1. calls[current] # << >> /\ NoPush(<< >>)
  BY NoneIsNoPush, TopIs DEF IInv, Return
<1>2. Placed({})
  BY <1>1, Calls DEF IInv, PlaceInv, Return
<1>3. PlaceInv' /\ CountInv'
  BY <1>2, Quiet DEF IInv, Return
<1>4. TypeInv'
  BY <1>2 DEF IInv, TypeInv, TypeOK, Return, Placed
<1> QED BY <1>3, <1>4 DEF IInv

(* A new coroutine has its body to run.                                     *)
LEMMA CreateStep ==
  ASSUME IInv, NEW c \in Coroutines, Create(c)
  PROVE  IInv'
<1> DEFINE x == Body(FALSE)
           y == [op |-> "end", co |-> c]
           a == <<x, y>>
           r == << >>
           k == 0
           F == {}
<1>1. x \in Activations /\ y \in Activations /\ x.op # "push-frame" /\ y.op # "push-frame"
  BY DEF Activations, Body
<1> HIDE DEF x, y
<1>2. /\ a \in Seq(Activations) /\ r \in Seq(Activations) /\ k \in Nat /\ a \o r = a
      /\ \A i \in DOMAIN a : a[i].op # "push-frame"
      /\ \A i \in DOMAIN r : i + k \in DOMAIN calls[c] /\ r[i] = calls[c][i + k]
  BY <1>1
<1>3. calls' = [calls EXCEPT ![c] = a]
  BY DEF Create, x, y
<1> HIDE DEF a, r, k
<1>4. calls' = [calls EXCEPT ![c] = a \o r]
  BY <1>2, <1>3
<1>5. /\ F \cap InPushes = {}
      /\ \A i \in DOMAIN a : a[i].op = "push-frame" => a[i].frame \in F
      /\ \A i, j \in DOMAIN a : a[i].op = "push-frame" /\ a[j].op = "push-frame" => i = j
  BY <1>2
<1>6. TypeInv /\ PushesOnce
  BY DEF IInv, PlaceInv
<1>7. Placed({})
  <2>1. \A i \in DOMAIN r : i + k \in DOMAIN calls[c] /\ r[i] = calls[c][i + k]
    BY <1>2
  <2>2. Placed(F) /\ Below(c, k, F)
    <3> HIDE DEF F
    <3> QED BY <1>2, <1>4, <1>5, <1>6, <2>1, StackStep, Zenon
  <2> QED BY <2>2
<1>8. PlaceInv' /\ CountInv'
  BY <1>7, Quiet DEF IInv, Create
<1>9. thrown' \in BOOLEAN
  BY <1>6, MayIs DEF Create
<1>10. TypeInv'
  BY <1>7, <1>9 DEF IInv, TypeInv, TypeOK, Create, Placed
<1> QED BY <1>8, <1>10 DEF IInv

(* A coroutine is attached.                                                 *)
LEMMA ResumeStep ==
  ASSUME IInv, NEW c \in Coroutines, Resume(c)
  PROVE  IInv'
<1> DEFINE x == [op |-> "resume", co |-> c]
<1>1. NoPush(<<x>>)
  BY Single DEF Activations
<1>2. Placed({})
  BY <1>1, Calls DEF IInv, PlaceInv, Resume
<1>3. PlaceInv' /\ CountInv'
  BY <1>2, Quiet DEF IInv, Resume
<1>4. thrown' \in BOOLEAN
  BY MayIs DEF IInv, Resume
<1>5. TypeInv'
  BY <1>2, <1>4, AttachIs DEF IInv, TypeInv, TypeOK, Resume, Placed
<1> QED BY <1>3, <1>5 DEF IInv

(* The coroutine that was resumed has suspended or is closed.               *)
LEMMA ResumedStep ==
  ASSUME IInv, Resumed, UNCHANGED thrown
  PROVE  IInv'
<1>1. calls[current] # << >> /\ Top.co \in Coroutines
  BY TopIs, Fields DEF IInv, Resumed
<1>2. /\ Placed({})
      /\ parent' \in [Coroutines -> Coroutines \cup {None}]
      /\ status' \in [Coroutines -> {"unborn", "active", "suspended", "open", "closed"}]
  <2>1. CASE Freed(Top.co, Returned)
    BY <1>1, <2>1, FreedIs DEF IInv, PlaceInv
  <2>2. CASE calls' = Returned /\ UNCHANGED <<parent, status>>
    <3>1. Continue(<< >>)
      <4> DEFINE r == Tail(calls[current])
      <4>1. r \in Seq(Activations) /\ calls' = [calls EXCEPT ![current] = r]
        BY <1>1, <2>2, Rest DEF IInv, TypeInv, TypeOK, Returned
      <4> HIDE DEF r
      <4>2. << >> \o r = r
        BY <4>1, ConcatEmptySeq
      <4>3. calls' = [calls EXCEPT ![current] = << >> \o r]
        BY <4>1, <4>2
      <4> QED BY <4>3 DEF Continue, r
    <3>2. Placed({})
      BY <1>1, <3>1, NoneIsNoPush, Calls DEF IInv, PlaceInv
    <3> QED BY <2>2, <3>2 DEF IInv, TypeInv, TypeOK
  <2> QED BY <2>1, <2>2 DEF Resumed
<1>3. PlaceInv' /\ CountInv'
  BY <1>2, Quiet DEF IInv, Resumed
<1>4. TypeInv'
  BY <1>2 DEF IInv, TypeInv, TypeOK, Resumed, Placed
<1> QED BY <1>3, <1>4 DEF IInv

(* close, after the finally blocks.                                         *)
LEMMA ClosedStep ==
  ASSUME IInv, Closed, UNCHANGED thrown
  PROVE  IInv'
<1>1. calls[current] # << >> /\ Top.co \in Coroutines
  BY TopIs, Fields DEF IInv, Closed
<1>2. /\ Placed({})
      /\ parent' \in [Coroutines -> Coroutines \cup {None}]
      /\ status' \in [Coroutines -> {"unborn", "active", "suspended", "open", "closed"}]
  BY <1>1, FreedIs DEF IInv, PlaceInv, Closed
<1>3. PlaceInv' /\ CountInv'
  BY <1>2, Quiet DEF IInv, Closed
<1>4. TypeInv'
  BY <1>2 DEF IInv, TypeInv, TypeOK, Closed, Placed
<1> QED BY <1>3, <1>4 DEF IInv

(* suspend begins to wind out.                                              *)
LEMMA SuspendStep ==
  ASSUME IInv, NEW c \in Coroutines, Suspend(c)
  PROVE  IInv'
<1>1. calls[current] # << >> /\ current \in Coroutines /\ thrown' \in BOOLEAN
  BY MayIs DEF IInv, Suspend
<1>2. used' \in Winders
  BY DEF Suspend
<1> DEFINE x == WindingOut(c, used', FALSE)
           y == [op |-> "suspend", co |-> c, winder |-> used']
<1>3. x \in Activations /\ x.op # "push-frame"
  BY <1>1, <1>2 DEF Activations, WindingOut
<1>4. y \in Activations /\ y.op # "push-frame"
  BY <1>2 DEF Activations
<1>5. Call(<<x, y>>)
  BY DEF Suspend
<1> HIDE DEF x, y
<1>6. NoPush(<<x, y>>)
  BY <1>3, <1>4 DEF NoPush
<1>7. Placed({})
  BY <1>5, <1>6, Calls DEF IInv, PlaceInv
<1>8. PlaceInv' /\ CountInv'
  BY <1>7, Quiet DEF IInv, Suspend
<1>9. TypeInv'
  BY <1>1, <1>2, <1>7 DEF IInv, TypeInv, TypeOK, Suspend, Placed
<1> QED BY <1>8, <1>9 DEF IInv

(* What a break puts on the stack.                                          *)
LEMMA BreakingIs ==
  ASSUME TypeInv, NEW c \in Coroutines
  PROVE  NoPush(Breaking(c))
<1> DEFINE x == WindingOut(c, NoWinder, TRUE)
           y == [op |-> "break", co |-> c]
<1>1. x \in Activations /\ x.op # "push-frame"
  BY DEF Activations, WindingOut, TypeInv, TypeOK
<1>2. y \in Activations /\ y.op # "push-frame"
  BY DEF Activations
<1>3. Breaking(c) = <<x, y>>
  BY DEF Breaking
<1> HIDE DEF x, y
<1>4. NoPush(<<x, y>>)
  BY <1>1, <1>2 DEF NoPush
<1> QED BY <1>3, <1>4

(* The program breaks out of a coroutine.                                   *)
LEMMA BreakStep ==
  ASSUME IInv, NEW c \in Coroutines, Break(c)
  PROVE  IInv'
<1>1. thrown' \in BOOLEAN
  BY MayIs DEF IInv, Break
<1>2. Placed({})
  BY BreakingIs, Calls DEF IInv, PlaceInv, Break
<1>3. PlaceInv' /\ CountInv'
  BY <1>2, Quiet DEF IInv, Break
<1>4. TypeInv'
  BY <1>1, <1>2 DEF IInv, TypeInv, TypeOK, Break, Placed
<1> QED BY <1>3, <1>4 DEF IInv

(* The body of a coroutine has returned.                                    *)
LEMMA CoroutineEndsStep ==
  ASSUME IInv, CoroutineEnds, UNCHANGED thrown
  PROVE  IInv'
<1>1. calls[current] # << >> /\ Top.co \in Coroutines
  BY TopIs, Fields DEF IInv, CoroutineEnds
<1>2. Placed({})
  BY <1>1, BreakingIs, Calls DEF IInv, PlaceInv, CoroutineEnds
<1>3. PlaceInv' /\ CountInv'
  BY <1>2, Quiet DEF IInv, CoroutineEnds
<1>4. TypeInv'
  BY <1>2 DEF IInv, TypeInv, TypeOK, CoroutineEnds, Placed
<1> QED BY <1>3, <1>4 DEF IInv

(* A coroutine that was broken out of is detached.                          *)
LEMMA BrokenStep ==
  ASSUME IInv, Broken, UNCHANGED thrown
  PROVE  IInv'
<1>1. Top.co \in Coroutines
  BY TopIs, Fields DEF IInv, Broken
<1>2. /\ current' \in Coroutines
      /\ parent' \in [Coroutines -> Coroutines \cup {None}]
      /\ status' \in [Coroutines -> {"unborn", "active", "suspended", "open", "closed"}]
  BY <1>1, DetachIs DEF IInv, Broken
<1>3. Placed({})
  BY DEF IInv, TypeInv, PlaceInv, Placed, PushesOnce, InPushes, Broken
<1>4. PlaceInv' /\ CountInv'
  BY <1>3, Quiet DEF IInv, Broken
<1>5. TypeInv'
  BY <1>2, <1>3 DEF IInv, TypeInv, TypeOK, Broken, Placed
<1> QED BY <1>4, <1>5 DEF IInv

(* A coroutine that suspends is detached.                                   *)
LEMMA SuspendedStep ==
  ASSUME IInv, Suspended, UNCHANGED thrown
  PROVE  IInv'
<1>1. /\ Top \in Activations /\ Top.op = "suspend" /\ calls[current] # << >>
      /\ Top.co \in Coroutines /\ Top.winder \in Winders
      /\ [Top EXCEPT !.op = "suspended"] \in Activations
  BY TopIs, Fields DEF IInv, Suspended
<1> DEFINE x == [Top EXCEPT !.op = "suspended"]
<1>2. x.op = "suspended"
  BY <1>1, SMT DEF Activations
<1>3. Continue(<<x>>)
  BY DEF Suspended
<1> HIDE DEF x
<1>4. NoPush(<<x>>)
  BY <1>1, <1>2, Single DEF x
<1>5. Placed({})
  BY <1>1, <1>3, <1>4, Calls DEF IInv, PlaceInv
<1>6. /\ current' \in Coroutines
      /\ parent' \in [Coroutines -> Coroutines \cup {None}]
      /\ status' \in [Coroutines -> {"unborn", "active", "suspended", "open", "closed"}]
  BY <1>1, DetachIs DEF IInv, Suspended
<1>7. PlaceInv' /\ CountInv'
  BY <1>5, Quiet DEF IInv, Suspended
<1>8. /\ saved' \in [Coroutines -> Winders \cup {NoWinder}]
      /\ registered' \subseteq Coroutines /\ registered \subseteq registered'
  BY <1>1 DEF IInv, TypeInv, TypeOK, Suspended, SaveWinders
<1>9. TypeInv'
  BY <1>5, <1>6, <1>8 DEF IInv, TypeInv, TypeOK, Suspended, Placed
<1> QED BY <1>7, <1>9 DEF IInv

(* A coroutine that was suspended begins to wind in.                        *)
LEMMA ReattachedStep ==
  ASSUME IInv, Reattached, UNCHANGED thrown
  PROVE  IInv'
<1>1. /\ calls[current] # << >> /\ current \in Coroutines
      /\ Top.co \in Coroutines /\ Top.winder \in Winders
  BY TopIs, Fields DEF IInv, Reattached
<1> DEFINE w == Top.winder
<1>2. Placed({})
  <2>1. CASE winders[w] = << >>
    BY <1>1, <2>1, NoneIsNoPush, Calls DEF IInv, PlaceInv, Reattached
  <2>2. CASE winders[w] # << >>
    <3> DEFINE s == Reverse(ChainTo(current, Head(winders[w]).co))
               x == [op |-> "wind-in", winder |-> w, cos |-> s]
    <3>1. ChainTo(current, Head(winders[w]).co) \in Seq(Coroutines)
      BY <1>1, <2>2, ChainToIs DEF IInv, TypeInv, TypeOK, Reattached
    <3>2. s \in Seq(Coroutines)
      <4> DEFINE chain == ChainTo(current, Head(winders[w]).co)
      <4>1. chain \in Seq(Coroutines) /\ Len(chain) \in Nat
        BY <3>1, LenProperties
      <4> HIDE DEF chain
      <4>2. \A i \in 1 .. Len(chain) : chain[Len(chain) - i + 1] \in Coroutines
        BY <4>1, ElementOfSeq
      <4>3. Reverse(chain) \in Seq(Coroutines)
        BY <4>1, <4>2 DEF Reverse
      <4> QED BY <4>3 DEF chain
    <3>3. Continue(<<x>>)
      BY <2>2 DEF Reattached
    <3> HIDE DEF s
    <3>4. NoPush(<<x>>)
      BY <1>1, <3>2, Single DEF Activations
    <3> HIDE DEF x
    <3> QED BY <1>1, <3>3, <3>4, Calls DEF IInv, PlaceInv
  <2> QED BY <2>1, <2>2
<1>3. PlaceInv' /\ CountInv'
  BY <1>2, Quiet DEF IInv, Reattached
<1>4. saved' \in [Coroutines -> Winders \cup {NoWinder}]
  BY <1>1 DEF IInv, TypeInv, TypeOK, Reattached
<1>5. TypeInv'
  BY <1>2, <1>4 DEF IInv, TypeInv, TypeOK, Reattached, Placed
<1> QED BY <1>3, <1>5 DEF IInv

(* The finally blocks that are saved are put on the stack that runs.        *)
LEMMA RunSavedIs ==
  ASSUME TypeInv, PushesOnce, NEW c \in Coroutines, NEW rest, NoPush(rest), RunSaved(c, rest)
  PROVE  Placed({}) /\ saved' \in [Coroutines -> Winders \cup {NoWinder}]
<1>1. saved[c] \in Winders \cup {NoWinder}
  BY DEF TypeInv, TypeOK
<1> DEFINE x == [op |-> "wind-in-out", winder |-> saved[c], left |-> NumFinallyBlocks(saved[c])]
           a == IF saved[c] = NoWinder THEN << >> ELSE <<x>>
<1>2. NoPush(a)
  <2>1. CASE saved[c] = NoWinder
    BY <2>1, NoneIsNoPush
  <2>2. CASE saved[c] # NoWinder
    <3>1. NumFinallyBlocks(saved[c]) \in Nat
      BY <1>1, <2>2, NumFinallyIs DEF TypeInv
    <3>2. x \in Activations /\ x.op # "push-frame"
      BY <1>1, <2>2, <3>1 DEF Activations
    <3> HIDE DEF x
    <3> QED BY <2>2, <3>2, Single
  <2> QED BY <2>1, <2>2
<1>3. Call(a \o rest)
  BY DEF RunSaved
<1> HIDE DEF a
<1>4. Placed({})
  BY <1>2, <1>3, Joined, Calls
<1>5. saved' \in [Coroutines -> Winders \cup {NoWinder}]
  BY DEF RunSaved, TypeInv, TypeOK
<1> QED BY <1>4, <1>5

(* close begins to run the finally blocks.                                  *)
LEMMA CloseStep ==
  ASSUME IInv, NEW c \in Coroutines, Close(c)
  PROVE  IInv'
<1>1. thrown' \in BOOLEAN
  BY MayIs DEF IInv, Close
<1> DEFINE x == [op |-> "close", co |-> c]
<1>2. NoPush(<<x>>)
  BY Single DEF Activations
<1>3. Placed({}) /\ saved' \in [Coroutines -> Winders \cup {NoWinder}]
  BY <1>2, RunSavedIs DEF IInv, PlaceInv, Close
<1>4. PlaceInv' /\ CountInv'
  BY <1>3, Quiet DEF IInv, Close
<1>5. TypeInv'
  BY <1>1, <1>3 DEF IInv, TypeInv, TypeOK, Close, Placed
<1> QED BY <1>4, <1>5 DEF IInv

(* So does the finalizer.                                                   *)
LEMMA CollectStep ==
  ASSUME IInv, NEW c \in Coroutines, Collect(c)
  PROVE  IInv'
<1>1. thrown' \in BOOLEAN
  BY MayIs DEF IInv, Collect
<1>2. Placed({}) /\ saved' \in [Coroutines -> Winders \cup {NoWinder}]
  BY NoneIsNoPush, RunSavedIs DEF IInv, PlaceInv, Collect
<1>3. PlaceInv' /\ CountInv'
  BY <1>2, Quiet DEF IInv, Collect
<1>4. dead' \subseteq registered'
  BY DEF IInv, TypeInv, TypeOK, Collect
<1>5. TypeInv'
  BY <1>1, <1>2, <1>4 DEF IInv, TypeInv, TypeOK, Collect, Placed
<1> QED BY <1>3, <1>5 DEF IInv

-----------------------------------------------------------------------------
(* The steps that move frames and call thunks.                              *)
LEMMA PushFrameStep ==
  ASSUME IInv, PushFrame, UNCHANGED thrown
  PROVE  IInv'
<1> DEFINE f == Top.frame
           c == Top.co
<1>1. /\ Top.op = "push-frame" /\ calls[current] # << >>
      /\ f \in Frames /\ c \in Coroutines
  BY TopIs, Fields DEF IInv, PushFrame
<1>2. Placed({}) /\ f \in InPushes /\ f \notin InPushes'
  BY <1>1, NoneIsNoPush, Calls DEF IInv, PlaceInv, PushFrame
<1>3. f \in Frames \ InFrames /\ f \notin InWinders /\ f \in DOMAIN around
  BY <1>1, <1>2 DEF IInv, PlaceInv
<1>4. frames \in [Coroutines -> Seq(Frames)] /\ FramesOnce /\ frames' = [frames EXCEPT ![c] = <<f>> \o @]
  BY DEF IInv, TypeInv, TypeOK, PlaceInv, PushFrame
<1> HIDE DEF f, c
<1>5. /\ frames' \in [Coroutines -> Seq(Frames)]
      /\ FramesOnce' /\ InFrames' \subseteq InFrames \cup {f}
  BY <1>1, <1>3, <1>4, FramePushed
<1>6. InPushes' \subseteq InPushes \ {f} /\ InWinders' = InWinders
  BY <1>2 DEF Placed, InWinders, PushFrame
<1>7. PlaceInv'
  BY <1>2, <1>3, <1>5, <1>6 DEF IInv, PlaceInv, Placed, WindersOnce, PushFrame
<1>8. CountInv'
  BY <1>2, <1>5, <1>6 DEF IInv, CountInv, PushFrame
<1>9. TypeInv'
  BY <1>2, <1>5 DEF IInv, TypeInv, TypeOK, PushFrame, Placed
<1> QED BY <1>7, <1>8, <1>9 DEF IInv

(* What push-frame puts on the stack.                                       *)
LEMMA PushingIs ==
  ASSUME NEW f \in Frames, NEW c \in Coroutines
  PROVE  OnePush(Pushing(f, c), f)
<1> DEFINE x == Body(TRUE)
           y == [op |-> "push-frame", frame |-> f, co |-> c]
           a == IF f \in PlainFrames THEN <<x>> ELSE << >>
<1>1. x \in Activations /\ x.op # "push-frame"
  BY DEF Activations, Body
<1>2. y \in Activations /\ y.op = "push-frame" /\ y.frame = f
  BY DEF Activations
<1>3. Pushing(f, c) = a \o <<y>>
  BY DEF Pushing
<1> HIDE DEF x, y
<1>4. NoPush(a)
  BY <1>1, Single, NoneIsNoPush
<1>5. OnePush(<<y>>, f)
  BY <1>2, Single
<1> HIDE DEF a
<1> QED BY <1>3, <1>4, <1>5, Joined

(* A frame that is to be pushed: f, which was entered now or in a winder.   *)
LEMMA EnterIs ==
  ASSUME PlaceInv, CountInv, NEW f \in Frames, Placed({f}), CallIn(f),
         f \notin InFrames, f \notin InPushes, f \in InWinders \/ f \notin DOMAIN around,
         UNCHANGED <<frames, outs>>,
         WindersOnce', InWinders' \subseteq InWinders \ {f}, DOMAIN around' = DOMAIN around \cup {f},
         ins \in [Frames -> Nat], outs \in [Frames -> Nat]
  PROVE  PlaceInv' /\ CountInv' /\ ins' \in [Frames -> Nat]
<1>1. InFrames' = InFrames /\ InPushes' \subseteq InPushes \cup {f}
  BY DEF InFrames, Placed
<1>2. PlaceInv'
  BY <1>1 DEF PlaceInv, FramesOnce, Placed
<1>3. ins' \in [Frames -> Nat] /\ \A g \in Frames : ins'[g] = IF g = f /\ f \in PlainFrames THEN ins[g] + 1 ELSE ins[g]
  BY DEF CallIn
<1>4. CountInv'
  <2>1. ASSUME NEW g \in PlainFrames
        PROVE  /\ outs'[g] <= ins'[g] /\ ins'[g] <= outs'[g] + 1
               /\ g \in InFrames' \cup InPushes' => ins'[g] = outs'[g] + 1
               /\ g \in InWinders' \/ g \notin DOMAIN around' => ins'[g] = outs'[g]
    <3>1. g \in Frames /\ ins[g] \in Nat /\ outs[g] \in Nat
      BY DEF Frames
    <3>2. CASE g = f
      <4>1. ins[g] = outs[g] /\ ins'[g] = ins[g] + 1 /\ outs'[g] = outs[g]
        BY <1>3, <3>1, <3>2 DEF CountInv
      <4>2. g \notin InWinders' /\ g \in DOMAIN around'
        BY <3>2
      <4> QED BY <3>1, <4>1, <4>2
    <3>3. CASE g # f
      <4>1. ins'[g] = ins[g] /\ outs'[g] = outs[g]
        BY <1>3, <3>1, <3>3
      <4>2. /\ g \in InFrames' \cup InPushes' => g \in InFrames \cup InPushes
            /\ g \in InWinders' \/ g \notin DOMAIN around' => g \in InWinders \/ g \notin DOMAIN around
        BY <1>1, <3>3
      <4> QED BY <4>1, <4>2 DEF CountInv
    <3> QED BY <3>2, <3>3
  <2>2. ASSUME NEW g \in FinallyFrames
        PROVE  /\ outs'[g] <= 1
               /\ g \in InFrames' \cup InPushes' \cup InWinders' \/ g \notin DOMAIN around' => outs'[g] = 0
    <3>1. outs'[g] = outs[g]
      OBVIOUS
    <3>2. CASE g = f
      BY <3>1, <3>2 DEF CountInv
    <3>3. CASE g # f
      <4>1. g \in InFrames' \cup InPushes' \cup InWinders' \/ g \notin DOMAIN around' =>
              g \in InFrames \cup InPushes \cup InWinders \/ g \notin DOMAIN around
        BY <1>1, <3>3
      <4> QED BY <3>1, <4>1 DEF CountInv
    <3> QED BY <3>2, <3>3
  <2> QED BY <2>1, <2>2 DEF CountInv
<1> QED BY <1>2, <1>3, <1>4

(* A frame that is entered has been nowhere before.                         *)
LEMMA DynamicWindStep ==
  ASSUME IInv, NEW f \in Frames, DynamicWind(f)
  PROVE  IInv'
<1>1. /\ calls[current] # << >> /\ current \in Coroutines
      /\ Top.thunk \in BOOLEAN /\ thrown' \in BOOLEAN
  BY MayIs DEF IInv, DynamicWind
<1> DEFINE x == Body(Top.thunk)
           y == [op |-> "dynamic-wind", frame |-> f]
           a == Pushing(f, current)
<1>2. x \in Activations /\ x.op # "push-frame" /\ y \in Activations /\ y.op # "push-frame"
  BY <1>1 DEF Activations, Body
<1>3. Call(a \o <<x, y>>)
  BY DEF DynamicWind
<1>4. OnePush(a, f)
  BY <1>1, PushingIs
<1> HIDE DEF x, y, a
<1>5. NoPush(<<x, y>>)
  BY <1>2 DEF NoPush
<1>6. f \notin DOMAIN around /\ f \notin InFrames \cup InPushes \cup InWinders
  BY DEF IInv, PlaceInv, DynamicWind
<1>7. OnePush(a \o <<x, y>>, f)
  BY <1>4, <1>5, Joined
<1>8. Placed({f})
  <2>1. TypeInv /\ PushesOnce /\ f \notin InPushes
    BY <1>6 DEF IInv, PlaceInv
  <2> DEFINE b == a \o <<x, y>>
  <2>2. OnePush(b, f) /\ Call(b)
    BY <1>3, <1>7
  <2> HIDE DEF b
  <2> QED BY <2>1, <2>2, CallsOne
<1>9. DOMAIN around' = DOMAIN around \cup {f}
  BY DEF DynamicWind
<1>10. WindersOnce' /\ InWinders' = InWinders
  BY DEF IInv, PlaceInv, WindersOnce, InWinders, DynamicWind
<1>11. /\ CallIn(f) /\ UNCHANGED <<frames, outs>>
       /\ ins \in [Frames -> Nat] /\ outs \in [Frames -> Nat]
  BY DEF IInv, TypeInv, TypeOK, DynamicWind
<1>12. PlaceInv' /\ CountInv' /\ ins' \in [Frames -> Nat]
  BY <1>6, <1>8, <1>9, <1>10, <1>11, EnterIs DEF IInv
<1>13. TypeInv'
  BY <1>1, <1>8, <1>9, <1>12 DEF IInv, TypeInv, TypeOK, DynamicWind, Placed
<1> QED BY <1>12, <1>13 DEF IInv

(* The entry that is wound in next.                                         *)
LEMMA WoundInIs ==
  ASSUME IInv, NEW w \in Winders, winders[w] # << >>, winders' = [winders EXCEPT ![w] = Tail(@)],
         NEW f, f = Head(winders[w]).frame, NEW a, OnePush(a, f),
         CallIn(f), Continue(a), calls[current] # << >>, UNCHANGED <<frames, outs, around>>
  PROVE  /\ PlaceInv' /\ CountInv' /\ ins' \in [Frames -> Nat]
         /\ Placed({f}) /\ winders' \in [Winders -> Seq(Entries)]
<1>1. winders \in [Winders -> Seq(Entries)] /\ WindersOnce
  BY DEF IInv, TypeInv, PlaceInv
<1>2. /\ winders' \in [Winders -> Seq(Entries)]
      /\ WindersOnce' /\ Head(winders[w]) \in Entries /\ f \in InWinders
      /\ InWinders' \subseteq InWinders \ {f}
  BY <1>1, WinderPopped
<1>3. f \in Frames /\ f \notin InFrames /\ f \notin InPushes /\ f \in DOMAIN around
  BY <1>2 DEF IInv, PlaceInv, InWinders
<1>4. Placed({f})
  BY <1>3, Calls DEF IInv, PlaceInv
<1>5. DOMAIN around' = DOMAIN around \cup {f} /\ ins \in [Frames -> Nat] /\ outs \in [Frames -> Nat]
  BY <1>3 DEF IInv, TypeInv, TypeOK
<1>6. PlaceInv' /\ CountInv' /\ ins' \in [Frames -> Nat]
  BY <1>2, <1>3, <1>4, <1>5, EnterIs DEF IInv
<1> QED BY <1>2, <1>4, <1>6

(* The next entry of a winder, wound in where it was.                       *)
LEMMA WindInStep ==
  ASSUME IInv, WindIn, UNCHANGED thrown
  PROVE  IInv'
<1> DEFINE w == Top.winder
<1>1. /\ Top \in Activations /\ Top.op = "wind-in" /\ calls[current] # << >>
      /\ w \in Winders /\ Top.cos \in Seq(Coroutines)
      /\ \A s \in Seq(Coroutines) : [Top EXCEPT !.cos = s] \in Activations
  BY TopIs, Fields DEF IInv, WindIn
<1>2. CASE winders[w] = << >>
  <2>1. Placed({})
    BY <1>1, <1>2, NoneIsNoPush, Calls DEF IInv, PlaceInv, WindIn
  <2>2. PlaceInv' /\ CountInv'
    BY <1>2, <2>1, Quiet DEF IInv, WindIn
  <2>3. TypeInv'
    BY <1>2, <2>1 DEF IInv, TypeInv, TypeOK, WindIn, Placed
  <2> QED BY <2>2, <2>3 DEF IInv
<1>3. CASE winders[w] # << >>
  <2> DEFINE f == Head(winders[w]).frame
             c == Head(winders[w]).co
  <2>1. PICK n \in DOMAIN Top.cos :
          /\ winders' = [winders EXCEPT ![w] = Tail(@)]
          /\ CallIn(f)
          /\ Continue(Pushing(f, c) \o <<[Top EXCEPT !.cos = SubSeq(@, n, Len(@))]>>)
    BY <1>3 DEF WindIn
  <2>2. f \in Frames /\ c \in Coroutines
    <3>1. winders[w] \in Seq(Entries)
      BY <1>1 DEF IInv, TypeInv
    <3>2. Head(winders[w]) \in Entries
      BY <1>3, <3>1, Rest
    <3> QED BY <3>2 DEF Entries
  <2> DEFINE s == SubSeq(Top.cos, n, Len(Top.cos))
             x == [Top EXCEPT !.cos = s]
             a == Pushing(f, c)
  <2>3. s \in Seq(Coroutines)
    <3> DEFINE q == Top.cos
    <3>1. q \in Seq(Coroutines) /\ n \in 1 .. Len(q) /\ Len(q) \in Nat
      BY <1>1, LenProperties
    <3> HIDE DEF q
    <3>2. \A i \in n .. Len(q) : q[i] \in Coroutines
      BY <3>1, ElementOfSeq
    <3>3. SubSeq(q, n, Len(q)) \in Seq(Coroutines)
      BY <3>1, <3>2
    <3> QED BY <3>3 DEF q
  <2> HIDE DEF s
  <2>4. x \in Activations /\ x.op # "push-frame"
    BY <1>1, <2>3 DEF Activations
  <2>5. Continue(a \o <<x>>)
    BY <2>1 DEF s
  <2>6. OnePush(a, f)
    BY <2>2, PushingIs
  <2> HIDE DEF x, a
  <2>7. OnePush(a \o <<x>>, f)
    BY <2>4, <2>6, Single, Joined
  <2>8. /\ PlaceInv' /\ CountInv' /\ ins' \in [Frames -> Nat]
        /\ Placed({f}) /\ winders' \in [Winders -> Seq(Entries)]
    BY <1>1, <1>3, <2>1, <2>5, <2>7, WoundInIs DEF WindIn
  <2>9. TypeInv'
    BY <2>8 DEF IInv, TypeInv, TypeOK, WindIn, Placed
  <2> QED BY <2>8, <2>9 DEF IInv
<1> QED BY <1>2, <1>3

(* The next entry of a winder, wound in to be wound out again.              *)
LEMMA WindInOutStep ==
  ASSUME IInv, WindInOut, UNCHANGED thrown
  PROVE  IInv'
<1> DEFINE w == Top.winder
<1>1. /\ Top \in Activations /\ Top.op = "wind-in-out" /\ calls[current] # << >>
      /\ current \in Coroutines /\ w \in Winders /\ Top.left \in Nat
      /\ \A n \in Nat : [Top EXCEPT !.left = n] \in Activations
  BY TopIs, Fields DEF IInv, WindInOut
<1>2. CASE Top.left = 0
  <2>1. Placed({})
    BY <1>1, <1>2, NoneIsNoPush, Calls DEF IInv, PlaceInv, WindInOut
  <2>2. PlaceInv' /\ CountInv'
    BY <1>2, <2>1, Quiet DEF IInv, WindInOut
  <2>3. TypeInv'
    BY <1>2, <2>1 DEF IInv, TypeInv, TypeOK, WindInOut, Placed
  <2> QED BY <2>2, <2>3 DEF IInv
<1>3. CASE Top.left # 0
  <2> DEFINE f == Head(winders[w]).frame
             n == Top.left - 1
             x == [Top EXCEPT !.left = n]
             y == [op |-> "dynamic-wind", frame |-> f]
             a == Pushing(f, current)
  <2>1. /\ winders[w] # << >>
        /\ winders' = [winders EXCEPT ![w] = Tail(@)]
        /\ CallIn(f)
        /\ Continue(a \o <<x, y>>)
    BY <1>3 DEF WindInOut
  <2>2. f \in Frames
    <3>1. winders[w] \in Seq(Entries)
      BY <1>1 DEF IInv, TypeInv
    <3>2. Head(winders[w]) \in Entries
      BY <2>1, <3>1, Rest
    <3> QED BY <3>2 DEF Entries
  <2>3. n \in Nat
    BY <1>1, <1>3
  <2> HIDE DEF n
  <2>4. x \in Activations /\ x.op # "push-frame"
    BY <1>1, <2>3 DEF Activations
  <2>5. y \in Activations /\ y.op # "push-frame"
    BY <2>2 DEF Activations
  <2>6. OnePush(a, f)
    BY <1>1, <2>2, PushingIs
  <2> HIDE DEF x, y, a
  <2>7. NoPush(<<x, y>>)
    BY <2>4, <2>5 DEF NoPush
  <2>8. OnePush(a \o <<x, y>>, f)
    BY <2>6, <2>7, Joined
  <2>9. /\ PlaceInv' /\ CountInv' /\ ins' \in [Frames -> Nat]
        /\ Placed({f}) /\ winders' \in [Winders -> Seq(Entries)]
    BY <1>1, <2>1, <2>8, WoundInIs DEF WindInOut
  <2>10. TypeInv'
    BY <2>9 DEF IInv, TypeInv, TypeOK, WindInOut, Placed
  <2> QED BY <2>9, <2>10 DEF IInv
<1> QED BY <1>2, <1>3

(* pop-frame, with the frame put on a winder if there is one.               *)
LEMMA PopIs ==
  ASSUME IInv, NEW c \in Coroutines, frames[c] # << >>, NEW callFinally \in BOOLEAN,
         NEW rest, NoPush(rest), Popping(c, callFinally, rest), calls[current] # << >>,
         UNCHANGED <<around, ins>>,
         \/ UNCHANGED winders
         \/ ~callFinally /\ \E w \in Winders : winders' = Pushed(w, [co |-> c, frame |-> Head(frames[c])])
  PROVE  /\ PlaceInv' /\ CountInv' /\ Placed({})
         /\ frames' \in [Coroutines -> Seq(Frames)] /\ outs' \in [Frames -> Nat]
         /\ winders' \in [Winders -> Seq(Entries)]
<1> DEFINE f == Head(frames[c])
<1>1. /\ frames' \in [Coroutines -> Seq(Frames)]
      /\ FramesOnce' /\ f \in InFrames /\ InFrames' \subseteq InFrames \ {f}
  BY FramePopped DEF IInv, TypeInv, TypeOK, PlaceInv, Popping
<1>2. f \in Frames /\ f \notin InPushes /\ f \notin InWinders /\ f \in DOMAIN around
  BY <1>1 DEF IInv, PlaceInv, InFrames
<1> DEFINE e == [co |-> c, frame |-> f]
<1>3. /\ winders' \in [Winders -> Seq(Entries)] /\ WindersOnce'
      /\ InWinders' \subseteq InWinders \cup (IF callFinally THEN {} ELSE {f})
  <2>1. CASE UNCHANGED winders
    BY <2>1 DEF IInv, TypeInv, PlaceInv, WindersOnce, InWinders
  <2>2. CASE ~callFinally /\ \E w \in Winders : winders' = Pushed(w, e)
    <3>1. PICK w \in Winders : winders' = [winders EXCEPT ![w] = <<e>> \o @]
      BY <2>2 DEF Pushed
    <3>2. e \in Entries /\ e.frame = f
      BY <1>2 DEF Entries
    <3> HIDE DEF e
    <3>3. winders \in [Winders -> Seq(Entries)] /\ WindersOnce /\ e.frame \notin InWinders
      BY <1>2, <3>2 DEF IInv, TypeInv, PlaceInv
    <3> QED BY <2>2, <3>1, <3>2, <3>3, WinderPushed
  <2> QED BY <2>1, <2>2
<1>4. Placed({})
  <2> DEFINE x == Body(TRUE)
  <2>1. NoPush(<<x>>)
    BY Single DEF Activations, Body
  <2> HIDE DEF x
  <2>2. NoPush(<<x>> \o rest)
    BY <2>1, Joined
  <2> DEFINE a == <<x>> \o rest
  <2>3. Continue(a) \/ Continue(rest)
    BY DEF Popping, x
  <2> HIDE DEF a
  <2>4. NoPush(a)
    BY <2>2 DEF a
  <2> QED BY <2>3, <2>4, Calls DEF IInv, PlaceInv
<1> HIDE DEF f
<1>5. outs' = IF CallsOut(f, callFinally) THEN [outs EXCEPT ![f] = @ + 1] ELSE outs
  BY DEF Popping, f
<1>6. outs' \in [Frames -> Nat]
  BY <1>2, <1>5 DEF IInv, TypeInv, TypeOK
<1>7. InPushes' \subseteq InPushes
  BY <1>4 DEF Placed
<1>8. PlaceInv'
  BY <1>1, <1>2, <1>3, <1>4, <1>7 DEF IInv, PlaceInv, Placed
<1>9. CountInv'
  <2>1. ASSUME NEW g \in PlainFrames
        PROVE  /\ outs'[g] <= ins'[g] /\ ins'[g] <= outs'[g] + 1
               /\ g \in InFrames' \cup InPushes' => ins'[g] = outs'[g] + 1
               /\ g \in InWinders' \/ g \notin DOMAIN around' => ins'[g] = outs'[g]
    <3>1. g \in Frames /\ ins[g] \in Nat /\ outs[g] \in Nat /\ ins' = ins /\ around' = around
      BY DEF Frames, IInv, TypeInv, TypeOK
    <3>2. CASE g = f
      <4>1. ins[g] = outs[g] + 1 /\ outs'[g] = outs[g] + 1
        BY <1>1, <1>5, <3>1, <3>2 DEF CallsOut, IInv, CountInv, TypeInv, TypeOK
      <4>2. g \notin InFrames' \cup InPushes'
        BY <1>1, <1>2, <1>7, <3>2
      <4> QED BY <3>1, <4>1, <4>2
    <3>3. CASE g # f
      <4>1. outs'[g] = outs[g]
        BY <1>5, <3>1, <3>3 DEF IInv, TypeInv, TypeOK
      <4>2. /\ g \in InFrames' \cup InPushes' => g \in InFrames \cup InPushes
            /\ g \in InWinders' \/ g \notin DOMAIN around' => g \in InWinders \/ g \notin DOMAIN around
        BY <1>1, <1>3, <1>7, <3>1, <3>3
      <4> QED BY <3>1, <4>1, <4>2 DEF IInv, CountInv
    <3> QED BY <3>2, <3>3
  <2>2. ASSUME NEW g \in FinallyFrames
        PROVE  /\ outs'[g] <= 1
               /\ g \in InFrames' \cup InPushes' \cup InWinders' \/ g \notin DOMAIN around' => outs'[g] = 0
    <3>1. g \in Frames /\ g \notin PlainFrames /\ outs[g] \in Nat /\ around' = around
      BY FramesAssumption DEF Frames, IInv, TypeInv, TypeOK
    <3>2. CASE g = f
      <4>1. outs[g] = 0 /\ outs'[g] = IF callFinally THEN 1 ELSE 0
        BY <1>1, <1>5, <3>1, <3>2 DEF CallsOut, IInv, CountInv, TypeInv, TypeOK
      <4>2. callFinally => g \notin InFrames' \cup InPushes' \cup InWinders'
        BY <1>1, <1>2, <1>3, <1>7, <3>2
      <4> QED BY <1>2, <3>1, <3>2, <4>1, <4>2
    <3>3. CASE g # f
      <4>1. outs'[g] = outs[g]
        BY <1>5, <3>1, <3>3 DEF IInv, TypeInv, TypeOK
      <4>2. g \in InFrames' \cup InPushes' \cup InWinders' \/ g \notin DOMAIN around' =>
              g \in InFrames \cup InPushes \cup InWinders \/ g \notin DOMAIN around
        BY <1>1, <1>3, <1>7, <3>1, <3>3
      <4> QED BY <4>1, <4>2 DEF IInv, CountInv
    <3> QED BY <3>2, <3>3
  <2> QED BY <2>1, <2>2 DEF CountInv
<1> QED BY <1>1, <1>3, <1>4, <1>6, <1>8, <1>9

(* The body of a dynamic-wind has returned.                                 *)
LEMMA BodyEndsStep ==
  ASSUME IInv, BodyEnds, UNCHANGED thrown
  PROVE  IInv'
<1>1. calls[current] # << >> /\ current \in Coroutines
  BY TopIs DEF IInv, BodyEnds
<1>2. frames[current] # << >> /\ Popping(current, TRUE, << >>) /\ UNCHANGED <<around, ins, winders>>
  BY DEF BodyEnds
<1>3. /\ PlaceInv' /\ CountInv' /\ Placed({})
      /\ frames' \in [Coroutines -> Seq(Frames)] /\ outs' \in [Frames -> Nat]
      /\ winders' \in [Winders -> Seq(Entries)]
  BY <1>1, <1>2, NoneIsNoPush, PopIs
<1>4. TypeInv'
  BY <1>3 DEF IInv, TypeInv, TypeOK, BodyEnds, Placed
<1> QED BY <1>3, <1>4 DEF IInv

(* The next frame is wound out, or the next coroutine begun.                *)
LEMMA WindOutStep ==
  ASSUME IInv, WindOut, UNCHANGED thrown
  PROVE  IInv'
<1> DEFINE c == Top.at
           w == Top.winder
<1>1. /\ Top \in Activations /\ Top.op = "wind-out" /\ calls[current] # << >>
      /\ current \in Coroutines /\ c \in Coroutines /\ Top.callFinally \in BOOLEAN
      /\ w = NoWinder \/ w \in Winders
      /\ w = NoWinder <=> Top.callFinally
      /\ \A d \in Coroutines : [Top EXCEPT !.at = d] \in Activations
  BY TopIs, Fields DEF IInv, WindOut
<1>2. CASE frames[c] = << >>
  <2>1. UNCHANGED <<frames, winders, outs>>
    BY <1>2 DEF WindOut
  <2>2. Placed({})
    <3>1. CASE Continue(<< >>)
      BY <1>1, <3>1, NoneIsNoPush, Calls DEF IInv, PlaceInv
    <3>2. CASE parent[c] # None /\ Continue(<<[Top EXCEPT !.at = parent[c]]>>)
      <4> DEFINE x == [Top EXCEPT !.at = parent[c]]
      <4>1. parent[c] \in Coroutines
        BY <1>1, <3>2 DEF IInv, TypeInv, TypeOK
      <4>2. x \in Activations /\ x.op # "push-frame"
        BY <1>1, <4>1 DEF Activations
      <4>3. Continue(<<x>>)
        BY <3>2
      <4> HIDE DEF x
      <4>4. NoPush(<<x>>)
        BY <4>2, Single
      <4> QED BY <1>1, <4>3, <4>4, Calls DEF IInv, PlaceInv
    <3> QED BY <1>2, <3>1, <3>2 DEF WindOut
  <2>3. PlaceInv' /\ CountInv'
    BY <2>1, <2>2, Quiet DEF IInv, WindOut
  <2>4. TypeInv'
    BY <2>1, <2>2 DEF IInv, TypeInv, TypeOK, WindOut, Placed
  <2> QED BY <2>3, <2>4 DEF IInv
<1>3. CASE frames[c] # << >>
  <2>1. /\ Popping(c, Top.callFinally, <<Top>>)
        /\ winders' = IF w = NoWinder THEN winders
                      ELSE Pushed(w, [co |-> c, frame |-> Head(frames[c])])
        /\ UNCHANGED <<around, ins>>
    BY <1>3 DEF WindOut
  <2>2. NoPush(<<Top>>)
    BY <1>1, Single
  <2>3. \/ UNCHANGED winders
        \/ /\ ~Top.callFinally
           /\ \E v \in Winders : winders' = Pushed(v, [co |-> c, frame |-> Head(frames[c])])
    BY <1>1, <2>1
  <2>4. /\ PlaceInv' /\ CountInv' /\ Placed({})
        /\ frames' \in [Coroutines -> Seq(Frames)] /\ outs' \in [Frames -> Nat]
        /\ winders' \in [Winders -> Seq(Entries)]
    BY <1>1, <1>3, <2>1, <2>2, <2>3, PopIs
  <2>5. TypeInv'
    BY <2>4 DEF IInv, TypeInv, TypeOK, WindOut, Placed
  <2> QED BY <2>4, <2>5 DEF IInv
<1> QED BY <1>2, <1>3

-----------------------------------------------------------------------------
(* The invariant of Coroutines.                                             *)
THEOREM CoroutinesInvariant == Spec => []IInv
<1>1. Init => IInv
  <2> SUFFICES ASSUME Init PROVE IInv
    OBVIOUS
  <2>1. TypeOK
    BY BoundsAssumption DEF Init, TypeOK, Coroutines, Main, None, Winders, NoWinder
  <2>2. calls \in [Coroutines -> Seq(Activations)] /\ \A c \in Coroutines : NoPush(calls[c])
    <3> DEFINE x == Body(FALSE)
    <3>1. NoPush(<<x>>)
      BY Single DEF Activations, Body
    <3> HIDE DEF x
    <3>2. calls = [c \in Coroutines |-> IF c = Main THEN <<x>> ELSE << >>]
      BY DEF Init, x
    <3>3. \A c \in Coroutines : NoPush(calls[c])
      BY <3>1, <3>2, NoneIsNoPush
    <3> QED BY <3>2, <3>3 DEF NoPush
  <2>3. /\ winders = [w \in Winders |-> << >>] /\ frames = [c \in Coroutines |-> << >>]
        /\ << >> \in Seq(Entries) /\ DOMAIN << >> = {}
    BY DEF Init
  <2>4. TypeInv
    BY <2>1, <2>2, <2>3 DEF TypeInv
  <2>5. InFrames = {} /\ InPushes = {} /\ InWinders = {}
    BY <2>2, <2>3 DEF InFrames, InPushes, InWinders, NoPush
  <2>6. PlaceInv
    BY <2>2, <2>3, <2>5 DEF PlaceInv, FramesOnce, PushesOnce, WindersOnce, NoPush
  <2>7. CountInv
    BY <2>5 DEF CountInv, Init, Frames
  <2> QED BY <2>4, <2>6, <2>7 DEF IInv
<1>2. IInv /\ [Next]_vars => IInv'
  <2> SUFFICES ASSUME IInv, [Next]_vars PROVE IInv'
    OBVIOUS
  <2>1. CASE UNCHANGED vars
    <3>1. Placed({})
      BY <2>1 DEF IInv, TypeInv, PlaceInv, Placed, PushesOnce, InPushes, vars
    <3>2. PlaceInv' /\ CountInv'
      BY <2>1, <3>1, Quiet DEF IInv, vars
    <3>3. TypeInv'
      BY <2>1 DEF IInv, TypeInv, TypeOK, vars
    <3> QED BY <3>2, <3>3 DEF IInv
  <2>2. CASE Program
    BY <2>2, ReturnStep, CreateStep, ResumeStep, SuspendStep, BreakStep, CloseStep, CollectStep,
       DynamicWindStep DEF Program
  <2>3. CASE Runtime /\ UNCHANGED thrown
    BY <2>3, PushFrameStep, BodyEndsStep, WindOutStep, SuspendedStep, ReattachedStep, WindInStep,
       ResumedStep, CoroutineEndsStep, BrokenStep, WindInOutStep, ClosedStep DEF Runtime
  <2> QED BY <2>1, <2>2, <2>3 DEF Next
<1> QED BY <1>1, <1>2, PTL DEF Spec

(* The types of the state: a coroutine that runs, links between coroutines. *)
THEOREM CoroutinesTypes == Spec => []TypeOK
<1>1. IInv => TypeOK
  BY DEF IInv, TypeInv
<1> QED BY <1>1, CoroutinesInvariant, PTL

(* The in and the out thunk of a frame are called in turn, whatever thunks  *)
(* do: a coroutine that is broken out of, closed or dropped while it winds  *)
(* loses calls, but none is made twice or out of turn.                      *)
THEOREM ThunksInTurn == Spec => []InThenOut
<1>1. IInv => InThenOut
  BY DEF IInv, CountInv, InThenOut
<1> QED BY <1>1, CoroutinesInvariant, PTL

(* No finally block is called twice: not by the coroutine and by its close, *)
(* nor by its close and by its finalizer.                                   *)
THEOREM FinallyBlocksOnce == Spec => []FinallyOnce
<1>1. IInv => FinallyOnce
  BY DEF IInv, CountInv, FinallyOnce
<1> QED BY <1>1, CoroutinesInvariant, PTL

-----------------------------------------------------------------------------
(* No coroutine is its own ancestor: links lead to smaller ranks.           *)
LinkType == parent \in [Coroutines -> Coroutines \cup {None}]
Down(rank) == \A c \in Coroutines : parent[c] # None => rank[parent[c]] < rank[c]
Ranked == \E B \in Nat : \E rank \in [Coroutines -> 0 .. B] : Down(rank)

(* None is no coroutine.                                                    *)
LEMMA NoneIs == None \notin Coroutines /\ Coroutines \subseteq Nat
  BY BoundsAssumption DEF None, Coroutines

(* How many numbers there are up to n.                                      *)
LEMMA UpTo ==
  ASSUME NEW n \in Nat
  PROVE  IsFiniteSet(1 .. n) /\ Cardinality(1 .. n) = n
  BY FS_Interval

(* Of some coroutines one has the greatest rank.                            *)
LEMMA Greatest ==
  ASSUME NEW B \in Nat, NEW rank \in [Coroutines -> 0 .. B],
         NEW S, S \subseteq Coroutines, S # {}
  PROVE  \E m \in S : \A d \in S : rank[d] <= rank[m]
<1> DEFINE Rest0 == {B - rank[d] : d \in S}
<1>1. Rest0 \subseteq Nat /\ Rest0 # {}
  OBVIOUS
<1>2. PICK k \in Rest0 : \A j \in Rest0 : k <= j
  BY <1>1, LeastOf
<1>3. PICK m \in S : k = B - rank[m]
  BY <1>2
<1>4. ASSUME NEW d \in S PROVE rank[d] <= rank[m]
  <2>1. B - rank[m] <= B - rank[d]
    BY <1>2, <1>3
  <2>2. rank[m] \in 0 .. B /\ rank[d] \in 0 .. B
    OBVIOUS
  <2> QED BY <2>1, <2>2
<1> QED BY <1>4

(* Along a chain the rank goes down.                                        *)
LEMMA ChainDown ==
  ASSUME LinkType, NEW c \in Coroutines, NEW B \in Nat,
         NEW rank \in [Coroutines -> 0 .. B], Down(rank),
         NEW i \in 1 .. Len(ChainFrom(c)), NEW j \in 1 .. Len(ChainFrom(c)), i < j
  PROVE  rank[ChainFrom(c)[j]] < rank[ChainFrom(c)[i]]
<1> DEFINE ch == ChainFrom(c)
           L == Len(ch)
           Wrong == {k \in Nat : i < k /\ k <= L /\ ~(rank[ch[k]] < rank[ch[i]])}
<1>1. /\ ch \in Seq(Coroutines) /\ L \in Nat
      /\ \A k \in 1 .. L - 1 : ch[k + 1] = parent[ch[k]]
  BY ChainIs, LenProperties DEF LinkType
<1>2. \A k \in 1 .. L : ch[k] \in Coroutines
  BY <1>1, ElementOfSeq
<1> HIDE DEF ch
<1>3. \A k \in 1 .. L - 1 : rank[ch[k + 1]] < rank[ch[k]]
  <2> TAKE k \in 1 .. L - 1
  <2>1. k \in 1 .. L /\ k + 1 \in 1 .. L
    BY <1>1
  <2>2. ch[k] \in Coroutines /\ ch[k + 1] \in Coroutines /\ ch[k + 1] = parent[ch[k]]
    BY <1>1, <1>2, <2>1
  <2> QED BY <2>2, NoneIs DEF Down
<1>4. \A k \in 1 .. L : rank[ch[k]] \in Nat
  BY <1>2
<1> HIDE DEF L
<1>5. ASSUME Wrong # {} PROVE FALSE
  <2>1. PICK m \in Wrong : \A k \in Wrong : m <= k
    BY <1>5, LeastOf
  <2>2. m \in Nat /\ i < m /\ m <= L /\ ~(rank[ch[m]] < rank[ch[i]])
    BY <2>1
  <2>3. i \in 1 .. L /\ L \in Nat
    BY <1>1 DEF L, ch
  <2>4. m - 1 \in 1 .. L - 1 /\ m - 1 + 1 = m /\ m - 1 \in 1 .. L /\ m \in 1 .. L /\ m - 1 \in Nat
    BY <2>2, <2>3
  <2>5. rank[ch[m]] < rank[ch[m - 1]]
    BY <1>3, <2>4
  <2>6. m - 1 \notin Wrong
    BY <2>1, <2>4
  <2>7. m - 1 = i \/ rank[ch[m - 1]] < rank[ch[i]]
    BY <2>2, <2>3, <2>4, <2>6
  <2>8. rank[ch[m]] \in Nat /\ rank[ch[m - 1]] \in Nat /\ rank[ch[i]] \in Nat
    BY <1>4, <2>3, <2>4
  <2> QED BY <2>2, <2>5, <2>7, <2>8
<1>6. j \in Nat /\ i < j /\ j <= L /\ j \notin Wrong
  BY <1>1, <1>5 DEF L, ch
<1> QED BY <1>6 DEF ch

(* Therefore it is followed to the end.                                     *)
LEMMA ChainEnds ==
  ASSUME LinkType, Ranked, NEW c \in Coroutines
  PROVE  parent[ChainFrom(c)[Len(ChainFrom(c))]] = None
<1> DEFINE ch == ChainFrom(c)
           L == Len(ch)
           p == parent[ch[L]]
<1>1. /\ ch \in Seq(Coroutines) /\ L \in 1 .. MaxCoroutines + 1
      /\ L <= MaxCoroutines => p = None
  BY ChainIs, LenProperties DEF LinkType
<1>2. \A k \in 1 .. L : ch[k] \in Coroutines
  BY <1>1, ElementOfSeq
<1>3. PICK B \in Nat : \E rank \in [Coroutines -> 0 .. B] : Down(rank)
  BY DEF Ranked
<1>4. PICK rank \in [Coroutines -> 0 .. B] : Down(rank)
  BY <1>3
<1>5. \A i, j \in 1 .. L : i < j => rank[ch[j]] < rank[ch[i]]
  BY <1>4, ChainDown
<1>6. L \in 1 .. L /\ ch[L] \in Coroutines
  BY <1>1, <1>2, BoundsAssumption
<1>7. p # None => p \in Coroutines /\ rank[p] < rank[ch[L]]
  BY <1>4, <1>6 DEF LinkType, Down
<1>8. \A d \in Coroutines : rank[d] \in Nat
  BY <1>4
<1> HIDE DEF ch, L, p
<1>9. ASSUME p # None PROVE FALSE
  <2>1. L = MaxCoroutines + 1
    BY <1>1, <1>9, BoundsAssumption
  <2> DEFINE f == [i \in 1 .. L + 1 |-> IF i <= L THEN ch[i] ELSE p]
  <2>2. f \in [1 .. L + 1 -> Coroutines]
    <3>1. \A i \in 1 .. L + 1 : i <= L => i \in 1 .. L
      BY <1>1, BoundsAssumption
    <3> QED BY <1>2, <1>7, <1>9, <3>1
  <2>3. IsFiniteSet(1 .. L + 1) /\ Cardinality(1 .. L + 1) = L + 1
    <3>1. L + 1 \in Nat
      BY <2>1, BoundsAssumption
    <3> QED BY <3>1, UpTo
  <2>4. IsFiniteSet(Coroutines) /\ Cardinality(Coroutines) = L
    <3>1. 0 \in Int /\ MaxCoroutines \in Int
      BY BoundsAssumption
    <3> QED BY <2>1, <3>1, FS_Interval, BoundsAssumption DEF Coroutines
  <2>5. Cardinality(Coroutines) < Cardinality(1 .. L + 1)
    BY <2>1, <2>3, <2>4, BoundsAssumption
  <2>6. \E x, y \in 1 .. L + 1 : x # y /\ f[x] = f[y]
    <3> DEFINE S == 1 .. L + 1
    <3>1. /\ IsFiniteSet(S) /\ IsFiniteSet(Coroutines) /\ Cardinality(Coroutines) < Cardinality(S)
          /\ f \in [S -> Coroutines]
      BY <2>2, <2>3, <2>4, <2>5
    <3> HIDE DEF f, S
    <3>2. \E x, y \in S : x # y /\ f[x] = f[y]
      BY <3>1, FS_PigeonHole
    <3> QED BY <3>2 DEF S
  <2>7. \A i, j \in 1 .. L + 1 : i < j => rank[f[j]] < rank[f[i]]
    <3> TAKE i, j \in 1 .. L + 1
    <3> HAVE i < j
    <3>1. i \in 1 .. L /\ f[i] = ch[i] /\ i \in Nat /\ j \in Nat /\ L \in Nat
      BY <2>1, BoundsAssumption
    <3>2. CASE j <= L
      <4>1. j \in 1 .. L /\ f[j] = ch[j]
        BY <3>1, <3>2
      <4> QED BY <1>5, <3>1, <4>1
    <3>3. CASE ~(j <= L)
      <4>1. f[j] = p
        BY <3>3
      <4>2. i < L \/ i = L
        BY <3>1
      <4>3. i < L => rank[ch[L]] < rank[ch[i]]
        BY <1>5, <1>6, <3>1
      <4>4. rank[ch[i]] \in Nat /\ rank[ch[L]] \in Nat /\ rank[p] \in Nat
        BY <1>2, <1>6, <1>7, <1>8, <1>9, <3>1
      <4> HIDE DEF f
      <4> QED BY <1>7, <1>9, <3>1, <4>1, <4>2, <4>3, <4>4
    <3> QED BY <3>2, <3>3
  <2>8. \A i \in 1 .. L + 1 : rank[f[i]] \in Nat
    BY <1>8, <2>2
  <2> HIDE DEF f
  <2>9. PICK x, y \in 1 .. L + 1 : x # y /\ f[x] = f[y]
    BY <2>6
  <2>10. x < y \/ y < x
    BY <2>9
  <2> QED BY <2>7, <2>8, <2>9, <2>10
<1> QED BY <1>9 DEF p, L, ch

(* The coroutines of a chain: the least set that holds the first and        *)
(* follows links; all but the first are behind one of it.                   *)
LEMMA ChainSet ==
  ASSUME LinkType, Ranked, NEW c \in Coroutines
  PROVE  /\ ToSet(ChainFrom(c)) \subseteq Coroutines /\ c \in ToSet(ChainFrom(c))
         /\ \A d \in ToSet(ChainFrom(c)) : parent[d] # None => parent[d] \in ToSet(ChainFrom(c))
         /\ \A S : c \in S /\ (\A d \in S : parent[d] # None => parent[d] \in S)
                  => ToSet(ChainFrom(c)) \subseteq S
         /\ \A d \in ToSet(ChainFrom(c)) : d # c => \E e \in ToSet(ChainFrom(c)) : parent[e] = d
         /\ Last(ChainFrom(c)) \in ToSet(ChainFrom(c)) /\ parent[Last(ChainFrom(c))] = None
         /\ \A d \in ToSet(ChainFrom(c)) : parent[d] = None => d = Last(ChainFrom(c))
<1> DEFINE ch == ChainFrom(c)
           L == Len(ch)
           T == {ch[i] : i \in 1 .. L}
<1>1. /\ ch \in Seq(Coroutines) /\ L \in 1 .. MaxCoroutines + 1 /\ ch[1] = c
      /\ \A k \in 1 .. L - 1 : ch[k + 1] = parent[ch[k]]
  BY ChainIs DEF LinkType
<1>2. DOMAIN ch = 1 .. L /\ L \in Nat /\ L >= 1
  BY <1>1, LenProperties
<1>3. ToSet(ch) = T
  BY <1>2 DEF ToSet
<1>4. \A k \in 1 .. L : ch[k] \in Coroutines
  BY <1>1, ElementOfSeq
<1>5. parent[ch[L]] = None
  BY ChainEnds
<1>6. Last(ch) = ch[L]
  BY DEF Last
<1> HIDE DEF ch, L
<1>7. T \subseteq Coroutines /\ c \in T /\ Last(ch) \in T /\ parent[Last(ch)] = None
  <2>1. 1 \in 1 .. L /\ L \in 1 .. L
    BY <1>2
  <2> QED BY <1>1, <1>4, <1>5, <1>6, <2>1
<1>8. ASSUME NEW d \in T
      PROVE  /\ parent[d] # None => parent[d] \in T
             /\ parent[d] = None => d = Last(ch)
  <2>1. PICK i \in 1 .. L : d = ch[i]
    OBVIOUS
  <2>2. CASE i = L
    BY <1>5, <1>6, <2>1, <2>2
  <2>3. CASE i # L
    <3>1. i \in 1 .. L - 1 /\ i + 1 \in 1 .. L
      BY <1>2, <2>3
    <3>2. parent[d] = ch[i + 1] /\ ch[i + 1] \in Coroutines
      BY <1>1, <1>4, <2>1, <3>1
    <3> QED BY <3>1, <3>2, NoneIs
  <2> QED BY <2>2, <2>3
<1>9. ASSUME NEW d \in T, d # c
      PROVE  \E e \in T : parent[e] = d
  <2>1. PICK i \in 1 .. L : d = ch[i]
    OBVIOUS
  <2>2. i # 1
    BY <1>1, <1>9, <2>1
  <2>3. i - 1 \in 1 .. L - 1 /\ i - 1 + 1 = i /\ i - 1 \in 1 .. L
    BY <1>2, <2>2
  <2>4. d = parent[ch[i - 1]] /\ ch[i - 1] \in T
    BY <1>1, <2>1, <2>3
  <2> QED BY <2>4
<1>10. ASSUME NEW S, c \in S, \A d \in S : parent[d] # None => parent[d] \in S
       PROVE  T \subseteq S
  <2> DEFINE Wrong == {k \in Nat : k \in 1 .. L /\ ch[k] \notin S}
  <2>1. ASSUME Wrong # {} PROVE FALSE
    <3>1. PICK m \in Wrong : \A k \in Wrong : m <= k
      BY <2>1, LeastOf
    <3>2. m \in 1 .. L /\ ch[m] \notin S
      BY <3>1
    <3>3. m # 1
      BY <1>1, <1>10, <3>2
    <3>4. m - 1 \in 1 .. L - 1 /\ m - 1 + 1 = m /\ m - 1 \in 1 .. L /\ m - 1 \in Nat /\ ~(m <= m - 1)
      BY <1>2, <3>2, <3>3
    <3>5. m - 1 \notin Wrong
      BY <3>1, <3>4
    <3>6. ch[m - 1] \in S
      BY <3>4, <3>5
    <3>7. ch[m] = parent[ch[m - 1]] /\ ch[m] \in Coroutines
      BY <1>1, <1>4, <3>2, <3>4
    <3> QED BY <1>10, <3>2, <3>6, <3>7, NoneIs
  <2>2. \A k \in 1 .. L : k \in Nat
    OBVIOUS
  <2> QED BY <2>1, <2>2
<1> HIDE DEF T
<1>11. /\ T \subseteq Coroutines /\ c \in T
       /\ \A d \in T : parent[d] # None => parent[d] \in T
       /\ \A S : c \in S /\ (\A d \in S : parent[d] # None => parent[d] \in S) => T \subseteq S
       /\ \A d \in T : d # c => \E e \in T : parent[e] = d
       /\ Last(ch) \in T /\ parent[Last(ch)] = None
       /\ \A d \in T : parent[d] = None => d = Last(ch)
  BY <1>7, <1>8, <1>9, <1>10
<1> QED BY <1>3, <1>11, Zenon DEF ch

(* The links of a chain that nothing leads to, turned round.                *)
LEMMA RelinkSet ==
  ASSUME NEW chain \in Seq(Coroutines), chain # << >>, NEW first, NEW links,
         \A i \in 1 .. Len(chain) - 1 : chain[i + 1] = parent[chain[i]],
         \A d \in Coroutines : parent[d] # chain[1],
         links = Relinked(chain, first)
  PROVE  /\ \A d \in Coroutines \ ToSet(chain) : links[d] = parent[d]
         /\ chain[1] \in ToSet(chain) /\ links[chain[1]] = first
         /\ \A d \in ToSet(chain) \ {chain[1]} : links[d] \in ToSet(chain) /\ parent[links[d]] = d
<1>1. DOMAIN chain = 1 .. Len(chain) /\ Len(chain) \in Nat /\ Len(chain) >= 1
  BY LenProperties, EmptySeq
<1>2. \A k \in 1 .. Len(chain) : chain[k] \in Coroutines /\ chain[k] \in ToSet(chain)
  BY <1>1, ElementOfSeq DEF ToSet
<1>3. ToSet(chain) = {chain[k] : k \in 1 .. Len(chain)}
  BY <1>1 DEF ToSet
<1>4. 1 \in 1 .. Len(chain)
  BY <1>1
<1> DEFINE At(d) == CHOOSE i \in DOMAIN chain : chain[i] = d
<1>5. ASSUME NEW d \in ToSet(chain)
      PROVE  /\ links[d] = IF At(d) = 1 THEN first ELSE chain[At(d) - 1]
             /\ At(d) \in 1 .. Len(chain) /\ chain[At(d)] = d
  <2>1. d \in Coroutines
    BY <1>2, <1>3
  <2>2. links[d] = IF At(d) = 1 THEN first ELSE chain[At(d) - 1]
    BY <1>5, <2>1 DEF Relinked
  <2>3. \E i \in DOMAIN chain : chain[i] = d
    BY <1>1, <1>3
  <2> QED BY <1>1, <2>2, <2>3
<1> HIDE DEF At
<1>6. ASSUME NEW d \in ToSet(chain), At(d) # 1
      PROVE  links[d] \in ToSet(chain) /\ parent[links[d]] = d
  <2>1. At(d) \in 1 .. Len(chain) /\ chain[At(d)] = d /\ links[d] = chain[At(d) - 1]
    BY <1>5, <1>6
  <2>2. At(d) - 1 \in 1 .. Len(chain) - 1 /\ At(d) - 1 + 1 = At(d) /\ At(d) - 1 \in 1 .. Len(chain)
    BY <1>1, <1>6, <2>1
  <2> QED BY <1>2, <2>1, <2>2
<1>7. \A d \in ToSet(chain) \ {chain[1]} : At(d) # 1
  BY <1>5
<1>8. links[chain[1]] = first /\ chain[1] \in ToSet(chain)
  <2>1. chain[1] \in ToSet(chain)
    BY <1>2, <1>4
  <2>2. At(chain[1]) = 1
    <3>1. ASSUME At(chain[1]) # 1 PROVE FALSE
      BY <1>2, <1>3, <1>6, <2>1, <3>1
    <3> QED BY <3>1
  <2> QED BY <1>5, <2>1, <2>2
<1>9. \A d \in Coroutines \ ToSet(chain) : links[d] = parent[d]
  BY DEF Relinked
<1> QED BY <1>6, <1>7, <1>8, <1>9

(* The part of a chain up to one of its coroutines.                         *)
LEMMA ChainToSet ==
  ASSUME LinkType, Ranked, NEW c \in Coroutines, NEW t, Reaches(c, t)
  PROVE  /\ ChainTo(c, t) \in Seq(Coroutines) /\ ChainTo(c, t) # << >>
         /\ ChainTo(c, t)[1] = c
         /\ \A i \in 1 .. Len(ChainTo(c, t)) - 1 : ChainTo(c, t)[i + 1] = parent[ChainTo(c, t)[i]]
         /\ ToSet(ChainTo(c, t)) \subseteq ToSet(ChainFrom(c))
         /\ t \in ToSet(ChainTo(c, t)) /\ parent[t] \notin ToSet(ChainTo(c, t))
         /\ \A d \in ToSet(ChainTo(c, t)) \ {t} : parent[d] \in ToSet(ChainTo(c, t))
<1> DEFINE ch == ChainFrom(c)
           L == Len(ch)
           n == CHOOSE i \in DOMAIN ch : ch[i] = t
           to == SubSeq(ch, 1, n)
<1>1. /\ ch \in Seq(Coroutines) /\ L \in 1 .. MaxCoroutines + 1 /\ ch[1] = c
      /\ \A k \in 1 .. L - 1 : ch[k + 1] = parent[ch[k]]
  BY ChainIs DEF LinkType
<1>2. DOMAIN ch = 1 .. L /\ L \in Nat /\ L >= 1
  BY <1>1, LenProperties
<1>3. n \in 1 .. L /\ ch[n] = t
  <2>1. \E i \in DOMAIN ch : ch[i] = t
    BY DEF Reaches, ToSet
  <2> QED BY <1>2, <2>1
<1>4. ChainTo(c, t) = to
  BY Zenon DEF ChainTo
<1>5. PICK B \in Nat : \E rank \in [Coroutines -> 0 .. B] : Down(rank)
  BY DEF Ranked
<1>6. PICK rank \in [Coroutines -> 0 .. B] : Down(rank)
  BY <1>5
<1>7. \A i, j \in 1 .. L : i < j => rank[ch[j]] < rank[ch[i]]
  BY <1>6, ChainDown
<1>8. \A k \in 1 .. L : ch[k] \in Coroutines /\ rank[ch[k]] \in Nat
  BY <1>1, <1>6, ElementOfSeq
<1> HIDE DEF ch, L, n
<1>9. /\ to \in Seq(Coroutines) /\ Len(to) = n /\ n \in Nat /\ n >= 1
      /\ \A k \in 1 .. n : to[k] = ch[k] /\ k \in 1 .. L
  BY <1>1, <1>2, <1>3
<1> HIDE DEF to
<1>10. ToSet(to) = {ch[k] : k \in 1 .. n}
  <2>1. DOMAIN to = 1 .. n
    BY <1>9, LenProperties
  <2> QED BY <1>9, <2>1 DEF ToSet
<1>11. to # << >> /\ to[1] = c
  <2>1. 1 \in 1 .. n
    BY <1>9
  <2> QED BY <1>1, <1>9, <2>1, EmptySeq
<1>12. ASSUME NEW i \in 1 .. Len(to) - 1
       PROVE  to[i + 1] = parent[to[i]]
  <2>1. i \in 1 .. n /\ i + 1 \in 1 .. n /\ i \in 1 .. L - 1
    BY <1>2, <1>3, <1>9
  <2> QED BY <1>1, <1>9, <2>1
<1>13. ToSet(to) \subseteq ToSet(ch)
  BY <1>2, <1>9, <1>10 DEF ToSet
<1>14. t \in ToSet(to)
  <2>1. n \in 1 .. n
    BY <1>9
  <2> QED BY <1>3, <1>10, <2>1
<1>15. parent[t] \notin ToSet(to)
  <2>1. ASSUME parent[t] \in ToSet(to) PROVE FALSE
    <3>1. PICK k \in 1 .. n : parent[t] = ch[k]
      BY <1>10, <2>1
    <3>2. k \in 1 .. L /\ ch[k] \in Coroutines /\ t \in Coroutines
      BY <1>3, <1>8, <1>9
    <3>3. rank[ch[k]] < rank[t]
      BY <1>6, <3>1, <3>2, NoneIs DEF Down
    <3>4. k = n \/ k < n
      BY <1>9
    <3>5. k = n \/ rank[t] < rank[ch[k]]
      BY <1>3, <1>7, <3>2, <3>4
    <3>6. rank[t] \in Nat /\ rank[ch[k]] \in Nat
      BY <1>3, <1>8, <3>2
    <3> QED BY <1>3, <3>3, <3>5, <3>6
  <2> QED BY <2>1
<1>16. ASSUME NEW d \in ToSet(to) \ {t}
       PROVE  parent[d] \in ToSet(to)
  <2>1. PICK k \in 1 .. n : d = ch[k]
    BY <1>10
  <2>2. k # n
    BY <1>3, <1>16, <2>1
  <2>3. k \in 1 .. L - 1 /\ k + 1 \in 1 .. n
    BY <1>2, <1>3, <1>9, <2>2
  <2>4. parent[d] = ch[k + 1]
    BY <1>1, <2>1, <2>3
  <2> QED BY <1>10, <2>3, <2>4
<1>17. /\ to \in Seq(Coroutines) /\ to # << >> /\ to[1] = c
       /\ \A i \in 1 .. Len(to) - 1 : to[i + 1] = parent[to[i]]
       /\ ToSet(to) \subseteq ToSet(ch)
       /\ t \in ToSet(to) /\ parent[t] \notin ToSet(to)
       /\ \A d \in ToSet(to) \ {t} : parent[d] \in ToSet(to)
  BY <1>9, <1>11, <1>12, <1>13, <1>14, <1>15, <1>16
<1> QED BY <1>4, <1>17, Zenon DEF ch

-----------------------------------------------------------------------------
(* How coroutines are linked: without circles, no two with the same one     *)
(* behind them; the active ones with the running one in front, and the      *)
(* suspended ones each behind one that is not active.                       *)
OneInFront == \A c, d \in Coroutines : parent[c] = parent[d] /\ parent[c] # None => c = d
StatusInv ==
  /\ parent[Main] = None /\ status[Main] = "active" /\ status[current] = "active"
  /\ \A c \in Coroutines :
       /\ parent[c] # current
       /\ status[c] = "active" /\ c # Main => parent[c] # None /\ status[parent[c]] = "active"
       /\ status[c] # "active" /\ parent[c] # None =>
            status[c] # "unborn" /\ status[parent[c]] = "suspended"
       /\ status[c] \in {"active", "suspended"} /\ c # current => \E d \in Coroutines : parent[d] = c
LinkInv == Ranked /\ OneInFront /\ StatusInv

(* What attaching does to the links: those of T, the chain of c, are turned *)
(* round, with c in front of the coroutine that ran.                        *)
Attached(c, T) ==
  /\ T \subseteq Coroutines /\ c \in T /\ current' \in T /\ parent[current'] = None
  /\ \A d \in T : status[d] # "active" /\ status'[d] = "active"
  /\ \A d \in T : parent[d] # None => parent[d] \in T
  /\ \A d \in T \ {current'} : parent[d] # None
  /\ \A d \in Coroutines \ T : status'[d] = status[d] /\ parent'[d] = parent[d] /\ parent[d] \notin T
  /\ parent'[c] = current
  /\ \A d \in T \ {c} : parent'[d] \in T /\ parent[parent'[d]] = d

(* The same of detaching: T is the chain from the running coroutine to c.   *)
Detached(c, T) ==
  /\ T \subseteq Coroutines /\ c \in T /\ current \in T
  /\ parent[c] # None /\ parent[c] \notin T /\ current' = parent[c]
  /\ \A d \in T : status[d] = "active"
  /\ \A d \in T \ {c} : parent[d] \in T /\ status'[d] = "suspended"
  /\ status'[c] \in {"open", "closed"}
  /\ \A d \in Coroutines \ T : status'[d] = status[d] /\ parent'[d] = parent[d] /\ parent[d] \notin T \ {current}
  /\ parent'[current] = None
  /\ \A d \in T \ {current} : parent'[d] \in T /\ parent[parent'[d]] = d

(* And of freeing the chain T of a coroutine c that nothing leads to.       *)
Dropped(c, T) ==
  /\ T \subseteq Coroutines /\ c \in T
  /\ \A d \in T : status[d] # "active" /\ status'[d] = "closed" /\ parent'[d] = None /\ calls'[d] = << >>
  /\ \A d \in T : parent[d] # None => parent[d] \in T
  /\ \A d \in Coroutines \ T : status'[d] = status[d] /\ parent'[d] = parent[d] /\ parent[d] \notin T

(* A coroutine that is open or closed is in front of its chain, which is    *)
(* not active, and of which nothing else is in front.                       *)
LEMMA InFront ==
  ASSUME TypeInv, LinkInv, NEW c \in Coroutines, status[c] \in {"open", "closed"}
  PROVE  /\ \A d \in Coroutines : parent[d] # c
         /\ \A d \in ToSet(ChainFrom(c)) : status[d] # "active"
         /\ \A d \in Coroutines \ ToSet(ChainFrom(c)) : parent[d] \notin ToSet(ChainFrom(c))
<1> DEFINE T == ToSet(ChainFrom(c))
<1>1. LinkType /\ Ranked
  BY DEF TypeInv, TypeOK, LinkType, LinkInv
<1>2. /\ T \subseteq Coroutines /\ c \in T
      /\ \A S : c \in S /\ (\A d \in S : parent[d] # None => parent[d] \in S) => T \subseteq S
      /\ \A d \in T : d # c => \E e \in T : parent[e] = d
  BY <1>1, ChainSet
<1>3. ASSUME NEW d \in Coroutines PROVE parent[d] # c
  <2>1. CASE status[d] = "active"
    <3>1. d = Main \/ status[parent[d]] = "active"
      BY <2>1 DEF LinkInv, StatusInv
    <3>2. d = Main => parent[d] = None
      BY DEF LinkInv, StatusInv
    <3> QED BY <3>1, <3>2, NoneIs
  <2>2. CASE status[d] # "active"
    BY <2>2, NoneIs DEF LinkInv, StatusInv
  <2> QED BY <2>1, <2>2
<1>4. \A d \in T : status[d] # "active"
  <2> DEFINE S == {d \in Coroutines : status[d] # "active"}
  <2>1. ASSUME NEW d \in S, parent[d] # None PROVE parent[d] \in S
    <3>1. parent[d] \in Coroutines
      BY <1>1, <2>1 DEF LinkType
    <3> QED BY <2>1, <3>1 DEF LinkInv, StatusInv
  <2>2. c \in S
    OBVIOUS
  <2> HIDE DEF S
  <2>3. T \subseteq S
    BY <1>2, <2>1, <2>2
  <2> QED BY <2>3 DEF S
<1>5. ASSUME NEW d \in Coroutines \ T PROVE parent[d] \notin T
  <2>1. ASSUME parent[d] \in T PROVE FALSE
    <3>1. PICK e \in T : parent[e] = parent[d]
      BY <1>2, <1>3, <2>1
    <3>2. parent[d] # None
      BY <1>2, <2>1, NoneIs
    <3>3. e = d
      BY <1>2, <3>1, <3>2 DEF LinkInv, OneInFront
    <3> QED BY <3>3
  <2> QED BY <2>1
<1> QED BY <1>3, <1>4, <1>5

(* The step Attach.                                                         *)
LEMMA AttachedIs ==
  ASSUME TypeInv, LinkInv, NEW c \in Coroutines, status[c] = "open", Attach(c)
  PROVE  Attached(c, ToSet(ChainFrom(c)))
<1> DEFINE ch == ChainFrom(c)
           T == ToSet(ch)
<1>1. LinkType /\ Ranked
  BY DEF TypeInv, TypeOK, LinkType, LinkInv
<1>2. /\ ch \in Seq(Coroutines) /\ ch # << >> /\ ch[1] = c
      /\ \A i \in 1 .. Len(ch) - 1 : ch[i + 1] = parent[ch[i]]
  BY <1>1, ChainIs DEF LinkType
<1>3. /\ T \subseteq Coroutines /\ c \in T
      /\ \A d \in T : parent[d] # None => parent[d] \in T
      /\ Last(ch) \in T /\ parent[Last(ch)] = None
      /\ \A d \in T : parent[d] = None => d = Last(ch)
  BY <1>1, ChainSet
<1>4. /\ \A d \in Coroutines : parent[d] # c
      /\ \A d \in T : status[d] # "active"
      /\ \A d \in Coroutines \ T : parent[d] \notin T
  BY InFront
<1>5. /\ parent' = Relinked(ch, current)
      /\ status' = [d \in Coroutines |-> IF d \in T THEN "active" ELSE status[d]]
      /\ current' = Last(ch)
  BY DEF Attach
<1> HIDE DEF ch
<1>6. /\ \A d \in Coroutines \ T : parent'[d] = parent[d]
      /\ parent'[c] = current
      /\ \A d \in T \ {c} : parent'[d] \in T /\ parent[parent'[d]] = d
  BY <1>2, <1>4, <1>5, RelinkSet
<1> HIDE DEF T
<1>7. Attached(c, T)
  BY <1>3, <1>4, <1>5, <1>6 DEF Attached
<1> QED BY <1>7 DEF T, ch

(* The step Detach.                                                         *)
LEMMA DetachedIs ==
  ASSUME TypeInv, LinkInv, NEW c \in Coroutines, NEW detached \in {"open", "closed"},
         Reaches(current, c), Detach(c, detached)
  PROVE  Detached(c, ToSet(ChainTo(current, c))) /\ status'[c] = detached
<1> DEFINE ch == ChainTo(current, c)
           T == ToSet(ch)
           A == ToSet(ChainFrom(current))
<1>1. LinkType /\ Ranked /\ current \in Coroutines
  BY DEF TypeInv, TypeOK, LinkType, LinkInv
<1>2. /\ ch \in Seq(Coroutines) /\ ch # << >> /\ ch[1] = current
      /\ \A i \in 1 .. Len(ch) - 1 : ch[i + 1] = parent[ch[i]]
      /\ T \subseteq A /\ c \in T /\ parent[c] \notin T
      /\ \A d \in T \ {c} : parent[d] \in T
  BY <1>1, ChainToSet
<1>3. /\ A \subseteq Coroutines
      /\ \A S : current \in S /\ (\A d \in S : parent[d] # None => parent[d] \in S) => A \subseteq S
  BY <1>1, ChainSet
<1>4. \A d \in A : status[d] = "active"
  <2> DEFINE S == {d \in Coroutines : status[d] = "active"}
  <2>1. ASSUME NEW d \in S, parent[d] # None PROVE parent[d] \in S
    <3>1. parent[d] \in Coroutines /\ d # Main
      BY <1>1, <2>1 DEF LinkType, LinkInv, StatusInv
    <3> QED BY <2>1, <3>1 DEF LinkInv, StatusInv
  <2>2. current \in S
    BY <1>1 DEF LinkInv, StatusInv
  <2> HIDE DEF S
  <2>3. A \subseteq S
    BY <1>3, <2>1, <2>2
  <2> QED BY <2>3 DEF S
<1>5. /\ parent[c] # None /\ parent' = Relinked(ch, None) /\ current' = parent[c]
      /\ status' = [d \in Coroutines |-> IF d = c THEN detached
                                         ELSE IF d \in T THEN "suspended" ELSE status[d]]
  BY DEF Detach
<1>6. \A d \in Coroutines : parent[d] # current
  BY DEF LinkInv, StatusInv
<1> HIDE DEF ch, A
<1>7. /\ \A d \in Coroutines \ T : parent'[d] = parent[d]
      /\ current \in T /\ parent'[current] = None
      /\ \A d \in T \ {current} : parent'[d] \in T /\ parent[parent'[d]] = d
  BY <1>2, <1>5, <1>6, RelinkSet
<1> HIDE DEF T
<1>8. T \subseteq Coroutines /\ \A d \in T : status[d] = "active"
  BY <1>2, <1>3, <1>4
<1>9. ASSUME NEW d \in Coroutines \ T PROVE parent[d] \notin T \ {current}
  <2>1. ASSUME parent[d] \in T \ {current} PROVE FALSE
    <3>1. parent'[parent[d]] \in T /\ parent[parent'[parent[d]]] = parent[d]
      BY <1>7, <2>1
    <3>2. parent[d] # None
      BY <1>8, <2>1, NoneIs
    <3>3. parent'[parent[d]] = d
      BY <1>8, <3>1, <3>2 DEF LinkInv, OneInFront
    <3> QED BY <3>1, <3>3
  <2> QED BY <2>1
<1>10. /\ status'[c] = detached
       /\ \A d \in T \ {c} : status'[d] = "suspended"
       /\ \A d \in Coroutines \ T : status'[d] = status[d]
  BY <1>2, <1>5, <1>8
<1>11. Detached(c, T)
  BY <1>2, <1>5, <1>7, <1>8, <1>9, <1>10 DEF Detached
<1> QED BY <1>10, <1>11 DEF T, ch

(* The step Freed.                                                          *)
LEMMA DroppedIs ==
  ASSUME TypeInv, LinkInv, NEW c \in Coroutines, status[c] \in {"open", "closed"},
         NEW stacks, Freed(c, stacks)
  PROVE  /\ Dropped(c, ToSet(ChainFrom(c)))
         /\ calls' = [d \in Coroutines |-> IF d \in ToSet(ChainFrom(c)) THEN << >> ELSE stacks[d]]
<1> DEFINE T == ToSet(ChainFrom(c))
<1>1. LinkType /\ Ranked
  BY DEF TypeInv, TypeOK, LinkType, LinkInv
<1>2. /\ T \subseteq Coroutines /\ c \in T
      /\ \A d \in T : parent[d] # None => parent[d] \in T
  BY <1>1, ChainSet
<1>3. /\ \A d \in T : status[d] # "active"
      /\ \A d \in Coroutines \ T : parent[d] \notin T
  BY InFront
<1>4. /\ parent' = [d \in Coroutines |-> IF d \in T THEN None ELSE parent[d]]
      /\ status' = [d \in Coroutines |-> IF d \in T THEN "closed" ELSE status[d]]
      /\ calls' = [d \in Coroutines |-> IF d \in T THEN << >> ELSE stacks[d]]
  BY DEF Freed
<1> HIDE DEF T
<1>5. Dropped(c, T)
  BY <1>2, <1>3, <1>4 DEF Dropped
<1> QED BY <1>4, <1>5 DEF T

(* Links that are turned round, or cut, make no circle.                     *)
LEMMA RankStep ==
  ASSUME LinkType, LinkType', Ranked, NEW T,
         \A d \in Coroutines \ T : parent'[d] = parent[d] /\ parent[d] \notin T,
         \A d \in Coroutines \cap T :
           \/ parent'[d] = None \/ parent'[d] \in Coroutines \ T
           \/ parent'[d] \in T /\ parent[parent'[d]] = d
  PROVE  Ranked'
<1>1. PICK B \in Nat : \E rank \in [Coroutines -> 0 .. B] : Down(rank)
  BY DEF Ranked
<1>2. PICK rank \in [Coroutines -> 0 .. B] : Down(rank)
  BY <1>1
<1> DEFINE high == [d \in Coroutines |-> IF d \in T THEN 2 * B + 1 - rank[d] ELSE rank[d]]
<1>3. \A d \in Coroutines : rank[d] \in 0 .. B
  OBVIOUS
<1>4. 2 * B + 1 \in Nat /\ high \in [Coroutines -> 0 .. 2 * B + 1]
  BY <1>3
<1>5. ASSUME NEW d \in Coroutines, parent'[d] # None
      PROVE  high[parent'[d]] < high[d]
  <2>1. parent'[d] \in Coroutines
    BY <1>5 DEF LinkType
  <2>2. rank[d] \in 0 .. B /\ rank[parent'[d]] \in 0 .. B
    BY <1>3, <2>1
  <2>3. CASE d \notin T
    <3>1. parent'[d] = parent[d] /\ parent'[d] \notin T
      BY <2>3
    <3>2. rank[parent[d]] < rank[d]
      BY <1>2, <1>5, <3>1 DEF Down
    <3> QED BY <2>1, <2>3, <3>1, <3>2
  <2>4. CASE d \in T /\ parent'[d] \notin T
    <3>1. high[d] = 2 * B + 1 - rank[d] /\ high[parent'[d]] = rank[parent'[d]]
      BY <2>1, <2>4
    <3> HIDE DEF high
    <3> QED BY <2>2, <3>1
  <2>5. CASE d \in T /\ parent'[d] \in T
    <3>1. parent[parent'[d]] = d
      BY <1>5, <2>1, <2>5
    <3>2. d # None
      BY NoneIs
    <3>3. parent[parent'[d]] # None => rank[parent[parent'[d]]] < rank[parent'[d]]
      BY <1>2, <2>1 DEF Down
    <3>4. rank[d] < rank[parent'[d]]
      BY <3>1, <3>2, <3>3
    <3>5. high[d] = 2 * B + 1 - rank[d] /\ high[parent'[d]] = 2 * B + 1 - rank[parent'[d]]
      BY <2>1, <2>5
    <3> HIDE DEF high
    <3> QED BY <2>2, <3>4, <3>5
  <2> QED BY <2>3, <2>4, <2>5
<1> HIDE DEF high
<1>6. Down(high)'
  BY <1>5 DEF Down
<1> QED BY <1>4, <1>6 DEF Ranked

(* A coroutine that is attached with its chain.                             *)
LEMMA AttachLinks ==
  ASSUME TypeInv, LinkInv, LinkType', NEW c \in Coroutines, NEW T, Attached(c, T),
         status[c] = "open"
  PROVE  LinkInv'
<1>1. /\ LinkType /\ Ranked /\ OneInFront /\ StatusInv /\ current \in Coroutines
      /\ \A d \in Coroutines : parent[d] # c
  BY InFront DEF TypeInv, TypeOK, LinkType, LinkInv
<1>2. current \notin T
  BY <1>1 DEF StatusInv, Attached
<1>3. Ranked'
  <2>1. \A d \in Coroutines \ T : parent'[d] = parent[d] /\ parent[d] \notin T
    BY DEF Attached
  <2>2. \A d \in Coroutines \cap T :
           \/ parent'[d] = None \/ parent'[d] \in Coroutines \ T
           \/ parent'[d] \in T /\ parent[parent'[d]] = d
    BY <1>1, <1>2 DEF Attached
  <2> QED BY <1>1, <2>1, <2>2, RankStep
<1>4. OneInFront'
  <2> SUFFICES ASSUME NEW d \in Coroutines, NEW e \in Coroutines,
                      parent'[d] = parent'[e], parent'[d] # None
               PROVE  d = e
    BY DEF OneInFront
  <2>1. CASE d \notin T /\ e \notin T
    BY <1>1, <2>1 DEF Attached, OneInFront
  <2>2. \A x \in Coroutines \ T : parent'[x] \notin T /\ parent'[x] # current
    BY <1>1 DEF Attached, StatusInv
  <2>3. \A x \in T : IF x = c THEN parent'[x] = current ELSE parent'[x] \in T /\ parent[parent'[x]] = x
    BY DEF Attached
  <2>4. CASE d \in T /\ e \in T
    BY <1>2, <2>3, <2>4
  <2> QED BY <2>1, <2>2, <2>3, <2>4
<1>5. ASSUME NEW d \in Coroutines PROVE parent'[d] # current'
  <2>1. CASE d \notin T
    BY <2>1 DEF Attached
  <2>2. CASE d = c
    BY <1>2, <2>2 DEF Attached
  <2>3. CASE d \in T \ {c}
    BY <2>3, NoneIs DEF Attached
  <2> QED BY <2>1, <2>2, <2>3
<1>6. ASSUME NEW d \in Coroutines, status'[d] = "active", d # Main
      PROVE  parent'[d] # None /\ status'[parent'[d]] = "active"
  <2>1. CASE d \notin T
    <3>1. parent[d] # None /\ status[parent[d]] = "active"
      BY <1>1, <1>6, <2>1 DEF Attached, StatusInv
    <3>2. parent[d] \in Coroutines
      BY <1>1, <3>1 DEF LinkType
    <3> QED BY <2>1, <3>1, <3>2 DEF Attached
  <2>2. CASE d = c
    <3>1. status[current] = "active" /\ current # None
      BY <1>1, NoneIs DEF StatusInv
    <3> QED BY <1>1, <1>2, <2>2, <3>1 DEF Attached
  <2>3. CASE d \in T \ {c}
    BY <2>3, NoneIs DEF Attached
  <2> QED BY <2>1, <2>2, <2>3
<1>7. ASSUME NEW d \in Coroutines, status'[d] # "active", parent'[d] # None
      PROVE  status'[d] # "unborn" /\ status'[parent'[d]] = "suspended"
  <2>1. d \notin T
    BY <1>7 DEF Attached
  <2>2. status[d] # "unborn" /\ status[parent[d]] = "suspended"
    BY <1>1, <1>7, <2>1 DEF Attached, StatusInv
  <2>3. parent[d] \in Coroutines
    BY <1>1, <1>7, <2>1 DEF Attached, LinkType
  <2> QED BY <2>1, <2>2, <2>3 DEF Attached
<1>8. ASSUME NEW d \in Coroutines, status'[d] \in {"active", "suspended"}, d # current'
      PROVE  \E e \in Coroutines : parent'[e] = d
  <2>1. CASE d = current
    BY <2>1 DEF Attached
  <2>2. CASE d \in T
    <3>1. parent[d] \in T /\ parent[d] # c
      BY <1>1, <1>8, <2>2 DEF Attached
    <3>2. parent'[parent[d]] \in T /\ parent[parent'[parent[d]]] = parent[d] /\ parent[d] # None
      BY <1>8, <2>2, <3>1 DEF Attached
    <3>3. parent'[parent[d]] = d
      BY <1>1, <3>2 DEF OneInFront, Attached
    <3> QED BY <3>1, <3>3 DEF Attached
  <2>3. CASE d \notin T /\ d # current
    <3>1. PICK e \in Coroutines : parent[e] = d
      BY <1>1, <1>8, <2>3 DEF Attached, StatusInv
    <3>2. e \notin T
      BY <2>3, <3>1, NoneIs DEF Attached
    <3> QED BY <3>1, <3>2 DEF Attached
  <2> QED BY <2>1, <2>2, <2>3
<1>9. parent'[Main] = None /\ status'[Main] = "active" /\ status'[current'] = "active"
  <2>1. Main \in Coroutines
    BY BoundsAssumption DEF Main, Coroutines
  <2>2. Main \notin T
    BY <1>1 DEF Attached, StatusInv
  <2> QED BY <1>1, <2>1, <2>2 DEF Attached, StatusInv
<1>10. StatusInv'
  BY <1>5, <1>6, <1>7, <1>8, <1>9 DEF StatusInv
<1> QED BY <1>3, <1>4, <1>10 DEF LinkInv

(* A coroutine that is detached with those in front of it.                  *)
LEMMA DetachLinks ==
  ASSUME TypeInv, LinkInv, LinkType', NEW c \in Coroutines, NEW T, Detached(c, T)
  PROVE  LinkInv'
<1>1. LinkType /\ Ranked /\ OneInFront /\ StatusInv
  BY DEF TypeInv, TypeOK, LinkType, LinkInv
<1>2. /\ current \in T /\ current \in Coroutines
      /\ \A d \in Coroutines \ T : parent'[d] = parent[d] /\ parent[d] \notin T
      /\ \A d \in T : parent[d] # None
  <2>1. current \in T /\ T \subseteq Coroutines
    BY DEF Detached
  <2>2. ASSUME NEW d \in Coroutines \ T PROVE parent'[d] = parent[d] /\ parent[d] \notin T
    <3>1. parent[d] # current
      BY <1>1 DEF StatusInv
    <3> QED BY <3>1 DEF Detached
  <2>3. ASSUME NEW d \in T PROVE parent[d] # None
    BY <2>1, NoneIs DEF Detached
  <2> QED BY <2>1, <2>2, <2>3
<1>3. Ranked'
  <2>1. \A d \in Coroutines \cap T :
           \/ parent'[d] = None \/ parent'[d] \in Coroutines \ T
           \/ parent'[d] \in T /\ parent[parent'[d]] = d
    BY DEF Detached
  <2> QED BY <1>1, <1>2, <2>1, RankStep
<1>4. OneInFront'
  <2> SUFFICES ASSUME NEW d \in Coroutines, NEW e \in Coroutines,
                      parent'[d] = parent'[e], parent'[d] # None
               PROVE  d = e
    BY DEF OneInFront
  <2>1. CASE d \notin T /\ e \notin T
    BY <1>1, <1>2, <2>1 DEF OneInFront
  <2>2. \A x \in T : parent'[x] = None \/ (parent'[x] \in T /\ parent[parent'[x]] = x)
    BY DEF Detached
  <2> QED BY <1>2, <2>1, <2>2
<1>5. /\ current' \in Coroutines \ T /\ parent[c] = current' /\ status'[current'] = "active"
  <2>1. current' = parent[c] /\ parent[c] \in Coroutines \ T /\ c # Main
    BY <1>1 DEF Detached, LinkType, StatusInv
  <2>2. status[parent[c]] = "active"
    BY <1>1, <2>1 DEF Detached, StatusInv
  <2> QED BY <2>1, <2>2 DEF Detached
<1>6. ASSUME NEW d \in Coroutines PROVE parent'[d] # current'
  <2>1. CASE d \notin T
    <3>1. parent'[d] = parent[d] /\ d # c
      BY <1>2, <2>1 DEF Detached
    <3> QED BY <1>1, <1>2, <1>5, <3>1 DEF OneInFront, Detached
  <2>2. CASE d \in T
    BY <1>5, <2>2, NoneIs DEF Detached
  <2> QED BY <2>1, <2>2
<1>7. \A d \in T : status'[d] # "active" /\ status'[d] # "unborn" /\ (d # c => status'[d] = "suspended")
  BY DEF Detached
<1>8. ASSUME NEW d \in Coroutines, status'[d] = "active", d # Main
      PROVE  parent'[d] # None /\ status'[parent'[d]] = "active"
  <2>1. d \notin T
    BY <1>7, <1>8
  <2>2. status[d] = "active" /\ parent'[d] = parent[d] /\ parent[d] \notin T
    BY <1>2, <1>8, <2>1 DEF Detached
  <2>3. parent[d] # None /\ status[parent[d]] = "active"
    BY <1>1, <1>8, <2>2 DEF StatusInv
  <2>4. parent[d] \in Coroutines \ T
    BY <1>1, <2>2, <2>3 DEF LinkType
  <2> QED BY <2>2, <2>3, <2>4 DEF Detached
<1>9. ASSUME NEW d \in Coroutines, status'[d] # "active", parent'[d] # None
      PROVE  status'[d] # "unborn" /\ status'[parent'[d]] = "suspended"
  <2>1. CASE d \notin T
    <3>1. status'[d] = status[d] /\ parent'[d] = parent[d] /\ parent[d] \notin T
      BY <1>2, <2>1 DEF Detached
    <3>2. status[d] # "unborn" /\ status[parent[d]] = "suspended"
      BY <1>1, <1>9, <3>1 DEF StatusInv
    <3>3. parent[d] \in Coroutines \ T
      BY <1>1, <1>9, <3>1 DEF LinkType
    <3> QED BY <3>1, <3>2, <3>3 DEF Detached
  <2>2. CASE d \in T
    <3>1. parent'[d] \in T /\ parent[parent'[d]] = d
      BY <1>9, <2>2 DEF Detached
    <3>2. parent'[d] # c
      BY <2>2, <3>1 DEF Detached
    <3> QED BY <1>7, <2>2, <3>1, <3>2
  <2> QED BY <2>1, <2>2
<1>10. ASSUME NEW d \in Coroutines, status'[d] \in {"active", "suspended"}, d # current'
       PROVE  \E e \in Coroutines : parent'[e] = d
  <2>1. CASE d \in T
    <3>1. d # c
      BY <1>10, <2>1 DEF Detached
    <3>2. parent[d] \in T /\ parent[d] # current /\ parent[d] # None
      BY <1>1, <1>2, <2>1, <3>1 DEF Detached, StatusInv
    <3>3. parent'[parent[d]] \in T /\ parent[parent'[parent[d]]] = parent[d]
      BY <3>2 DEF Detached
    <3>4. parent'[parent[d]] = d
      BY <1>1, <3>2, <3>3 DEF OneInFront, Detached
    <3> QED BY <3>2, <3>4 DEF Detached
  <2>2. CASE d \notin T
    <3>1. PICK e \in Coroutines : parent[e] = d
      BY <1>1, <1>2, <1>10, <2>2 DEF Detached, StatusInv
    <3>2. e \notin T
      BY <1>5, <1>10, <2>2, <3>1 DEF Detached
    <3> QED BY <1>2, <3>1, <3>2
  <2> QED BY <2>1, <2>2
<1>11. parent'[Main] = None /\ status'[Main] = "active"
  <2>1. Main \in Coroutines
    BY BoundsAssumption DEF Main, Coroutines
  <2>2. Main \notin T
    BY <1>1, <1>2 DEF StatusInv
  <2> QED BY <1>1, <1>2, <2>1, <2>2 DEF Detached, StatusInv
<1>12. StatusInv'
  BY <1>5, <1>6, <1>8, <1>9, <1>10, <1>11 DEF StatusInv
<1> QED BY <1>3, <1>4, <1>12 DEF LinkInv

(* Coroutines that are freed.                                               *)
LEMMA DropLinks ==
  ASSUME TypeInv, LinkInv, LinkType', NEW c \in Coroutines, NEW T, Dropped(c, T),
         UNCHANGED current
  PROVE  LinkInv'
<1>1. LinkType /\ Ranked /\ OneInFront /\ StatusInv /\ current \in Coroutines
  BY DEF TypeInv, TypeOK, LinkType, LinkInv
<1>2. /\ \A d \in T : status[d] # "active" /\ status'[d] = "closed" /\ parent'[d] = None
      /\ \A d \in Coroutines \ T : status'[d] = status[d] /\ parent'[d] = parent[d] /\ parent[d] \notin T
      /\ \A d \in T : parent[d] # None => parent[d] \in T
  BY DEF Dropped
<1>3. Ranked'
  BY <1>1, <1>2, RankStep
<1>4. OneInFront'
  BY <1>1, <1>2 DEF OneInFront
<1>5. \A d \in Coroutines : parent'[d] # None => d \notin T /\ parent'[d] = parent[d] /\ parent[d] \in Coroutines \ T
  BY <1>1, <1>2 DEF LinkType
<1>6. current \notin T /\ Main \notin T /\ Main \in Coroutines
  BY <1>1, <1>2, BoundsAssumption DEF StatusInv, Main, Coroutines
<1>7. ASSUME NEW d \in Coroutines
      PROVE  /\ parent'[d] # current
             /\ status'[d] = "active" /\ d # Main => parent'[d] # None /\ status'[parent'[d]] = "active"
             /\ status'[d] # "active" /\ parent'[d] # None =>
                  status'[d] # "unborn" /\ status'[parent'[d]] = "suspended"
  <2>1. parent'[d] # current
    BY <1>1, <1>2, NoneIs DEF StatusInv
  <2>2. CASE d \in T
    BY <1>2, <2>1, <2>2
  <2>3. CASE d \notin T
    <3>1. status'[d] = status[d] /\ parent'[d] = parent[d]
      BY <1>2, <2>3
    <3>2. parent'[d] # None => status'[parent'[d]] = status[parent[d]]
      BY <1>2, <1>5
    <3> QED BY <1>1, <2>1, <3>1, <3>2 DEF StatusInv
  <2> QED BY <2>2, <2>3
<1>8. ASSUME NEW d \in Coroutines, status'[d] \in {"active", "suspended"}, d # current
      PROVE  \E e \in Coroutines : parent'[e] = d
  <2>1. d \notin T
    BY <1>2, <1>8
  <2>2. PICK e \in Coroutines : parent[e] = d
    BY <1>1, <1>2, <1>8, <2>1 DEF StatusInv
  <2>3. e \notin T
    BY <1>2, <2>1, <2>2, NoneIs
  <2> QED BY <1>2, <2>2, <2>3
<1>9. StatusInv'
  BY <1>1, <1>2, <1>6, <1>7, <1>8 DEF StatusInv
<1> QED BY <1>3, <1>4, <1>9 DEF LinkInv

-----------------------------------------------------------------------------
(* No thunk resumes or suspends: it runs to its end, or a coroutine is      *)
(* broken out of, before the coroutine that called it is left.              *)
NoSwitch == ThunkOps \cap {"resume", "suspend"} = {}

(* Or none has done anything besides returning so far.                      *)
Straight == NoSwitch \/ ~thrown

(* What waits above a close: thunks, and what waits for thunks.             *)
InThunk(a) ==
  \/ a.op \in {"push-frame", "dynamic-wind", "wind-out", "break", "wind-in-out", "close"}
  \/ a.op = "body" /\ a.thunk
Shaped(s) == \A i, j \in DOMAIN s : i < j /\ s[j].op = "close" => InThunk(s[i])

(* What a stack begins with.                                                *)
Based(c, s) == IF c = Main THEN s[Len(s)].op = "body" ELSE s[Len(s)].op \in {"end", "break"}
StackInv ==
  \A c \in Coroutines : Shaped(calls[c]) /\ (calls[c] # << >> => Based(c, calls[c]))

(* Each stack waits in the resume of the coroutine it is linked with.       *)
WaitInv ==
  \A c \in Coroutines : parent[c] # None =>
    IF status[c] = "active" THEN WaitsFor(parent[c], c) ELSE WaitsFor(c, parent[c])

Waits(stacks, c, d) == stacks[c] # << >> /\ Head(stacks[c]) = [op |-> "resume", co |-> d]

(* A close is executed by the running coroutine, of one that is open or was *)
(* closed meanwhile; or on a stack that was broken out of and never runs.   *)
Doomed(D) ==
  \A c \in D : status[c] = "closed" \/ (status[c] = "suspended" /\ \E d \in D : parent[d] = c)
MayClose(a) == a.op = "close" => status[a.co] \in {"open", "closed"}
ClosesBy(D) ==
  \A c \in Coroutines \ D : \A i \in DOMAIN calls[c] :
    calls[c][i].op = "close" => c = current /\ MayClose(calls[c][i])
CloseInv == \E D \in SUBSET Coroutines : Doomed(D) /\ ClosesBy(D)

(* The invariant of the links and the stacks, and what a step frees.        *)
SInv == LinkInv /\ WaitInv /\ StackInv /\ CloseInv
FreesOnly == \A c \in Coroutines : calls[c] # << >> /\ calls'[c] = << >> => c \notin Active

(* Activations that may be put above a close, and those that are no close.  *)
Thunky(a) == a \in Seq(Activations) /\ \A i \in DOMAIN a : InThunk(a[i])
NoClose(a) == a \in Seq(Activations) /\ \A i \in DOMAIN a : a[i].op # "close"

(* One activation alone, and none.                                          *)
LEMMA Alone ==
  ASSUME NEW x \in Activations
  PROVE  /\ InThunk(x) => Thunky(<<x>>)
         /\ x.op # "close" => NoClose(<<x>>)
         /\ Thunky(<< >>) /\ NoClose(<< >>)
<1>1. <<x>> \in Seq(Activations) /\ DOMAIN <<x>> = {1} /\ <<x>>[1] = x
  OBVIOUS
<1>2. << >> \in Seq(Activations) /\ DOMAIN << >> = {}
  OBVIOUS
<1> QED BY <1>1, <1>2 DEF Thunky, NoClose

(* Some activations before others are so too.                               *)
LEMMA Above ==
  ASSUME NEW a, NEW b
  PROVE  /\ Thunky(a) /\ Thunky(b) => Thunky(a \o b)
         /\ NoClose(a) /\ NoClose(b) => NoClose(a \o b)
<1> SUFFICES ASSUME a \in Seq(Activations), b \in Seq(Activations)
             PROVE  /\ Thunky(a) /\ Thunky(b) => Thunky(a \o b)
                    /\ NoClose(a) /\ NoClose(b) => NoClose(a \o b)
  BY DEF Thunky, NoClose
<1> DEFINE both == a \o b
<1>1. /\ both \in Seq(Activations)
      /\ \A i \in DOMAIN both : \/ i \in DOMAIN a /\ both[i] = a[i]
                                \/ i - Len(a) \in DOMAIN b /\ i > Len(a) /\ both[i] = b[i - Len(a)]
  BY Before
<1> HIDE DEF both
<1>2. Thunky(a) /\ Thunky(b) => Thunky(both)
  BY <1>1 DEF Thunky
<1>3. NoClose(a) /\ NoClose(b) => NoClose(both)
  BY <1>1 DEF NoClose
<1> QED BY <1>2, <1>3 DEF both

(* The activations a are put on what is left, r, of the stack s of c.       *)
PutOn(c, s, a, r) ==
  /\ s \in Seq(Activations) /\ s # << >> /\ Shaped(s) /\ Based(c, s)
  /\ r = s \/ r = Tail(s)
  /\ Thunky(a) \/ (NoClose(a) /\ ~InThunk(Head(s)))
  /\ r = s \/ Len(s) > 1 \/ (a # << >> /\ Based(c, a))
IsStack(c, s, a, new) ==
  /\ Shaped(new) /\ new # << >> /\ Based(c, new)
  /\ \A i \in DOMAIN new : new[i].op = "close" =>
       (\E j \in DOMAIN a : new[i] = a[j]) \/ (\E j \in DOMAIN s : new[i] = s[j])

(* That makes such a stack again.                                           *)
LEMMA StackJoined ==
  ASSUME NEW c, NEW s, NEW a, NEW r, PutOn(c, s, a, r)
  PROVE  IsStack(c, s, a, a \o r)
<1>0. /\ s \in Seq(Activations) /\ s # << >> /\ Shaped(s) /\ Based(c, s)
      /\ r = s \/ r = Tail(s)
      /\ Thunky(a) \/ (NoClose(a) /\ ~InThunk(Head(s)))
      /\ r = s \/ Len(s) > 1 \/ (a # << >> /\ Based(c, a))
  BY DEF PutOn
<1>1. a \in Seq(Activations)
  BY <1>0 DEF Thunky, NoClose
<1>2. PICK k \in {0, 1} : r = IF k = 0 THEN s ELSE Tail(s)
  BY <1>0
<1>3. /\ Len(s) \in Nat /\ Len(s) >= 1 /\ DOMAIN s = 1 .. Len(s) /\ Len(a) \in Nat /\ DOMAIN a = 1 .. Len(a)
  BY <1>0, <1>1, LenProperties, EmptySeq
<1>4. /\ r \in Seq(Activations) /\ Len(r) = Len(s) - k
      /\ \A i \in 1 .. Len(r) : r[i] = s[i + k]
  <2>1. CASE k = 0
    BY <1>0, <1>2, <1>3, <2>1
  <2>2. CASE k = 1
    <3>1. r = Tail(s)
      BY <1>2, <2>2
    <3>2. /\ Tail(s) \in Seq(Activations) /\ Len(Tail(s)) = Len(s) - 1
          /\ \A i \in 1 .. Len(Tail(s)) : Tail(s)[i] = s[i + 1]
      BY <1>0, HeadTailProperties
    <3> QED BY <2>2, <3>1, <3>2
  <2> QED BY <2>1, <2>2
<1>5. DOMAIN r = 1 .. Len(r)
  BY <1>4, LenProperties
<1> DEFINE both == a \o r
<1>6. /\ both \in Seq(Activations) /\ Len(both) = Len(a) + Len(r)
      /\ \A i \in 1 .. Len(a) + Len(r) : both[i] = IF i <= Len(a) THEN a[i] ELSE r[i - Len(a)]
  BY <1>1, <1>4, ConcatProperties
<1>7. DOMAIN both = 1 .. Len(a) + Len(r)
  BY <1>6, LenProperties
<1>8. Head(s) = s[1]
  OBVIOUS
<1> HIDE DEF both
<1>9. ASSUME NEW i \in DOMAIN both
      PROVE  IF i <= Len(a) THEN i \in DOMAIN a /\ both[i] = a[i]
             ELSE i - Len(a) + k \in DOMAIN s /\ both[i] = s[i - Len(a) + k]
  <2>1. i \in 1 .. Len(a) + Len(r)
    BY <1>7
  <2>2. CASE i <= Len(a)
    BY <1>3, <1>6, <2>1, <2>2
  <2>3. CASE i > Len(a)
    <3> DEFINE m == i - Len(a)
    <3>1. m \in 1 .. Len(r) /\ m + k \in 1 .. Len(s) /\ ~(i <= Len(a))
      BY <1>3, <1>4, <2>1, <2>3
    <3>2. both[i] = r[m]
      BY <1>6, <2>1, <3>1
    <3> HIDE DEF m
    <3>3. both[i] = s[m + k] /\ m + k \in DOMAIN s
      BY <1>3, <1>4, <3>1, <3>2
    <3> QED BY <3>1, <3>3 DEF m
  <2> QED BY <1>3, <2>1, <2>2, <2>3
<1>10. ~InThunk(Head(s)) => \A j \in DOMAIN s : s[j].op # "close"
  <2> SUFFICES ASSUME ~InThunk(s[1]), NEW j \in DOMAIN s, s[j].op = "close"
               PROVE  FALSE
    BY <1>8
  <2>1. j # 1
    BY DEF InThunk
  <2>2. 1 \in DOMAIN s /\ 1 < j
    BY <1>3, <2>1
  <2> QED BY <1>0, <2>2 DEF Shaped
<1>11. Shaped(both)
  <2> SUFFICES ASSUME NEW i \in DOMAIN both, NEW j \in DOMAIN both, i < j, both[j].op = "close"
               PROVE  InThunk(both[i])
    BY DEF Shaped
  <2>1. i \in Int /\ j \in Int
    BY <1>7
  <2>2. CASE Thunky(a)
    <3>1. CASE i <= Len(a)
      BY <1>9, <2>2, <3>1 DEF Thunky
    <3>2. CASE i > Len(a)
      <4> DEFINE m == i - Len(a) + k
                 n == j - Len(a) + k
      <4>1. ~(i <= Len(a)) /\ ~(j <= Len(a)) /\ m < n
        BY <1>3, <2>1, <3>2
      <4>2. m \in DOMAIN s /\ n \in DOMAIN s /\ both[i] = s[m] /\ both[j] = s[n]
        BY <1>9, <4>1
      <4> HIDE DEF m, n
      <4> QED BY <1>0, <4>1, <4>2 DEF Shaped
    <3> QED BY <1>3, <2>1, <3>1, <3>2
  <2>3. CASE NoClose(a) /\ ~InThunk(Head(s))
    <3>1. IF j <= Len(a) THEN both[j].op # "close" ELSE FALSE
      BY <1>9, <1>10, <2>3 DEF NoClose
    <3> QED BY <3>1
  <2> QED BY <1>0, <2>2, <2>3
<1>12. both # << >> /\ Based(c, both)
  <2> DEFINE L == Len(a) + Len(r)
  <2>1. Len(r) \in Nat /\ L \in Nat
    BY <1>3, <1>4
  <2>2. CASE Len(r) > 0
    <3>1. L \in DOMAIN both /\ ~(L <= Len(a)) /\ L - Len(a) + k = Len(s)
      BY <1>3, <1>4, <1>7, <2>1, <2>2
    <3>2. both[L] = s[Len(s)]
      BY <1>9, <3>1
    <3>3. both # << >>
      BY <1>6, <2>1, <2>2, <1>3
    <3> QED BY <1>0, <1>6, <3>2, <3>3 DEF Based
  <2>3. CASE Len(r) = 0
    <3>1. a # << >> /\ Based(c, a)
      BY <1>0, <1>3, <1>4, <2>3
    <3>2. Len(a) >= 1
      BY <1>1, <1>3, <3>1, EmptySeq
    <3>3. L = Len(a) /\ L \in DOMAIN both /\ L <= Len(a)
      BY <1>3, <1>7, <2>3, <3>2
    <3>4. both[L] = a[Len(a)]
      BY <1>9, <3>3
    <3>5. both # << >>
      BY <1>6, <1>3, <2>3, <3>2
    <3> QED BY <1>6, <3>1, <3>3, <3>4, <3>5 DEF Based
  <2> QED BY <2>1, <2>2, <2>3
<1>13. ASSUME NEW i \in DOMAIN both, both[i].op = "close"
       PROVE  (\E j \in DOMAIN a : both[i] = a[j]) \/ (\E j \in DOMAIN s : both[i] = s[j])
  BY <1>9
<1> QED BY <1>11, <1>12, <1>13 DEF both, IsStack

(* The steps of the coroutine that runs, and goes on running.               *)
LEMMA RunStep ==
  ASSUME TypeInv, SInv, UNCHANGED <<current, status, parent>>, calls[current] # << >>, NEW a,
         Thunky(a) \/ (NoClose(a) /\ ~InThunk(Top)),
         \A i \in DOMAIN a : MayClose(a[i]),
         \/ Call(a)
         \/ Continue(a) /\ (Len(calls[current]) > 1 \/ (a # << >> /\ Based(current, a)))
  PROVE  SInv' /\ FreesOnly
<1>1. current \in Coroutines /\ calls \in [Coroutines -> Seq(Activations)]
  BY DEF TypeInv, TypeOK
<1>2. PICK r : /\ r = calls[current] \/ r = Tail(calls[current])
               /\ r = calls[current] \/ Len(calls[current]) > 1 \/ (a # << >> /\ Based(current, a))
               /\ calls' = [calls EXCEPT ![current] = a \o r]
  BY DEF Call, Continue
<1> DEFINE top == a \o r
<1>3. IsStack(current, calls[current], a, top)
  <2>1. Shaped(calls[current]) /\ Based(current, calls[current])
    BY <1>1 DEF SInv, StackInv
  <2>2. PutOn(current, calls[current], a, r)
    BY <1>1, <1>2, <2>1 DEF PutOn, Top
  <2> QED BY <2>2, StackJoined
<1>4. \A d \in Coroutines : calls'[d] = IF d = current THEN top ELSE calls[d]
  BY <1>1, <1>2
<1> HIDE DEF top
<1>5. LinkInv'
  BY DEF SInv, LinkInv, Ranked, Down, OneInFront, StatusInv
<1>6. StackInv'
  BY <1>3, <1>4 DEF SInv, StackInv, Based, IsStack
<1>7. WaitInv'
  <2> SUFFICES ASSUME NEW c \in Coroutines, parent[c] # None
               PROVE  IF status[c] = "active" THEN WaitsFor(parent[c], c)' ELSE WaitsFor(c, parent[c])'
    BY DEF WaitInv, WaitsFor, Alive
  <2>1. parent[c] \in Coroutines /\ parent[c] # current
    BY DEF SInv, LinkInv, StatusInv, TypeInv, TypeOK
  <2>2. status[c] # "active" => c # current
    BY DEF SInv, LinkInv, StatusInv
  <2>3. IF status[c] = "active" THEN WaitsFor(parent[c], c) ELSE WaitsFor(c, parent[c])
    BY DEF SInv, WaitInv
  <2> QED BY <1>4, <2>1, <2>2, <2>3 DEF WaitsFor, Alive
<1>8. CloseInv'
  <2>1. PICK D \in SUBSET Coroutines : Doomed(D) /\ ClosesBy(D)
    BY DEF SInv, CloseInv
  <2>2. Doomed(D)'
    BY <2>1 DEF Doomed
  <2>3. current \notin D
    BY <2>1 DEF Doomed, SInv, LinkInv, StatusInv
  <2>4. ASSUME NEW c \in Coroutines \ D, NEW i \in DOMAIN calls'[c], calls'[c][i].op = "close"
        PROVE  c = current /\ MayClose(calls'[c][i])
    <3>1. CASE c # current
      BY <1>4, <2>1, <2>4, <3>1 DEF ClosesBy
    <3>2. CASE c = current
      <4>1. \/ \E j \in DOMAIN a : calls'[c][i] = a[j]
            \/ \E j \in DOMAIN calls[current] : calls'[c][i] = calls[current][j]
        BY <1>3, <1>4, <2>4, <3>2 DEF IsStack
      <4>2. MayClose(calls'[c][i])
        BY <2>1, <2>3, <2>4, <1>1, <4>1 DEF ClosesBy
      <4> QED BY <3>2, <4>2
    <3> QED BY <3>1, <3>2
  <2>5. ClosesBy(D)'
    BY <2>4 DEF ClosesBy, MayClose
  <2> QED BY <2>2, <2>5 DEF CloseInv
<1>9. FreesOnly
  BY <1>3, <1>4 DEF FreesOnly, IsStack
<1> QED BY <1>5, <1>6, <1>7, <1>8, <1>9 DEF SInv

(* There is more below what is no first activation of a stack.              *)
LEMMA NotFirst ==
  ASSUME TypeInv, SInv, calls[current] # << >>,
         Top.op \notin {"end", "break"}, current = Main => Top.op # "body"
  PROVE  Len(calls[current]) > 1
<1>1. current \in Coroutines /\ calls[current] \in Seq(Activations) /\ Top = calls[current][1]
  BY Rest DEF TypeInv, TypeOK, Top
<1>2. Based(current, calls[current])
  BY <1>1 DEF SInv, StackInv
<1> DEFINE n == Len(calls[current])
<1>3. n \in Nat /\ n # 0
  BY <1>1, LenProperties, EmptySeq
<1>4. n # 1
  BY <1>1, <1>2 DEF Based
<1> HIDE DEF n
<1>5. n > 1
  BY <1>3, <1>4
<1> QED BY <1>5 DEF n

(* Such steps, of each kind.                                                *)
LEMMA RunSteps ==
  ASSUME TypeInv, SInv, UNCHANGED <<current, status, parent>>, calls[current] # << >>, NEW a,
         NoClose(a), Thunky(a) \/ ~InThunk(Top),
         Call(a) \/ (Continue(a) /\ Top.op \notin {"end", "break", "body"})
  PROVE  SInv' /\ FreesOnly
<1>1. \A i \in DOMAIN a : MayClose(a[i])
  BY DEF NoClose, MayClose
<1>2. CASE Call(a)
  BY <1>1, <1>2, RunStep
<1>3. CASE Continue(a) /\ Top.op \notin {"end", "break", "body"}
  <2>1. Len(calls[current]) > 1
    BY <1>3, NotFirst
  <2> QED BY <1>1, <1>3, <2>1, RunStep
<1> QED BY <1>2, <1>3

-----------------------------------------------------------------------------
(* A call by the program that a thunk makes too, or only other code.        *)
LEMMA MayThunk ==
  ASSUME TypeInv, Straight', NEW op, May(op)
  PROVE  /\ Top.op = "body" /\ calls[current] # << >>
         /\ op \in {"resume", "suspend"} => ~InThunk(Top)
         /\ ~Top.thunk => ~InThunk(Top)
<1>1. AtTop("body") /\ (Top.thunk => op \in ThunkOps /\ thrown')
  BY DEF May
<1>2. Top.op = "body" /\ calls[current] # << >>
  BY <1>1 DEF AtTop
<1>3. op \in {"resume", "suspend"} => ~Top.thunk
  BY <1>1, Zenon DEF NoSwitch, Straight
<1> QED BY <1>2, <1>3 DEF InThunk

(* What the runtime puts on the stack.                                      *)
LEMMA BreakingThunky ==
  ASSUME TypeInv, NEW c \in Coroutines
  PROVE  /\ Thunky(Breaking(c)) /\ NoClose(Breaking(c)) /\ Breaking(c) # << >>
         /\ \A d : d # Main => Based(d, Breaking(c))
<1> DEFINE x == WindingOut(c, NoWinder, TRUE)
           y == [op |-> "break", co |-> c]
<1>1. x \in Activations /\ x.op = "wind-out"
  BY DEF Activations, WindingOut, TypeInv, TypeOK
<1>2. y \in Activations /\ y.op = "break"
  BY DEF Activations
<1>3. Breaking(c) = <<x, y>>
  BY DEF Breaking
<1> HIDE DEF x, y
<1>4. <<x, y>> \in Seq(Activations) /\ DOMAIN <<x, y>> = {1, 2} /\ Len(<<x, y>>) = 2
      /\ <<x, y>>[1] = x /\ <<x, y>>[2] = y /\ <<x, y>> # << >>
  BY <1>1, <1>2
<1> QED BY <1>1, <1>2, <1>3, <1>4 DEF Thunky, NoClose, InThunk, Based

(* push-frame, after the in thunk.                                          *)
LEMMA PushingThunky ==
  ASSUME NEW f \in Frames, NEW c \in Coroutines
  PROVE  Thunky(Pushing(f, c)) /\ NoClose(Pushing(f, c))
<1> DEFINE x == Body(TRUE)
           y == [op |-> "push-frame", frame |-> f, co |-> c]
           a == IF f \in PlainFrames THEN <<x>> ELSE << >>
<1>1. x \in Activations /\ x.op = "body" /\ x.thunk
  BY DEF Activations, Body
<1>2. y \in Activations /\ y.op = "push-frame"
  BY DEF Activations
<1>3. Pushing(f, c) = a \o <<y>>
  BY DEF Pushing
<1> HIDE DEF x, y
<1>4. Thunky(a) /\ NoClose(a)
  BY <1>1, Alone DEF InThunk
<1>5. Thunky(<<y>>) /\ NoClose(<<y>>)
  BY <1>2, Alone DEF InThunk
<1> HIDE DEF a
<1> QED BY <1>3, <1>4, <1>5, Above

(* The finally blocks that are saved.                                       *)
LEMMA SavedThunky ==
  ASSUME TypeInv, NEW c \in Coroutines, NEW rest, RunSaved(c, rest)
  PROVE  \E a : Thunky(a) /\ NoClose(a) /\ Call(a \o rest)
<1>1. saved[c] \in Winders \cup {NoWinder}
  BY DEF TypeInv, TypeOK
<1> DEFINE x == [op |-> "wind-in-out", winder |-> saved[c], left |-> NumFinallyBlocks(saved[c])]
           a == IF saved[c] = NoWinder THEN << >> ELSE <<x>>
<1>2. Thunky(a) /\ NoClose(a)
  <2>1. CASE saved[c] = NoWinder
    <3>1. Body(TRUE) \in Activations
      BY DEF Activations, Body
    <3> QED BY <2>1, <3>1, Alone
  <2>2. CASE saved[c] # NoWinder
    <3>1. NumFinallyBlocks(saved[c]) \in Nat
      BY <1>1, <2>2, NumFinallyIs DEF TypeInv
    <3>2. x \in Activations /\ x.op = "wind-in-out"
      BY <1>1, <2>2, <3>1 DEF Activations
    <3> HIDE DEF x
    <3> QED BY <2>2, <3>2, Alone DEF InThunk
  <2> QED BY <2>1, <2>2
<1>3. Call(a \o rest)
  BY DEF RunSaved
<1> QED BY <1>2, <1>3

-----------------------------------------------------------------------------
(* The running coroutine returns from a function.                           *)
LEMMA ReturnRuns ==
  ASSUME TypeInv, SInv, Return
  PROVE  SInv' /\ FreesOnly
<1>1. Top.op = "body" /\ calls[current] # << >> /\ Continue(<< >>)
  BY DEF Return, AtTop
<1>2. Body(TRUE) \in Activations
  BY DEF Activations, Body
<1>3. Thunky(<< >>) /\ NoClose(<< >>)
  BY <1>2, Alone
<1>4. Len(calls[current]) > 1
  <2>1. CASE current = Main
    BY <2>1 DEF Return
  <2>2. CASE current # Main
    BY <1>1, <2>2, NotFirst
  <2> QED BY <2>1, <2>2
<1>5. \A i \in DOMAIN << >> : MayClose(<< >>[i])
  OBVIOUS
<1>6. UNCHANGED <<current, status, parent>>
  BY DEF Return
<1> QED BY <1>1, <1>3, <1>4, <1>5, <1>6, RunStep

(* suspend begins to wind out.                                              *)
LEMMA SuspendRuns ==
  ASSUME TypeInv, SInv, Straight', NEW c \in Coroutines, Suspend(c)
  PROVE  SInv' /\ FreesOnly
<1>1. ~InThunk(Top) /\ calls[current] # << >> /\ current \in Coroutines
  BY MayThunk DEF Suspend, TypeInv, TypeOK
<1>2. used' \in Winders
  BY DEF Suspend
<1> DEFINE x == WindingOut(c, used', FALSE)
           y == [op |-> "suspend", co |-> c, winder |-> used']
<1>3. x \in Activations /\ x.op # "close"
  BY <1>1, <1>2 DEF Activations, WindingOut
<1>4. y \in Activations /\ y.op # "close"
  BY <1>2 DEF Activations
<1>5. Call(<<x, y>>) /\ UNCHANGED <<current, status, parent>>
  BY DEF Suspend
<1> HIDE DEF x, y
<1>6. NoClose(<<x, y>>)
  BY <1>3, <1>4 DEF NoClose
<1> QED BY <1>1, <1>5, <1>6, RunSteps

(* break begins to wind out.                                                *)
LEMMA BreakRuns ==
  ASSUME TypeInv, SInv, NEW c \in Coroutines, Break(c)
  PROVE  SInv' /\ FreesOnly
<1>1. calls[current] # << >>
  BY MayIs DEF Break
<1> QED BY <1>1, BreakingThunky, RunSteps DEF Break

(* close runs the finally blocks first.                                     *)
LEMMA CloseRuns ==
  ASSUME TypeInv, SInv, NEW c \in Coroutines, Close(c)
  PROVE  SInv' /\ FreesOnly
<1>1. calls[current] # << >> /\ UNCHANGED <<current, status, parent>> /\ status[c] = "open"
  BY MayIs DEF Close
<1> DEFINE x == [op |-> "close", co |-> c]
<1>2. x \in Activations /\ x.op = "close" /\ x.co = c
  BY DEF Activations
<1>3. RunSaved(c, <<x>>)
  BY DEF Close
<1> HIDE DEF x
<1>4. PICK a : Thunky(a) /\ NoClose(a) /\ Call(a \o <<x>>)
  BY <1>3, SavedThunky
<1>5. Thunky(<<x>>)
  BY <1>2, Alone DEF InThunk
<1>6. Thunky(a \o <<x>>)
  BY <1>4, <1>5, Above
<1>7. \A i \in DOMAIN (a \o <<x>>) : MayClose((a \o <<x>>)[i])
  <2>1. a \in Seq(Activations) /\ <<x>> \in Seq(Activations) /\ \A j \in DOMAIN <<x>> : <<x>>[j] = x
    BY <1>2, <1>4 DEF Thunky
  <2>2. \A i \in DOMAIN (a \o <<x>>) :
           \/ i \in DOMAIN a /\ (a \o <<x>>)[i] = a[i]
           \/ i - Len(a) \in DOMAIN <<x>> /\ i > Len(a) /\ (a \o <<x>>)[i] = <<x>>[i - Len(a)]
    BY <2>1, Before
  <2>3. \A i \in DOMAIN (a \o <<x>>) : (a \o <<x>>)[i] = x \/ (a \o <<x>>)[i].op # "close"
    BY <1>4, <2>1, <2>2 DEF NoClose
  <2>4. MayClose(x)
    BY <1>1, <1>2 DEF MayClose
  <2> QED BY <2>3, <2>4 DEF MayClose
<1> QED BY <1>1, <1>4, <1>6, <1>7, RunStep

(* So does the finalizer.                                                   *)
LEMMA CollectRuns ==
  ASSUME TypeInv, SInv, NEW c \in Coroutines, Collect(c)
  PROVE  SInv' /\ FreesOnly
<1>1. calls[current] # << >> /\ UNCHANGED <<current, status, parent>>
  BY MayIs DEF Collect
<1>2. PICK a : Thunky(a) /\ NoClose(a) /\ Call(a \o << >>)
  BY SavedThunky DEF Collect
<1>3. a \o << >> = a
  BY <1>2, ConcatEmptySeq DEF Thunky
<1>4. Call(a)
  BY <1>2, <1>3
<1> QED BY <1>1, <1>2, <1>4, RunSteps

(* A dynamic-wind is begun, by a thunk or by other code.                    *)
LEMMA DynamicWindRuns ==
  ASSUME TypeInv, SInv, Straight', NEW f \in Frames, DynamicWind(f)
  PROVE  SInv' /\ FreesOnly
<1> DEFINE x == Body(Top.thunk)
           y == [op |-> "dynamic-wind", frame |-> f]
<1>1. /\ calls[current] # << >> /\ UNCHANGED <<current, status, parent>> /\ current \in Coroutines
      /\ Top.thunk \in BOOLEAN /\ (~Top.thunk => ~InThunk(Top))
  BY MayIs, MayThunk DEF DynamicWind
<1>2. x \in Activations /\ x.op = "body" /\ x.thunk = Top.thunk
  BY <1>1 DEF Activations, Body
<1>3. y \in Activations /\ y.op = "dynamic-wind"
  BY DEF Activations
<1>4. Call(Pushing(f, current) \o <<x, y>>)
  BY DEF DynamicWind
<1> HIDE DEF x, y
<1>5. Thunky(Pushing(f, current)) /\ NoClose(Pushing(f, current))
  BY <1>1, PushingThunky
<1>6. NoClose(<<x, y>>) /\ (Top.thunk => Thunky(<<x, y>>))
  BY <1>2, <1>3 DEF NoClose, Thunky, InThunk
<1>7. NoClose(Pushing(f, current) \o <<x, y>>) /\ (Top.thunk => Thunky(Pushing(f, current) \o <<x, y>>))
  BY <1>5, <1>6, Above
<1>8. Thunky(Pushing(f, current) \o <<x, y>>) \/ ~InThunk(Top)
  BY <1>1, <1>7, Zenon
<1> QED BY <1>1, <1>4, <1>7, <1>8, RunSteps

(* The in thunk has returned.                                               *)
LEMMA PushFrameRuns ==
  ASSUME TypeInv, SInv, PushFrame
  PROVE  SInv' /\ FreesOnly
<1>1. /\ Top.op = "push-frame" /\ calls[current] # << >> /\ Continue(<< >>)
      /\ UNCHANGED <<current, status, parent>>
  BY DEF PushFrame, AtTop
<1>2. Body(TRUE) \in Activations
  BY DEF Activations, Body
<1>3. Thunky(<< >>) /\ NoClose(<< >>)
  BY <1>2, Alone
<1> QED BY <1>1, <1>3, RunSteps

(* A frame is popped: rest is left to do.                                   *)
LEMMA PoppingRuns ==
  ASSUME TypeInv, SInv, UNCHANGED <<current, status, parent>>, calls[current] # << >>,
         Top.op \notin {"end", "break", "body"}, NEW c \in Coroutines, NEW callFinally, NEW rest,
         NoClose(rest), Thunky(rest), Popping(c, callFinally, rest)
  PROVE  SInv' /\ FreesOnly
<1> DEFINE x == Body(TRUE)
<1>1. x \in Activations /\ x.op = "body" /\ x.thunk
  BY DEF Activations, Body
<1>2. Continue(<<x>> \o rest) \/ Continue(rest)
  BY DEF Popping
<1> HIDE DEF x
<1>3. NoClose(<<x>>) /\ Thunky(<<x>>)
  BY <1>1, Alone DEF InThunk
<1>4. NoClose(<<x>> \o rest) /\ Thunky(<<x>> \o rest)
  BY <1>3, Above
<1> QED BY <1>2, <1>4, RunSteps

(* The body of a dynamic-wind has returned.                                 *)
LEMMA BodyEndsRuns ==
  ASSUME TypeInv, SInv, BodyEnds
  PROVE  SInv' /\ FreesOnly
<1>1. /\ Top.op = "dynamic-wind" /\ calls[current] # << >> /\ current \in Coroutines
      /\ UNCHANGED <<current, status, parent>> /\ Popping(current, TRUE, << >>)
  BY TopIs DEF BodyEnds
<1>2. Body(TRUE) \in Activations
  BY DEF Activations, Body
<1>3. Thunky(<< >>) /\ NoClose(<< >>)
  BY <1>2, Alone
<1> QED BY <1>1, <1>3, PoppingRuns

(* The next frame is wound out, or the next coroutine begun.                *)
LEMMA WindOutRuns ==
  ASSUME TypeInv, SInv, WindOut
  PROVE  SInv' /\ FreesOnly
<1> DEFINE c == Top.at
<1>1. /\ Top \in Activations /\ Top.op = "wind-out" /\ calls[current] # << >>
      /\ c \in Coroutines
      /\ \A d \in Coroutines : [Top EXCEPT !.at = d] \in Activations
      /\ UNCHANGED <<current, status, parent>>
  BY TopIs, Fields DEF WindOut
<1>2. Thunky(<<Top>>) /\ NoClose(<<Top>>) /\ Thunky(<< >>) /\ NoClose(<< >>)
  BY <1>1, Alone DEF InThunk
<1>3. CASE Continue(<< >>)
  BY <1>1, <1>2, <1>3, RunSteps
<1>4. CASE parent[c] # None /\ Continue(<<[Top EXCEPT !.at = parent[c]]>>)
  <2> DEFINE x == [Top EXCEPT !.at = parent[c]]
  <2>1. parent[c] \in Coroutines
    BY <1>1, <1>4 DEF TypeInv, TypeOK
  <2>2. x \in Activations /\ x.op = "wind-out"
    BY <1>1, <2>1 DEF Activations
  <2>3. Continue(<<x>>)
    BY <1>4
  <2> HIDE DEF x
  <2>4. Thunky(<<x>>) /\ NoClose(<<x>>)
    BY <2>2, Alone DEF InThunk
  <2> QED BY <1>1, <2>3, <2>4, RunSteps
<1>5. CASE Popping(c, Top.callFinally, <<Top>>)
  BY <1>1, <1>2, <1>5, PoppingRuns
<1> QED BY <1>3, <1>4, <1>5 DEF WindOut

(* A coroutine that was suspended begins to wind in.                        *)
LEMMA ReattachedRuns ==
  ASSUME TypeInv, SInv, Reattached
  PROVE  SInv' /\ FreesOnly
<1> DEFINE w == Top.winder
           s == Reverse(ChainTo(current, Head(winders[w]).co))
           x == [op |-> "wind-in", winder |-> w, cos |-> s]
<1>1. /\ Top.op = "suspended" /\ calls[current] # << >> /\ current \in Coroutines
      /\ w \in Winders /\ UNCHANGED <<current, status, parent>>
  BY TopIs, Fields DEF Reattached
<1>2. ~InThunk(Top)
  BY <1>1 DEF InThunk
<1>3. CASE Continue(<< >>)
  <2>1. Body(TRUE) \in Activations
    BY DEF Activations, Body
  <2>2. NoClose(<< >>)
    BY <2>1, Alone
  <2> QED BY <1>1, <1>2, <1>3, <2>2, RunSteps
<1>4. CASE winders[w] # << >>
  <2>1. ChainTo(current, Head(winders[w]).co) \in Seq(Coroutines)
    BY <1>1, <1>4, ChainToIs DEF TypeInv, TypeOK, Reattached
  <2>2. s \in Seq(Coroutines)
    <3> DEFINE chain == ChainTo(current, Head(winders[w]).co)
    <3>1. chain \in Seq(Coroutines) /\ Len(chain) \in Nat
      BY <2>1, LenProperties
    <3> HIDE DEF chain
    <3>2. \A i \in 1 .. Len(chain) : chain[Len(chain) - i + 1] \in Coroutines
      BY <3>1, ElementOfSeq
    <3>3. Reverse(chain) \in Seq(Coroutines)
      BY <3>1, <3>2 DEF Reverse
    <3> QED BY <3>3 DEF chain
  <2>3. Continue(<<x>>)
    BY <1>4 DEF Reattached
  <2> HIDE DEF s
  <2>4. x \in Activations /\ x.op = "wind-in"
    BY <1>1, <2>2 DEF Activations
  <2> HIDE DEF x
  <2>5. NoClose(<<x>>)
    BY <2>4, Alone
  <2> QED BY <1>1, <1>2, <2>3, <2>5, RunSteps
<1> QED BY <1>3, <1>4 DEF Reattached

(* The next frame is wound in.                                              *)
LEMMA WindInRuns ==
  ASSUME TypeInv, SInv, WindIn
  PROVE  SInv' /\ FreesOnly
<1> DEFINE w == Top.winder
<1>1. /\ Top \in Activations /\ Top.op = "wind-in" /\ calls[current] # << >> /\ current \in Coroutines
      /\ w \in Winders /\ Top.cos \in Seq(Coroutines)
      /\ \A s \in Seq(Coroutines) : [Top EXCEPT !.cos = s] \in Activations
      /\ UNCHANGED <<current, status, parent>>
  BY TopIs, Fields DEF WindIn
<1>2. ~InThunk(Top)
  BY <1>1 DEF InThunk
<1>3. CASE Continue(<< >>)
  <2>1. Body(TRUE) \in Activations
    BY DEF Activations, Body
  <2>2. NoClose(<< >>)
    BY <2>1, Alone
  <2> QED BY <1>1, <1>2, <1>3, <2>2, RunSteps
<1>4. CASE winders[w] # << >>
  <2> DEFINE e == Head(winders[w])
  <2>1. e \in Entries
    BY <1>1, <1>4, Rest DEF TypeInv
  <2>2. e.frame \in Frames /\ e.co \in Coroutines
    BY <2>1 DEF Entries
  <2>3. PICK n \in DOMAIN Top.cos :
          Continue(Pushing(e.frame, e.co) \o <<[Top EXCEPT !.cos = SubSeq(@, n, Len(@))]>>)
    BY <1>4 DEF WindIn
  <2> DEFINE x == [Top EXCEPT !.cos = SubSeq(Top.cos, n, Len(Top.cos))]
  <2>4. x \in Activations /\ x.op = "wind-in"
    <3> DEFINE cos == Top.cos
    <3>0. cos \in Seq(Coroutines) /\ n \in DOMAIN cos
      BY <1>1
    <3> HIDE DEF cos
    <3>1. SubSeq(cos, n, Len(cos)) \in Seq(Coroutines)
      BY <3>0, LenProperties, SubSeqProperties
    <3> QED BY <1>1, <3>1 DEF Activations, cos
  <2>5. Continue(Pushing(e.frame, e.co) \o <<x>>)
    BY <2>3
  <2> HIDE DEF x, e
  <2>6. NoClose(Pushing(e.frame, e.co)) /\ NoClose(<<x>>)
    BY <2>2, <2>4, Alone, PushingThunky
  <2>7. NoClose(Pushing(e.frame, e.co) \o <<x>>)
    BY <2>6, Above
  <2> QED BY <1>1, <1>2, <2>5, <2>7, RunSteps
<1> QED BY <1>3, <1>4 DEF WindIn

(* The next frame of a finalizer is wound in, to be wound out again.        *)
LEMMA WindInOutRuns ==
  ASSUME TypeInv, SInv, WindInOut
  PROVE  SInv' /\ FreesOnly
<1> DEFINE w == Top.winder
<1>1. /\ Top \in Activations /\ Top.op = "wind-in-out" /\ calls[current] # << >> /\ current \in Coroutines
      /\ w \in Winders /\ Top.left \in Nat
      /\ \A n \in Nat : [Top EXCEPT !.left = n] \in Activations
      /\ UNCHANGED <<current, status, parent>>
  BY TopIs, Fields DEF WindInOut
<1>2. CASE Continue(<< >>)
  <2>1. Body(TRUE) \in Activations
    BY DEF Activations, Body
  <2>2. NoClose(<< >>) /\ Thunky(<< >>)
    BY <2>1, Alone
  <2> QED BY <1>1, <1>2, <2>2, RunSteps
<1>3. CASE Top.left # 0
  <2> DEFINE f == Head(winders[w]).frame
             x == [Top EXCEPT !.left = Top.left - 1]
             y == [op |-> "dynamic-wind", frame |-> f]
  <2>1. Head(winders[w]) \in Entries
    BY <1>1, <1>3, Rest DEF TypeInv, WindInOut
  <2>2. f \in Frames
    BY <2>1 DEF Entries
  <2>3. Continue(Pushing(f, current) \o <<x, y>>)
    BY <1>3 DEF WindInOut
  <2>4. x \in Activations /\ x.op = "wind-in-out"
    <3>1. Top.left - 1 \in Nat
      BY <1>1, <1>3
    <3> QED BY <1>1, <3>1 DEF Activations
  <2> HIDE DEF f, x
  <2>5. y \in Activations /\ y.op = "dynamic-wind"
    BY <2>2 DEF Activations
  <2> HIDE DEF y
  <2>6. NoClose(<<x, y>>) /\ Thunky(<<x, y>>)
    BY <2>4, <2>5 DEF NoClose, Thunky, InThunk
  <2>7. NoClose(Pushing(f, current)) /\ Thunky(Pushing(f, current))
    BY <1>1, <2>2, PushingThunky
  <2>8. NoClose(Pushing(f, current) \o <<x, y>>) /\ Thunky(Pushing(f, current) \o <<x, y>>)
    BY <2>6, <2>7, Above
  <2> QED BY <1>1, <2>3, <2>8, RunSteps
<1> QED BY <1>2, <1>3 DEF WindInOut

(* The body of a coroutine has returned.                                    *)
LEMMA CoroutineEndsRuns ==
  ASSUME TypeInv, SInv, CoroutineEnds
  PROVE  SInv' /\ FreesOnly
<1>1. /\ Top.op = "end" /\ calls[current] # << >> /\ current \in Coroutines /\ Top.co \in Coroutines
      /\ UNCHANGED <<current, status, parent>> /\ Continue(Breaking(Top.co))
  BY TopIs, Fields DEF CoroutineEnds
<1>2. /\ Thunky(Breaking(Top.co)) /\ NoClose(Breaking(Top.co)) /\ Breaking(Top.co) # << >>
      /\ current # Main => Based(current, Breaking(Top.co))
  BY <1>1, BreakingThunky
<1>3. \A i \in DOMAIN Breaking(Top.co) : MayClose(Breaking(Top.co)[i])
  BY <1>2 DEF NoClose, MayClose
<1>4. Len(calls[current]) > 1 \/ current # Main
  <2>1. calls[current] \in Seq(Activations) /\ Top = calls[current][1] /\ Based(current, calls[current])
    BY <1>1, Rest DEF TypeInv, Top, SInv, StackInv
  <2> DEFINE n == Len(calls[current])
  <2>2. n \in Nat /\ n # 0
    BY <1>1, <2>1, LenProperties, EmptySeq
  <2>3. n = 1 => current # Main
    BY <1>1, <2>1 DEF Based
  <2> HIDE DEF n
  <2>4. n > 1 \/ current # Main
    BY <2>2, <2>3
  <2> QED BY <2>4 DEF n
<1> QED BY <1>1, <1>2, <1>3, <1>4, RunStep

-----------------------------------------------------------------------------
(* A coroutine that is created is linked with none.                         *)
LEMMA CreateRuns ==
  ASSUME TypeInv, SInv, NEW c \in Coroutines, Create(c)
  PROVE  SInv' /\ FreesOnly
<1>1. /\ LinkType /\ LinkInv /\ StackInv /\ WaitInv /\ current \in Coroutines
      /\ calls \in [Coroutines -> Seq(Activations)]
      /\ status \in [Coroutines -> {"unborn", "active", "suspended", "open", "closed"}]
  BY DEF TypeInv, TypeOK, LinkType, SInv
<1> DEFINE x == Body(FALSE)
           y == [op |-> "end", co |-> c]
           new == <<x, y>>
<1>2. x.op = "body" /\ y.op = "end"
  BY DEF Body
<1>3. /\ status[c] = "unborn" /\ UNCHANGED <<current, parent>>
      /\ \A d \in Coroutines : status'[d] = IF d = c THEN "open" ELSE status[d]
      /\ \A d \in Coroutines : calls'[d] = IF d = c THEN new ELSE calls[d]
  BY <1>1 DEF Create
<1> HIDE DEF x, y
<1>4. DOMAIN new = {1, 2} /\ new[1] = x /\ new[2] = y /\ new # << >> /\ Len(new) = 2
  OBVIOUS
<1> HIDE DEF new
<1>5. c # current /\ c # Main /\ Main \in Coroutines
  BY <1>1, <1>3, BoundsAssumption DEF LinkInv, StatusInv, Main, Coroutines
<1>6. parent[c] = None
  BY <1>1, <1>3 DEF LinkInv, StatusInv
<1>7. \A d \in Coroutines : parent[d] # c
  BY <1>1, <1>3, <1>6, NoneIs, BoundsAssumption DEF LinkInv, StatusInv
<1>8. LinkInv'
  <2>1. Ranked' /\ OneInFront'
    BY <1>1, <1>3 DEF LinkInv, Ranked, Down, OneInFront
  <2>2. \A d \in Coroutines : parent[d] # None => parent[d] \in Coroutines /\ status'[parent[d]] = status[parent[d]]
    BY <1>1, <1>3, <1>7 DEF LinkType
  <2>3. status'[Main] = status[Main] /\ status'[current] = status[current]
    BY <1>1, <1>3, <1>5
  <2>4. StatusInv'
    BY <1>1, <1>3, <1>6, <1>7, <2>2, <2>3 DEF LinkInv, StatusInv
  <2> QED BY <2>1, <2>4 DEF LinkInv
<1>9. WaitInv'
  <2> SUFFICES ASSUME NEW d \in Coroutines, parent[d] # None
               PROVE  IF status'[d] = "active" THEN WaitsFor(parent[d], d)' ELSE WaitsFor(d, parent[d])'
    BY <1>3 DEF WaitInv, WaitsFor, Alive
  <2>1. parent[d] \in Coroutines /\ parent[d] # c /\ d # c
    BY <1>1, <1>6, <1>7 DEF LinkType
  <2>2. status'[d] = status[d] /\ calls'[d] = calls[d] /\ calls'[parent[d]] = calls[parent[d]]
    BY <1>3, <2>1
  <2> QED BY <1>1, <1>3, <2>2 DEF WaitInv, WaitsFor, Alive
<1>10. StackInv'
  <2>1. Shaped(new) /\ Based(c, new)
    BY <1>2, <1>4, <1>5 DEF Shaped, Based
  <2> QED BY <1>1, <1>3, <2>1 DEF StackInv, Based
<1>11. CloseInv'
  <2>1. PICK D \in SUBSET Coroutines : Doomed(D) /\ ClosesBy(D)
    BY DEF SInv, CloseInv
  <2>2. c \notin D
    BY <1>3, <2>1 DEF Doomed
  <2>3. Doomed(D)'
    BY <1>3, <2>1, <2>2 DEF Doomed
  <2>4. ASSUME NEW d \in Coroutines \ D, NEW i \in DOMAIN calls'[d], calls'[d][i].op = "close"
        PROVE  d = current' /\ status'[calls'[d][i].co] \in {"open", "closed"}
    <3>1. d # c
      BY <1>2, <1>3, <1>4, <2>4
    <3>2. calls'[d] = calls[d] /\ d = current /\ MayClose(calls[d][i]) /\ calls[d] \in Seq(Activations)
      BY <1>1, <1>3, <2>1, <2>4, <3>1 DEF ClosesBy
    <3>3. calls[d][i] \in Activations
      BY <2>4, <3>2, ElementOfSeq, LenProperties
    <3>4. calls[d][i].co \in Coroutines
      BY <2>4, <3>2, <3>3, Fields
    <3>5. status'[calls[d][i].co] \in {"open", "closed"}
      BY <1>3, <2>4, <3>2, <3>4 DEF MayClose
    <3> QED BY <1>3, <3>2, <3>5
  <2>5. ClosesBy(D)'
    BY <2>4 DEF ClosesBy, MayClose
  <2> QED BY <2>3, <2>5 DEF CloseInv
<1>12. FreesOnly
  BY <1>3, <1>4 DEF FreesOnly
<1> QED BY <1>8, <1>9, <1>10, <1>11, <1>12 DEF SInv

(* Where no close may be: below what is no thunk and waits for none.        *)
LEMMA NoCloses ==
  ASSUME TypeInv, SInv, calls[current] # << >>, ~InThunk(Top),
         NEW D \in SUBSET Coroutines, ClosesBy(D)
  PROVE  \A c \in Coroutines \ D : \A i \in DOMAIN calls[c] : calls[c][i].op # "close"
<1>1. /\ current \in Coroutines /\ calls[current] \in Seq(Activations)
      /\ Top = calls[current][1] /\ 1 \in DOMAIN calls[current]
  BY Rest DEF TypeInv, TypeOK, Top
<1>2. ASSUME NEW i \in DOMAIN calls[current], calls[current][i].op = "close"
      PROVE  FALSE
  <2>1. i # 1
    BY <1>1, <1>2 DEF InThunk
  <2>2. 1 < i
    BY <1>1, <2>1, LenProperties
  <2> QED BY <1>1, <1>2, <2>2 DEF SInv, StackInv, Shaped
<1> QED BY <1>2 DEF ClosesBy

(* A coroutine that is attached: the one that ran waits for it.             *)
LEMMA ResumeRuns ==
  ASSUME TypeInv, SInv, Straight', NEW c \in Coroutines, Resume(c)
  PROVE  SInv' /\ FreesOnly
<1>1. /\ LinkType /\ LinkInv /\ StackInv /\ WaitInv /\ current \in Coroutines
      /\ calls \in [Coroutines -> Seq(Activations)]
  BY DEF TypeInv, TypeOK, LinkType, SInv
<1>2. /\ status[c] = "open" /\ calls[current] # << >> /\ ~InThunk(Top)
      /\ Attach(c) /\ Call(<<[op |-> "resume", co |-> c]>>)
  BY MayThunk DEF Resume
<1> DEFINE T == ToSet(ChainFrom(c))
<1>3. Attached(c, T) /\ LinkInv' /\ LinkType'
  <2>1. Attached(c, T)
    BY <1>1, <1>2, AttachedIs
  <2>2. LinkType'
    BY <1>2, AttachIs DEF LinkType
  <2> QED BY <1>1, <1>2, <2>1, <2>2, AttachLinks
<1> HIDE DEF T
<1> DEFINE x == [op |-> "resume", co |-> c]
           top == <<x>> \o calls[current]
<1>4. x \in Activations /\ x.op = "resume"
  BY DEF Activations
<1>5. \A d \in Coroutines : calls'[d] = IF d = current THEN top ELSE calls[d]
  BY <1>1, <1>2 DEF Call
<1>6. Head(top) = x
  BY <1>1
<1> HIDE DEF x
<1>7. IsStack(current, calls[current], <<x>>, top)
  <2>1. Shaped(calls[current]) /\ Based(current, calls[current])
    BY <1>1, <1>2 DEF StackInv
  <2>2. NoClose(<<x>>)
    BY <1>4, Alone
  <2>3. PutOn(current, calls[current], <<x>>, calls[current])
    BY <1>1, <1>2, <2>1, <2>2 DEF PutOn, Top
  <2> QED BY <2>3, StackJoined
<1> HIDE DEF top
<1>8. current \notin T /\ c \in T /\ T \subseteq Coroutines
  BY <1>1, <1>3 DEF Attached, LinkInv, StatusInv
<1>9. StackInv'
  BY <1>1, <1>5, <1>7 DEF StackInv, IsStack, Based
<1>10. WaitInv'
  <2> SUFFICES ASSUME NEW d \in Coroutines, parent'[d] # None
               PROVE  IF status'[d] = "active" THEN Waits(calls', parent'[d], d)
                                               ELSE Waits(calls', d, parent'[d])
    BY DEF WaitInv, WaitsFor, Alive, Waits
  <2>1. CASE d = c
    <3>1. parent'[d] = current /\ status'[d] = "active"
      BY <1>3, <1>8, <2>1 DEF Attached
    <3>2. top # << >>
      BY <1>7 DEF IsStack
    <3> QED BY <1>1, <1>5, <1>6, <2>1, <3>1, <3>2 DEF Waits, x
  <2>2. CASE d \in T \ {c}
    <3> DEFINE e == parent'[d]
    <3>1. e \in T /\ parent[e] = d /\ status[e] # "active" /\ status'[d] = "active"
      BY <1>3, <2>2 DEF Attached
    <3> HIDE DEF e
    <3>2. e \in Coroutines /\ e # current
      BY <1>8, <3>1
    <3>3. Waits(calls, e, d)
      BY <1>1, <3>1, <3>2, NoneIs DEF WaitInv, WaitsFor, Alive, Waits
    <3>4. Waits(calls', e, d)
      BY <1>5, <3>2, <3>3 DEF Waits
    <3> QED BY <3>1, <3>4 DEF e
  <2>3. CASE d \notin T
    <3> DEFINE e == parent[d]
    <3>1. parent'[d] = e /\ status'[d] = status[d]
      BY <1>3, <2>3 DEF Attached
    <3>2. e \in Coroutines /\ e # current
      BY <1>1, <3>1 DEF LinkType, LinkInv, StatusInv
    <3>3. status[d] # "active" => d # current
      BY <1>1 DEF LinkInv, StatusInv
    <3>4. IF status[d] = "active" THEN Waits(calls, e, d) ELSE Waits(calls, d, e)
      BY <1>1, <3>1 DEF WaitInv, WaitsFor, Alive, Waits
    <3> HIDE DEF e
    <3>5. calls'[e] = calls[e] /\ (status[d] # "active" => calls'[d] = calls[d])
      BY <1>5, <3>2, <3>3
    <3> QED BY <3>1, <3>4, <3>5 DEF Waits
  <2> QED BY <2>1, <2>2, <2>3
<1>11. CloseInv'
  <2>1. PICK D \in SUBSET Coroutines : Doomed(D) /\ ClosesBy(D)
    BY DEF SInv, CloseInv
  <2>2. T \cap D = {}
    <3> DEFINE S == {d \in T : d \notin D}
    <3>1. c \in S
      BY <1>2, <1>8, <2>1 DEF Doomed
    <3>2. ASSUME NEW d \in S, parent[d] # None PROVE parent[d] \in S
      <4>1. d \in Coroutines /\ parent[d] \in T /\ parent[d] \in Coroutines /\ status[d] # "active"
        BY <1>3, <1>8, <3>2 DEF Attached
      <4>2. status[parent[d]] = "suspended"
        BY <1>1, <3>2, <4>1 DEF LinkInv, StatusInv
      <4>3. ASSUME parent[d] \in D PROVE FALSE
        <5>1. PICK e \in D : parent[e] = parent[d]
          BY <2>1, <4>2, <4>3 DEF Doomed
        <5>2. e = d
          BY <1>1, <2>1, <3>2, <4>1, <5>1 DEF LinkInv, OneInFront
        <5> QED BY <5>2
      <4> QED BY <4>1, <4>3
    <3>3. \A U : c \in U /\ (\A d \in U : parent[d] # None => parent[d] \in U) => T \subseteq U
      BY <1>1, ChainSet DEF T, LinkInv
    <3> HIDE DEF S
    <3>4. T \subseteq S
      BY <3>1, <3>2, <3>3
    <3> QED BY <3>4 DEF S
  <2>3. Doomed(D)'
    <3>1. \A d \in D : status'[d] = status[d] /\ parent'[d] = parent[d]
      BY <1>3, <2>1, <2>2 DEF Attached
    <3> QED BY <2>1, <3>1 DEF Doomed
  <2>4. ASSUME NEW d \in Coroutines \ D, NEW i \in DOMAIN calls'[d], calls'[d][i].op = "close"
        PROVE  FALSE
    <3>1. \A e \in Coroutines \ D : \A j \in DOMAIN calls[e] : calls[e][j].op # "close"
      BY <1>2, <2>1, NoCloses
    <3>2. d = current
      BY <1>5, <2>4, <3>1
    <3>3. \/ \E j \in DOMAIN <<x>> : calls'[d][i] = <<x>>[j]
          \/ \E j \in DOMAIN calls[current] : calls'[d][i] = calls[current][j]
      BY <1>1, <1>5, <1>7, <2>4, <3>2 DEF IsStack
    <3> QED BY <1>4, <2>4, <3>1, <3>2, <3>3
  <2>5. ClosesBy(D)'
    BY <2>4 DEF ClosesBy
  <2> QED BY <2>3, <2>5 DEF CloseInv
<1>12. FreesOnly
  BY <1>5, <1>7 DEF FreesOnly, IsStack
<1> QED BY <1>3, <1>9, <1>10, <1>11, <1>12 DEF SInv

(* Those that are detached: each waits for the one it resumed.              *)
LEMMA DetachWaits ==
  ASSUME TypeInv, SInv, LinkType', NEW c \in Coroutines, NEW T, Detached(c, T),
         \A d \in Coroutines \ {current} : calls'[d] = calls[d]
  PROVE  WaitInv'
<1>1. LinkType /\ LinkInv /\ WaitInv /\ T \subseteq Coroutines
  BY DEF TypeInv, TypeOK, LinkType, SInv, Detached
<1> SUFFICES ASSUME NEW d \in Coroutines, parent'[d] # None
             PROVE  IF status'[d] = "active" THEN Waits(calls', parent'[d], d)
                                             ELSE Waits(calls', d, parent'[d])
  BY DEF WaitInv, WaitsFor, Alive, Waits
<1>2. CASE d \in T
  <2> DEFINE e == parent'[d]
  <2>1. /\ e \in T /\ parent[e] = d /\ status[e] = "active" /\ d # current
        /\ status'[d] # "active"
    BY <1>1, <1>2 DEF Detached
  <2> HIDE DEF e
  <2>2. Waits(calls, d, e)
    BY <1>1, <2>1, NoneIs DEF WaitInv, WaitsFor, Alive, Waits
  <2> QED BY <2>1, <2>2 DEF Waits, e
<1>3. CASE d \notin T
  <2> DEFINE e == parent[d]
  <2>1. parent'[d] = e /\ status'[d] = status[d]
    BY <1>3 DEF Detached
  <2>2. e \in Coroutines /\ e # current
    BY <1>1, <2>1 DEF LinkType, LinkInv, StatusInv
  <2>3. d # current
    BY <1>3 DEF Detached
  <2>4. IF status[d] = "active" THEN Waits(calls, e, d) ELSE Waits(calls, d, e)
    BY <1>1, <2>1 DEF WaitInv, WaitsFor, Alive, Waits
  <2> HIDE DEF e
  <2> QED BY <2>1, <2>2, <2>3, <2>4 DEF Waits
<1> QED BY <1>2, <1>3

(* A coroutine that suspends is detached.                                   *)
LEMMA SuspendedRuns ==
  ASSUME TypeInv, SInv, Suspended
  PROVE  SInv' /\ FreesOnly
<1> DEFINE c == Top.co
           T == ToSet(ChainTo(current, c))
           x == [Top EXCEPT !.op = "suspended"]
           top == <<x>> \o Tail(calls[current])
<1>1. /\ LinkType /\ LinkInv /\ StackInv /\ WaitInv /\ current \in Coroutines
      /\ calls \in [Coroutines -> Seq(Activations)]
  BY DEF TypeInv, TypeOK, LinkType, SInv
<1>2. /\ Top \in Activations /\ Top.op = "suspend" /\ calls[current] # << >> /\ c \in Coroutines
      /\ x \in Activations /\ Detach(c, "open") /\ Reaches(current, c)
      /\ calls' = [calls EXCEPT ![current] = top]
  BY TopIs, Fields DEF Suspended, Continue
<1>3. x.op = "suspended"
  BY <1>2, SMT DEF Activations
<1>4. ~InThunk(Top)
  BY <1>2 DEF InThunk
<1>5. \A d \in Coroutines : calls'[d] = IF d = current THEN top ELSE calls[d]
  BY <1>1, <1>2
<1> HIDE DEF c, x
<1>6. Detached(c, T) /\ LinkInv' /\ LinkType'
  <2>1. Detached(c, T)
    BY <1>1, <1>2, DetachedIs
  <2>2. LinkType'
    BY <1>2, DetachIs DEF LinkType
  <2> QED BY <1>1, <1>2, <2>1, <2>2, DetachLinks
<1> HIDE DEF T
<1>7. IsStack(current, calls[current], <<x>>, top)
  <2>1. Shaped(calls[current]) /\ Based(current, calls[current])
    BY <1>1, <1>2 DEF StackInv
  <2>2. NoClose(<<x>>)
    BY <1>2, <1>3, Alone
  <2>3. Len(calls[current]) > 1
    BY <1>2, NotFirst
  <2>4. PutOn(current, calls[current], <<x>>, Tail(calls[current]))
    BY <1>1, <1>2, <1>4, <2>1, <2>2, <2>3 DEF PutOn, Top
  <2> QED BY <2>4, StackJoined
<1> HIDE DEF top
<1>8. StackInv'
  BY <1>1, <1>5, <1>7 DEF StackInv, IsStack, Based
<1>9. WaitInv'
  BY <1>2, <1>5, <1>6, DetachWaits
<1>10. CloseInv'
  <2>1. PICK D \in SUBSET Coroutines : Doomed(D) /\ ClosesBy(D)
    BY DEF SInv, CloseInv
  <2>2. \A d \in D : d \notin T /\ status'[d] = status[d] /\ parent'[d] = parent[d]
    BY <1>6, <2>1 DEF Doomed, Detached
  <2>3. Doomed(D)'
    BY <2>1, <2>2 DEF Doomed
  <2>4. ASSUME NEW d \in Coroutines \ D, NEW i \in DOMAIN calls'[d], calls'[d][i].op = "close"
        PROVE  FALSE
    <3>1. \A e \in Coroutines \ D : \A j \in DOMAIN calls[e] : calls[e][j].op # "close"
      BY <1>2, <1>4, <2>1, NoCloses
    <3>2. d = current
      BY <1>5, <2>4, <3>1
    <3>3. \/ \E j \in DOMAIN <<x>> : calls'[d][i] = <<x>>[j]
          \/ \E j \in DOMAIN calls[current] : calls'[d][i] = calls[current][j]
      BY <1>1, <1>5, <1>7, <2>4, <3>2 DEF IsStack
    <3> QED BY <1>3, <2>4, <3>1, <3>2, <3>3
  <2>5. ClosesBy(D)'
    BY <2>4 DEF ClosesBy
  <2> QED BY <2>3, <2>5 DEF CloseInv
<1>11. FreesOnly
  BY <1>5, <1>7 DEF FreesOnly, IsStack
<1> QED BY <1>6, <1>8, <1>9, <1>10, <1>11 DEF SInv

(* A coroutine that is broken out of: neither it nor those in front of it   *)
(* ever run again.                                                          *)
LEMMA BrokenRuns ==
  ASSUME TypeInv, SInv, Broken
  PROVE  SInv' /\ FreesOnly
<1> DEFINE c == Top.co
           T == ToSet(ChainTo(current, c))
<1>1. LinkType /\ LinkInv /\ StackInv /\ WaitInv /\ current \in Coroutines
  BY DEF TypeInv, TypeOK, LinkType, SInv
<1>2. c \in Coroutines /\ Detach(c, "closed") /\ Reaches(current, c) /\ calls' = calls
  BY TopIs, Fields DEF Broken
<1> HIDE DEF c
<1>3. Detached(c, T) /\ LinkInv' /\ LinkType' /\ status'[c] = "closed"
  <2>1. Detached(c, T) /\ status'[c] = "closed"
    BY <1>1, <1>2, DetachedIs
  <2>2. LinkType'
    BY <1>2, DetachIs DEF LinkType
  <2> QED BY <1>1, <1>2, <2>1, <2>2, DetachLinks
<1> HIDE DEF T
<1>4. WaitInv'
  BY <1>2, <1>3, DetachWaits
<1>5. StackInv' /\ FreesOnly
  BY <1>1, <1>2 DEF StackInv, FreesOnly
<1>6. CloseInv'
  <2>1. PICK D \in SUBSET Coroutines : Doomed(D) /\ ClosesBy(D)
    BY DEF SInv, CloseInv
  <2>2. \A d \in D : d \notin T /\ status'[d] = status[d] /\ parent'[d] = parent[d]
    BY <1>3, <2>1 DEF Doomed, Detached
  <2>3. ASSUME NEW d \in T \ {c} PROVE status'[d] = "suspended" /\ \E e \in T : parent'[e] = d
    <3>1. status'[d] = "suspended" /\ parent[d] \in T /\ parent[d] # current /\ parent[d] # None
      BY <1>1, <1>3, NoneIs DEF Detached, LinkInv, StatusInv
    <3>2. parent'[parent[d]] \in T /\ parent[parent'[parent[d]]] = parent[d]
      BY <1>3, <3>1 DEF Detached
    <3>3. parent'[parent[d]] = d
      BY <1>1, <1>3, <3>1, <3>2 DEF LinkInv, OneInFront, Detached
    <3> QED BY <3>1, <3>3
  <2>4. PICK E \in SUBSET Coroutines : E = D \cup T
    BY <1>3, <2>1 DEF Detached
  <2>5. Doomed(E)'
    BY <1>3, <2>1, <2>2, <2>3, <2>4 DEF Doomed
  <2>6. current \in E
    BY <1>3, <2>4 DEF Detached
  <2>7. ClosesBy(E)'
    BY <1>2, <2>1, <2>4, <2>6 DEF ClosesBy
  <2> QED BY <2>5, <2>7 DEF CloseInv
<1> QED BY <1>3, <1>4, <1>5, <1>6 DEF SInv

(* Coroutines that are freed: none that runs.                               *)
LEMMA FreedRuns ==
  ASSUME TypeInv, SInv, calls[current] # << >>, Top.op \in {"resume", "close"},
         NEW c \in Coroutines, status[c] \in {"open", "closed"},
         Freed(c, Returned), UNCHANGED current, LinkType'
  PROVE  SInv' /\ FreesOnly
<1> DEFINE T == ToSet(ChainFrom(c))
           top == << >> \o Tail(calls[current])
<1>1. /\ LinkType /\ LinkInv /\ StackInv /\ WaitInv /\ current \in Coroutines
      /\ calls \in [Coroutines -> Seq(Activations)]
  BY DEF TypeInv, TypeOK, LinkType, SInv
<1>2. /\ Dropped(c, T)
      /\ calls' = [d \in Coroutines |-> IF d \in T THEN << >> ELSE Returned[d]]
  BY <1>1, DroppedIs
<1>3. LinkInv'
  BY <1>1, <1>2, DropLinks
<1> HIDE DEF T
<1>4. current \notin T /\ T \subseteq Coroutines
  BY <1>1, <1>2 DEF Dropped, LinkInv, StatusInv
<1>5. /\ \A d \in Coroutines \ T : calls'[d] = IF d = current THEN top ELSE calls[d]
      /\ \A d \in T : calls'[d] = << >>
  <2>1. Tail(calls[current]) \in Seq(Activations)
    BY <1>1, Rest
  <2>2. << >> \o Tail(calls[current]) = Tail(calls[current])
    BY <2>1, ConcatEmptySeq
  <2> QED BY <1>1, <1>2, <1>4, <2>2 DEF Returned
<1>6. IsStack(current, calls[current], << >>, top)
  <2>1. Shaped(calls[current]) /\ Based(current, calls[current])
    BY <1>1 DEF StackInv
  <2>2. Thunky(<< >>)
    <3>1. Body(TRUE) \in Activations
      BY DEF Activations, Body
    <3> QED BY <3>1, Alone
  <2>3. Len(calls[current]) > 1
    BY NotFirst
  <2>4. PutOn(current, calls[current], << >>, Tail(calls[current]))
    BY <1>1, <2>1, <2>2, <2>3 DEF PutOn
  <2> QED BY <2>4, StackJoined
<1> HIDE DEF top
<1>7. StackInv'
  <2>1. Shaped(<< >>)
    BY DEF Shaped
  <2> QED BY <1>1, <1>5, <1>6, <2>1 DEF StackInv, IsStack, Based
<1>8. WaitInv'
  <2> SUFFICES ASSUME NEW d \in Coroutines, parent'[d] # None
               PROVE  IF status'[d] = "active" THEN Waits(calls', parent'[d], d)
                                               ELSE Waits(calls', d, parent'[d])
    BY DEF WaitInv, WaitsFor, Alive, Waits
  <2> DEFINE e == parent[d]
  <2>1. d \notin T /\ parent'[d] = e /\ status'[d] = status[d] /\ e \notin T
    BY <1>2 DEF Dropped
  <2>2. e \in Coroutines /\ e # current
    BY <1>1, <2>1 DEF LinkType, LinkInv, StatusInv
  <2>3. status[d] # "active" => d # current
    BY <1>1 DEF LinkInv, StatusInv
  <2>4. IF status[d] = "active" THEN Waits(calls, e, d) ELSE Waits(calls, d, e)
    BY <1>1, <2>1 DEF WaitInv, WaitsFor, Alive, Waits
  <2> HIDE DEF e
  <2>5. calls'[e] = calls[e] /\ (status[d] # "active" => calls'[d] = calls[d])
    BY <1>5, <2>1, <2>2, <2>3
  <2> QED BY <2>1, <2>4, <2>5 DEF Waits
<1>9. CloseInv'
  <2>1. PICK D \in SUBSET Coroutines : Doomed(D) /\ ClosesBy(D)
    BY DEF SInv, CloseInv
  <2>2. ASSUME NEW d \in D
        PROVE  status'[d] = "closed" \/ (status'[d] = "suspended" /\ \E e \in D : parent'[e] = d)
    <3>1. CASE d \in T \/ status[d] = "closed"
      BY <1>2, <2>1, <3>1 DEF Dropped
    <3>2. CASE d \notin T /\ status[d] # "closed"
      <4>1. PICK e \in D : parent[e] = d
        BY <2>1, <3>2 DEF Doomed
      <4>2. e \notin T
        BY <1>2, <2>1, <3>2, <4>1, NoneIs DEF Dropped
      <4> QED BY <1>2, <2>1, <3>2, <4>1, <4>2 DEF Dropped, Doomed
    <3> QED BY <3>1, <3>2
  <2>3. Doomed(D)'
    BY <2>2 DEF Doomed
  <2>4. current \notin D
    BY <1>1, <2>1 DEF Doomed, LinkInv, StatusInv
  <2>5. ASSUME NEW d \in Coroutines \ D, NEW i \in DOMAIN calls'[d], calls'[d][i].op = "close"
        PROVE  d = current' /\ status'[calls'[d][i].co] \in {"open", "closed"}
    <3>1. d \notin T
      BY <1>5, <2>5
    <3>2. PICK b \in Coroutines \ D : \E j \in DOMAIN calls[b] : calls'[d][i] = calls[b][j] /\ b = d
      <4>1. CASE d # current
        BY <1>5, <2>5, <3>1, <4>1
      <4>2. CASE d = current
        BY <1>5, <1>6, <2>5, <3>1, <4>2 DEF IsStack
      <4> QED BY <4>1, <4>2
    <3>3. PICK j \in DOMAIN calls[d] : calls'[d][i] = calls[d][j]
      BY <3>2
    <3>4. d = current /\ MayClose(calls[d][j])
      BY <2>1, <2>5, <3>3 DEF ClosesBy
    <3>5. calls[d][j] \in Activations
      BY <1>1, ElementOfSeq, LenProperties
    <3>6. calls[d][j].co \in Coroutines
      BY <2>5, <3>3, <3>5, Fields
    <3>7. status[calls[d][j].co] \in {"open", "closed"}
      BY <2>5, <3>3, <3>4 DEF MayClose
    <3>8. status'[calls[d][j].co] \in {"open", "closed"}
      BY <1>2, <3>6, <3>7 DEF Dropped
    <3> QED BY <3>3, <3>4, <3>8
  <2>6. ClosesBy(D)'
    BY <2>5 DEF ClosesBy, MayClose
  <2> QED BY <2>3, <2>6 DEF CloseInv
<1>10. FreesOnly
  BY <1>2, <1>4, <1>5, <1>6 DEF FreesOnly, IsStack, Dropped, Active
<1> QED BY <1>3, <1>7, <1>8, <1>9, <1>10 DEF SInv

(* close frees what it closed.                                              *)
LEMMA ClosedRuns ==
  ASSUME TypeInv, PushesOnce, SInv, Closed
  PROVE  SInv' /\ FreesOnly
<1>1. /\ Top.op = "close" /\ calls[current] # << >> /\ current \in Coroutines /\ Top.co \in Coroutines
      /\ Freed(Top.co, Returned) /\ UNCHANGED current
  BY TopIs, Fields DEF Closed
<1>2. PICK D \in SUBSET Coroutines : Doomed(D) /\ ClosesBy(D)
  BY DEF SInv, CloseInv
<1>3. current \in Coroutines \ D
  BY <1>1, <1>2 DEF Doomed, SInv, LinkInv, StatusInv
<1>4. Top = calls[current][1] /\ 1 \in DOMAIN calls[current]
  BY <1>1, Rest DEF TypeInv, Top
<1>5. status[Top.co] \in {"open", "closed"}
  BY <1>1, <1>2, <1>3, <1>4 DEF ClosesBy, MayClose
<1>6. LinkType'
  BY <1>1, FreedIs DEF LinkType
<1> QED BY <1>1, <1>5, <1>6, FreedRuns

(* resume frees what was broken out of.                                     *)
LEMMA ResumedRuns ==
  ASSUME TypeInv, PushesOnce, SInv, Resumed
  PROVE  SInv' /\ FreesOnly
<1>1. /\ Top.op = "resume" /\ calls[current] # << >> /\ current \in Coroutines /\ Top.co \in Coroutines
      /\ UNCHANGED current
  BY TopIs, Fields DEF Resumed
<1>2. CASE status[Top.co] = "closed"
  <2>1. Freed(Top.co, Returned)
    BY <1>2 DEF Resumed
  <2>2. LinkType'
    BY <1>1, <2>1, FreedIs DEF LinkType
  <2> QED BY <1>1, <1>2, <2>1, <2>2, FreedRuns
<1>3. CASE status[Top.co] # "closed"
  <2>1. calls' = Returned /\ UNCHANGED <<parent, status>>
    BY <1>3 DEF Resumed
  <2>2. Continue(<< >>)
    <3> DEFINE r == Tail(calls[current])
    <3>1. r \in Seq(Activations) /\ calls' = [calls EXCEPT ![current] = r]
      BY <1>1, <2>1, Rest DEF TypeInv, TypeOK, Returned
    <3> HIDE DEF r
    <3>2. << >> \o r = r
      BY <3>1, ConcatEmptySeq
    <3>3. calls' = [calls EXCEPT ![current] = << >> \o r]
      BY <3>1, <3>2
    <3> QED BY <3>3 DEF Continue, r
  <2>3. NoClose(<< >>) /\ Thunky(<< >>)
    <3>1. Body(TRUE) \in Activations
      BY DEF Activations, Body
    <3> QED BY <3>1, Alone
  <2> QED BY <1>1, <2>1, <2>2, <2>3, RunSteps
<1> QED BY <1>2, <1>3

-----------------------------------------------------------------------------
(* The active coroutines are those that the running one leads to.           *)
LEMMA ActiveChain ==
  ASSUME TypeInv, LinkInv
  PROVE  Active = ToSet(ChainFrom(current))
<1> DEFINE A == ToSet(ChainFrom(current))
<1>1. LinkType /\ Ranked /\ StatusInv /\ current \in Coroutines
  BY DEF TypeInv, TypeOK, LinkType, LinkInv
<1>2. /\ A \subseteq Coroutines /\ current \in A
      /\ \A d \in A : parent[d] # None => parent[d] \in A
      /\ \A S : current \in S /\ (\A d \in S : parent[d] # None => parent[d] \in S) => A \subseteq S
  BY <1>1, ChainSet
<1> HIDE DEF A
<1>3. A \subseteq Active
  <2>1. current \in Active
    BY <1>1 DEF Active, StatusInv
  <2>2. ASSUME NEW d \in Active, parent[d] # None PROVE parent[d] \in Active
    <3>1. parent[d] \in Coroutines /\ d # Main
      BY <1>1, <2>2 DEF LinkType, StatusInv, Active
    <3> QED BY <1>1, <2>2, <3>1 DEF StatusInv, Active
  <2> QED BY <1>2, <2>1, <2>2
<1>4. Active \subseteq A
  <2> DEFINE Others == {d \in Coroutines : d \in Active /\ d \notin A}
  <2>1. ASSUME Others # {} PROVE FALSE
    <3>1. PICK B \in Nat : \E rank \in [Coroutines -> 0 .. B] : Down(rank)
      BY <1>1 DEF Ranked
    <3>2. PICK rank \in [Coroutines -> 0 .. B] : Down(rank)
      BY <3>1
    <3>3. PICK m \in Others : \A d \in Others : rank[d] <= rank[m]
      BY <2>1, <3>2, Greatest
    <3>4. PICK d \in Coroutines : parent[d] = m
      BY <1>1, <1>2, <3>3 DEF StatusInv, Active
    <3>5. d \in Active /\ d \notin A
      BY <1>1, <1>2, <3>3, <3>4, NoneIs DEF StatusInv, Active
    <3>6. rank[m] < rank[d]
      BY <3>2, <3>3, <3>4, NoneIs DEF Down
    <3>7. rank[d] <= rank[m]
      BY <3>3, <3>5
    <3>8. rank[d] \in 0 .. B /\ rank[m] \in 0 .. B
      BY <3>2, <3>3
    <3> QED BY <3>6, <3>7, <3>8
  <2>2. Active \subseteq Coroutines
    BY DEF Active
  <2> QED BY <2>1, <2>2
<1> QED BY <1>3, <1>4 DEF A

(* A suspended coroutine is behind one that is open or closed, ...          *)
LEMMA SomeInFront ==
  ASSUME TypeInv, LinkInv, NEW c \in Coroutines, status[c] = "suspended"
  PROVE  \E d \in Coroutines : status[d] \in {"open", "closed"} /\ Reaches(d, c)
<1>1. /\ LinkType /\ Ranked /\ StatusInv
      /\ status \in [Coroutines -> {"unborn", "active", "suspended", "open", "closed"}]
  BY DEF TypeInv, TypeOK, LinkType, LinkInv
<1> DEFINE Behind == {d \in Coroutines : status[d] # "active" /\ Reaches(d, c)}
<1>2. c \in Behind
  BY <1>1, ChainSet DEF Reaches
<1>3. PICK B \in Nat : \E rank \in [Coroutines -> 0 .. B] : Down(rank)
  BY <1>1 DEF Ranked
<1>4. PICK rank \in [Coroutines -> 0 .. B] : Down(rank)
  BY <1>3
<1>5. PICK m \in Behind : \A d \in Behind : rank[d] <= rank[m]
  BY <1>2, <1>4, Greatest
<1>6. m \in Coroutines /\ status[m] # "active" /\ c \in ToSet(ChainFrom(m))
  BY <1>5 DEF Reaches
<1>7. status[m] # "suspended"
  <2> SUFFICES ASSUME status[m] = "suspended" PROVE FALSE
    OBVIOUS
  <2>1. PICK d \in Coroutines : parent[d] = m
    BY <1>1, <1>6 DEF StatusInv
  <2>2. status[d] # "active"
    BY <1>1, <1>6, <2>1, NoneIs DEF StatusInv
  <2>3. ToSet(ChainFrom(m)) \subseteq ToSet(ChainFrom(d))
    <3>1. /\ d \in ToSet(ChainFrom(d))
          /\ \A e \in ToSet(ChainFrom(d)) : parent[e] # None => parent[e] \in ToSet(ChainFrom(d))
      BY <1>1, ChainSet
    <3>2. m \in ToSet(ChainFrom(d))
      BY <1>6, <2>1, <3>1, NoneIs
    <3>3. \A S : m \in S /\ (\A e \in S : parent[e] # None => parent[e] \in S)
                   => ToSet(ChainFrom(m)) \subseteq S
      BY <1>1, <1>6, ChainSet
    <3> QED BY <3>1, <3>2, <3>3
  <2>4. d \in Behind
    BY <1>6, <2>2, <2>3 DEF Reaches
  <2>5. rank[m] < rank[d] /\ rank[d] <= rank[m]
    BY <1>4, <1>5, <1>6, <2>1, <2>4, NoneIs DEF Down
  <2>6. rank[d] \in 0 .. B /\ rank[m] \in 0 .. B
    BY <1>4, <1>6
  <2> QED BY <2>5, <2>6
<1>8. status[m] # "unborn"
  <2> SUFFICES ASSUME status[m] = "unborn" PROVE FALSE
    OBVIOUS
  <2>1. parent[m] = None
    BY <1>1, <1>6 DEF StatusInv
  <2>2. ToSet(ChainFrom(m)) \subseteq {m}
    <3>1. \A S : m \in S /\ (\A e \in S : parent[e] # None => parent[e] \in S)
                   => ToSet(ChainFrom(m)) \subseteq S
      BY <1>1, <1>6, ChainSet
    <3> QED BY <2>1, <3>1
  <2> QED BY <1>6, <2>2
<1> QED BY <1>1, <1>6, <1>7, <1>8 DEF Reaches

(* ... and of one only.                                                     *)
LEMMA OneInFrontOf ==
  ASSUME TypeInv, LinkInv, NEW c \in Coroutines,
         NEW d \in Coroutines, status[d] \in {"open", "closed"}, Reaches(d, c),
         NEW e \in Coroutines, status[e] \in {"open", "closed"}, Reaches(e, c)
  PROVE  d = e
<1> DEFINE T == ToSet(ChainFrom(d))
           U == ToSet(ChainFrom(e))
<1>1. LinkType /\ Ranked
  BY DEF TypeInv, TypeOK, LinkType, LinkInv
<1>2. /\ T \subseteq Coroutines /\ \A b \in T : b # d => \E a \in T : parent[a] = b
      /\ \A b \in Coroutines \ T : parent[b] \notin T
  BY <1>1, ChainSet, InFront
<1>3. /\ U \subseteq Coroutines /\ e \in U /\ \A b \in U : parent[b] # None => parent[b] \in U
      /\ \A S : e \in S /\ (\A b \in S : parent[b] # None => parent[b] \in S) => U \subseteq S
      /\ \A b \in Coroutines : parent[b] # e
  BY <1>1, ChainSet, InFront
<1>4. c \in T /\ c \in U
  BY DEF Reaches
<1> HIDE DEF T, U
<1>5. e \in T
  <2> SUFFICES ASSUME e \notin T PROVE FALSE
    OBVIOUS
  <2>1. U \subseteq U \ T
    BY <1>2, <1>3
  <2> QED BY <1>4, <2>1
<1> QED BY <1>2, <1>3, <1>5

(* How the invariant says what the links mean.                              *)
LEMMA LinksAre ==
  ASSUME TypeInv, SInv
  PROVE  WellFormed
<1>1. LinkInv /\ StatusInv /\ Main \in Coroutines
  BY BoundsAssumption DEF SInv, LinkInv, Main, Coroutines
<1>2. Active = ToSet(ChainFrom(current)) /\ parent[Main] = None /\ Main \in Active
  BY <1>1, ActiveChain DEF StatusInv, Active
<1>3. ASSUME NEW c \in Coroutines, status[c] = "suspended"
      PROVE  Cardinality({d \in Coroutines : status[d] \in {"open", "closed"} /\ Reaches(d, c)}) = 1
  <2> DEFINE F == {d \in Coroutines : status[d] \in {"open", "closed"} /\ Reaches(d, c)}
  <2>1. PICK m \in Coroutines : status[m] \in {"open", "closed"} /\ Reaches(m, c)
    BY <1>1, <1>3, SomeInFront
  <2>2. \A d \in F : d = m
    BY <1>1, <2>1, OneInFrontOf
  <2>3. F = {m}
    BY <2>1, <2>2
  <2> HIDE DEF F
  <2>4. Cardinality(F) = 1
    BY <2>3, FS_Singleton
  <2> QED BY <2>4 DEF F
<1>4. ChainsWellFormed
  BY <1>2, <1>3 DEF ChainsWellFormed
<1>5. WaitsForChild
  BY DEF SInv, WaitInv, WaitsForChild, Active
<1> QED BY <1>4, <1>5 DEF TypeInv, WellFormed

-----------------------------------------------------------------------------
(* One coroutine, that runs.                                                *)
LEMMA LinksInit ==
  ASSUME Init
  PROVE  SInv
<1>1. /\ Main \in Coroutines /\ current = Main
      /\ \A c \in Coroutines : parent[c] = None /\ status[c] = (IF c = Main THEN "active" ELSE "unborn")
      /\ \A c \in Coroutines : calls[c] = IF c = Main THEN <<Body(FALSE)>> ELSE << >>
  BY BoundsAssumption DEF Init, Main, Coroutines
<1>2. LinkInv
  <2>1. Ranked
    <3> DEFINE rank == [c \in Coroutines |-> 0]
    <3>1. rank \in [Coroutines -> 0 .. 0] /\ Down(rank)
      BY <1>1 DEF Down
    <3> QED BY <3>1 DEF Ranked
  <2> QED BY <1>1, <2>1, NoneIs DEF LinkInv, OneInFront, StatusInv
<1>3. StackInv
  <2> DEFINE s == <<Body(FALSE)>>
  <2>1. DOMAIN s = {1} /\ Len(s) = 1 /\ s[1].op = "body" /\ DOMAIN << >> = {}
    BY DEF Body
  <2>2. \A c \in Coroutines : calls[c] = IF c = Main THEN s ELSE << >>
    BY <1>1
  <2> HIDE DEF s
  <2> QED BY <2>1, <2>2 DEF StackInv, Shaped, Based
<1>4. WaitInv
  BY <1>1 DEF WaitInv
<1>5. CloseInv
  <2>1. Doomed({})
    BY DEF Doomed
  <2>2. ClosesBy({})
    <3> DEFINE s == <<Body(FALSE)>>
    <3>1. DOMAIN s = {1} /\ s[1].op = "body" /\ DOMAIN << >> = {}
      BY DEF Body
    <3>2. \A c \in Coroutines : calls[c] = IF c = Main THEN s ELSE << >>
      BY <1>1
    <3> HIDE DEF s
    <3> QED BY <3>1, <3>2 DEF ClosesBy
  <2> QED BY <2>1, <2>2 DEF CloseInv
<1> QED BY <1>2, <1>3, <1>4, <1>5 DEF SInv

(* Every step keeps it, and frees only what is finished.                    *)
LEMMA LinksStep ==
  ASSUME Straight', IInv, SInv, Next
  PROVE  SInv' /\ FreesOnly
<1>1. TypeInv /\ PushesOnce
  BY DEF IInv, PlaceInv
<1>2. CASE Program
  BY <1>1, <1>2, ReturnRuns, CreateRuns, ResumeRuns, SuspendRuns, BreakRuns, CloseRuns, CollectRuns,
     DynamicWindRuns DEF Program
<1>3. CASE Runtime
  BY <1>1, <1>3, PushFrameRuns, BodyEndsRuns, WindOutRuns, SuspendedRuns, ReattachedRuns, WindInRuns,
     ResumedRuns, CoroutineEndsRuns, BrokenRuns, WindInOutRuns, ClosedRuns DEF Runtime
<1> QED BY <1>2, <1>3 DEF Next

(* What a thunk has done is not undone.                                     *)
LEMMA ThrownStays ==
  ASSUME [Next]_vars, ~thrown'
  PROVE  ~thrown
BY DEF Next, Program, Create, Resume, Suspend, Break, Close, Collect, DynamicWind, May, vars

(* The invariant, as long as no thunk has resumed or suspended.             *)
THEOREM CoroutinesLinked == Spec => [](IInv /\ (Straight => SInv))
<1>1. Init => SInv
  BY LinksInit
<1>2. IInv /\ (Straight => SInv) /\ [Next]_vars => (Straight' => SInv')
  <2> SUFFICES ASSUME IInv, Straight => SInv, [Next]_vars, Straight' PROVE SInv'
    OBVIOUS
  <2>0. SInv
    BY ThrownStays DEF Straight
  <2>1. CASE UNCHANGED vars
    BY <2>0, <2>1 DEF vars, SInv, LinkInv, Ranked, Down, OneInFront, StatusInv, WaitInv, WaitsFor, Alive,
       StackInv, CloseInv, Doomed, ClosesBy, MayClose
  <2>2. CASE Next
    BY <2>0, <2>2, LinksStep
  <2> QED BY <2>1, <2>2
<1>3. Spec => []IInv
  BY CoroutinesInvariant
<1> QED BY <1>1, <1>2, <1>3, PTL DEF Spec

(* The active coroutines are a chain, every suspended one is behind exactly *)
(* one that is open or closed, and each stack waits for the coroutine it is *)
(* linked with.                                                             *)
THEOREM CoroutinesWellFormed == NoSwitch => (Spec => []WellFormed)
<1> SUFFICES ASSUME NoSwitch PROVE Spec => []WellFormed
  OBVIOUS
<1>1. IInv /\ (Straight => SInv) => WellFormed
  BY LinksAre DEF IInv, Straight
<1>2. Spec => [](IInv /\ (Straight => SInv))
  BY CoroutinesLinked
<1> QED BY <1>1, <1>2, PTL

(* So are they, whatever thunks may do, until one does it.                  *)
THEOREM WellFormedUntilThrown == Spec => [](~thrown => WellFormed)
<1>1. IInv /\ (Straight => SInv) => (~thrown => WellFormed)
  BY LinksAre DEF IInv, Straight
<1>2. Spec => [](IInv /\ (Straight => SInv))
  BY CoroutinesLinked
<1> QED BY <1>1, <1>2, PTL

(* No stack is freed that an active coroutine uses.                         *)
THEOREM StacksFreed == NoSwitch => (Spec => FreesFinished)
<1> SUFFICES ASSUME NoSwitch PROVE Spec => FreesFinished
  OBVIOUS
<1>1. IInv /\ (Straight => SInv) /\ [Next]_vars =>
        [\A c \in Coroutines : calls[c] # << >> /\ calls'[c] = << >> => c \notin Active]_vars
  BY LinksStep DEF FreesOnly, Straight
<1>2. Spec => [](IInv /\ (Straight => SInv))
  BY CoroutinesLinked
<1> QED BY <1>1, <1>2, PTL DEF Spec, FreesFinished
-----------------------------------------------------------------------------
(* Numbers from k to n: the least is k.                                     *)
LEMMA LeastFrom ==
  ASSUME NEW k \in Nat, NEW n \in Nat, k <= n
  PROVE  Min(k .. n) = k /\ (k .. n) \ {k} = (k + 1) .. n
<1>1. k \in k .. n /\ \A y \in k .. n : k <= y
  OBVIOUS
<1>2. \A x \in k .. n : (\A y \in k .. n : x <= y) => x = k
  OBVIOUS
<1>3. Min(k .. n) = CHOOSE x \in k .. n : \A y \in k .. n : x <= y
  BY Zenon DEF Min
<1>4. (CHOOSE x \in k .. n : \A y \in k .. n : x <= y) = k
  BY <1>1, <1>2
<1> QED BY <1>3, <1>4

(* Some numbers up to n.                                                    *)
LEMMA SomeUpTo ==
  ASSUME NEW n \in Nat, NEW s \in SUBSET (1 .. n)
  PROVE  /\ IsFiniteSet(s) /\ Cardinality(s) \in Nat /\ Cardinality(s) <= n
         /\ s # {} => Min(s) \in s
<1>1. s \subseteq 1 .. n /\ s \subseteq Nat
  OBVIOUS
<1>2. IsFiniteSet(s) /\ Cardinality(s) <= Cardinality(1 .. n)
  BY <1>1, UpTo, FS_Subset
<1>3. ASSUME s # {} PROVE Min(s) \in s
  <2>1. \E m \in s : \A j \in s : m <= j
    BY <1>1, <1>3, LeastOf
  <2>2. Min(s) = CHOOSE x \in s : \A y \in s : x <= y
    BY Zenon DEF Min
  <2> QED BY <2>1, <2>2
<1> QED BY <1>2, <1>3, UpTo, FS_CardinalityType

(* There is the function that the fold of windings is defined by ...        *)
WindingsIter(f, xs, s) == IF s = {} THEN << >> ELSE AddWinding(xs[Min(s)], f[s \ {Min(s)}])
WindingsStates(f, xs) == f = [s \in SUBSET (DOMAIN xs) |-> WindingsIter(f, xs, s)]

(* by induction over the number of activations.                             *)
LEMMA WindingsFoldExists ==
  ASSUME NEW xs, NEW n \in Nat, DOMAIN xs = 1 .. n
  PROVE  \E f : WindingsStates(f, xs)
<1> DEFINE S == DOMAIN xs
           Next1(f, s) == WindingsIter(f, xs, s)
           Good(f, k) == /\ f = [s \in SUBSET S |-> f[s]]
                         /\ \A s \in SUBSET S : Cardinality(s) <= k => f[s] = Next1(f, s)
           Bad == {k \in Nat : \A f : ~Good(f, k)}
<1>1. \A s \in SUBSET S : IsFiniteSet(s) /\ Cardinality(s) \in Nat /\ (s # {} => Min(s) \in s)
  BY SomeUpTo
<1>2. \E f : Good(f, 0)
  <2> DEFINE f == [s \in SUBSET S |-> << >>]
  <2>1. f = [s \in SUBSET S |-> f[s]]
    OBVIOUS
  <2>2. ASSUME NEW s \in SUBSET S, Cardinality(s) <= 0 PROVE f[s] = Next1(f, s)
    <3>1. s = {}
      BY <1>1, <2>2, FS_EmptySet
    <3> QED BY <3>1 DEF WindingsIter
  <2> QED BY <2>1, <2>2
<1>3. ASSUME NEW k \in Nat, NEW f, Good(f, k) PROVE \E g : Good(g, k + 1)
  <2> DEFINE g == [s \in SUBSET S |-> Next1(f, s)]
  <2>1. g = [s \in SUBSET S |-> g[s]]
    OBVIOUS
  <2>2. ASSUME NEW s \in SUBSET S, Cardinality(s) <= k + 1 PROVE g[s] = Next1(g, s)
    <3>1. CASE s = {}
      BY <3>1 DEF WindingsIter
    <3>2. CASE s # {}
      <4> DEFINE t == s \ {Min(s)}
      <4>1. t \in SUBSET S /\ Cardinality(t) <= k
        <5>1. IsFiniteSet(s) /\ Min(s) \in s /\ Cardinality(s) \in Nat
          BY <1>1, <3>2
        <5>2. Cardinality(t) = Cardinality(s) - 1
          BY <5>1, FS_RemoveElement
        <5> QED BY <2>2, <5>1, <5>2
      <4>2. f[t] = Next1(f, t) /\ g[t] = Next1(f, t)
        BY <1>3, <4>1
      <4>3. g[s] = Next1(f, s)
        OBVIOUS
      <4>4. g[t] = f[t]
        BY <4>2
      <4> HIDE DEF g
      <4> QED BY <3>2, <4>3, <4>4 DEF WindingsIter
    <3> QED BY <3>1, <3>2
  <2> QED BY <2>1, <2>2
<1>4. Bad = {}
  <2> HIDE DEF Good
  <2> SUFFICES ASSUME Bad # {} PROVE FALSE
    OBVIOUS
  <2>1. PICK m \in Bad : \A j \in Bad : m <= j
    BY LeastOf
  <2>2. m # 0
    BY <1>2, <2>1
  <2>3. m - 1 \in Nat /\ m - 1 \notin Bad
    BY <2>1, <2>2
  <2> QED BY <1>3, <2>1, <2>3
<1>5. PICK f : Good(f, n)
  <2> HIDE DEF Good
  <2> QED BY <1>4
<1>6. \A s \in SUBSET S : Cardinality(s) <= n
  BY SomeUpTo
<1>7. \A s \in SUBSET S : f[s] = Next1(f, s)
  BY <1>5, <1>6
<1>8. f = [s \in SUBSET S |-> Next1(f, s)]
  <2>1. f = [s \in SUBSET S |-> f[s]]
    BY <1>5
  <2> HIDE DEF Next1
  <2> QED BY <1>7, <2>1
<1> QED BY <1>8 DEF WindingsStates

(* ... and its values on the ends of the sequence are what the fold goes    *)
(* through.                                                                 *)
WindingsTrace(r, xs, n) ==
  /\ r[n + 1] = << >>
  /\ \A k \in 1 .. n : r[k] = AddWinding(xs[k], r[k + 1])
  /\ WindingsOf(xs) = r[1]
(* The fold of windings goes through such values.                           *)
LEMMA WindingsFold ==
  ASSUME NEW xs, NEW n \in Nat, DOMAIN xs = 1 .. n
  PROVE  \E r : WindingsTrace(r, xs, n)
<1> DEFINE iter == CHOOSE f : WindingsStates(f, xs)
           r == [k \in 1 .. n + 1 |-> iter[k .. n]]
<1>1. iter = [s \in SUBSET (DOMAIN xs) |-> WindingsIter(iter, xs, s)]
  <2>1. \E f : WindingsStates(f, xs)
    BY WindingsFoldExists
  <2>2. WindingsStates(iter, xs)
    BY <2>1, Zenon
  <2> HIDE DEF iter
  <2> QED BY <2>2 DEF WindingsStates
<1>2. WindingsOf(xs) = iter[DOMAIN xs]
  BY Zenon DEF FoldRight, MapThenFoldSet, WindingsOf, WindingsIter, WindingsStates
<1> HIDE DEF iter
<1>3. r[n + 1] = << >>
  <2>1. (n + 1) .. n = {} /\ (n + 1) .. n \in SUBSET (DOMAIN xs)
    OBVIOUS
  <2>2. iter[(n + 1) .. n] = << >>
    BY <1>1, <2>1 DEF WindingsIter
  <2> QED BY <2>2
<1>4. ASSUME NEW k \in 1 .. n PROVE r[k] = AddWinding(xs[k], r[k + 1])
  <2> DEFINE s == k .. n
  <2>1. Min(s) = k /\ s \ {k} = (k + 1) .. n /\ s \in SUBSET (DOMAIN xs) /\ s # {}
    BY LeastFrom
  <2>2. iter[s] = AddWinding(xs[Min(s)], iter[s \ {Min(s)}])
    BY <1>1, <2>1 DEF WindingsIter
  <2>3. r[k] = iter[s] /\ r[k + 1] = iter[s \ {Min(s)}]
    <3>1. k \in 1 .. n + 1 /\ k + 1 \in 1 .. n + 1 /\ s \ {Min(s)} = (k + 1) .. n
      BY <2>1
    <3> QED BY <3>1
  <2> HIDE DEF r
  <2> QED BY <2>1, <2>2, <2>3
<1>5. iter[DOMAIN xs] = r[1]
  OBVIOUS
<1> HIDE DEF r
<1>6. WindingsTrace(r, xs, n)
  BY <1>2, <1>3, <1>4, <1>5 DEF WindingsTrace
<1> QED BY <1>6

(* Two sequences of which one has another element in front.                 *)
LEMMA WindingsCons ==
  ASSUME NEW T, NEW s \in Seq(T), NEW x \in T
  PROVE  WindingsOf(<<x>> \o s) = AddWinding(x, WindingsOf(s))
<1> DEFINE n == Len(s)
           xs == <<x>> \o s
<1>1. n \in Nat /\ DOMAIN s = 1 .. n /\ DOMAIN xs = 1 .. n + 1 /\ xs[1] = x
      /\ \A k \in 1 .. n : xs[k + 1] = s[k]
  OBVIOUS
<1> HIDE DEF n, xs
<1>2. PICK r : WindingsTrace(r, xs, n + 1)
  BY <1>1, WindingsFold
<1>3. PICK q : WindingsTrace(q, s, n)
  BY <1>1, WindingsFold
<1> DEFINE Bad == {j \in 0 .. n : r[(n + 1 - j) + 1] # q[n + 1 - j]}
<1>4. Bad = {}
  <2> SUFFICES ASSUME Bad # {} PROVE FALSE
    OBVIOUS
  <2>1. Bad \subseteq Nat
    BY <1>1
  <2>2. PICK j \in Bad : \A i \in Bad : j <= i
    BY <2>1, LeastOf
  <2>3. j # 0
    BY <1>1, <1>2, <1>3, <2>2 DEF WindingsTrace
  <2>4. j \in Nat /\ j - 1 \in 0 .. n /\ j - 1 \notin Bad /\ n + 1 - j \in 1 .. n
    <3>1. j \in 0 .. n
      BY <2>2
    <3> HIDE DEF Bad
    <3>2. j \in Nat /\ j - 1 \in 0 .. n /\ n + 1 - j \in 1 .. n
      BY <1>1, <2>3, <3>1
    <3>3. j - 1 \notin Bad
      BY <2>2, <3>2
    <3> QED BY <3>2, <3>3
  <2> DEFINE k == n + 1 - j
  <2>5. r[(k + 1) + 1] = q[k + 1] /\ k \in 1 .. n /\ n + 1 - (j - 1) = k + 1
    <3>1. k \in 1 .. n /\ n + 1 - (j - 1) = k + 1
      BY <1>1, <2>4
    <3>2. r[(n + 1 - (j - 1)) + 1] = q[n + 1 - (j - 1)]
      BY <2>4
    <3> HIDE DEF k
    <3> QED BY <3>1, <3>2
  <2>6. q[k] = AddWinding(s[k], q[k + 1])
    BY <1>3, <2>5 DEF WindingsTrace
  <2>7. r[k + 1] = AddWinding(xs[k + 1], r[(k + 1) + 1])
    <3>1. k + 1 \in 1 .. n + 1
      BY <1>1, <2>5
    <3> QED BY <1>2, <3>1 DEF WindingsTrace
  <2>8. r[k + 1] = q[k]
    BY <1>1, <2>5, <2>6, <2>7
  <2> QED BY <2>2, <2>8
<1>5. r[2] = q[1]
  <2>1. n \in 0 .. n /\ (n + 1 - n) = 1 /\ (n + 1 - n) + 1 = 2
    BY <1>1
  <2> QED BY <1>4, <2>1
<1>6. r[1] = AddWinding(x, r[2])
  <2>1. 1 \in 1 .. n + 1
    BY <1>1
  <2> QED BY <1>1, <1>2, <2>1 DEF WindingsTrace
<1>7. WindingsOf(xs) = r[1] /\ WindingsOf(s) = q[1]
  BY <1>2, <1>3 DEF WindingsTrace
<1> QED BY <1>5, <1>6, <1>7 DEF xs

(* And the sequence without elements.                                       *)
LEMMA WindingsNone == WindingsOf(<< >>) = << >>
<1>1. DOMAIN << >> = 1 .. 0 /\ 0 \in Nat
  OBVIOUS
<1>2. PICK r : WindingsTrace(r, << >>, 0)
  BY <1>1, WindingsFold
<1>3. r[0 + 1] = << >> /\ WindingsOf(<< >>) = r[1]
  BY <1>2 DEF WindingsTrace
<1> QED BY <1>3

(* The entries es of a winder are wound in, the first one first: what that  *)
(* makes of the frames X of the coroutine d.                                *)
Wound(e, d, X) == IF e.co = d THEN <<e.frame>> \o X ELSE X
Replays(es, d, X, Y) ==
  \E r : /\ r[0] = X /\ r[Len(es)] = Y
         /\ \A n \in 1 .. Len(es) : r[n] = Wound(es[n], d, r[n - 1])

(* No entries.                                                              *)
LEMMA ReplaysNone ==
  ASSUME NEW d, NEW X, NEW Y
  PROVE  Replays(<< >>, d, X, Y) <=> X = Y
<1>1. ASSUME X = Y PROVE Replays(<< >>, d, X, Y)
  <2> DEFINE r == [n \in {0} |-> X]
  <2>1. r[0] = X
    OBVIOUS
  <2> HIDE DEF r
  <2> QED BY <1>1, <2>1 DEF Replays
<1> QED BY <1>1 DEF Replays

(* One more entry, which is wound in first.                                 *)
LEMMA ReplaysCons ==
  ASSUME NEW T, NEW es \in Seq(T), NEW e \in T, NEW d, NEW X, NEW Y
  PROVE  Replays(<<e>> \o es, d, X, Y) <=> Replays(es, d, Wound(e, d, X), Y)
<1> DEFINE n == Len(es)
           all == <<e>> \o es
<1>1. n \in Nat /\ Len(all) = n + 1 /\ all[1] = e /\ \A k \in 1 .. n : all[k + 1] = es[k]
  OBVIOUS
<1> HIDE DEF all
<1>2. ASSUME Replays(all, d, X, Y) PROVE Replays(es, d, Wound(e, d, X), Y)
  <2>1. PICK r : /\ r[0] = X /\ r[n + 1] = Y
                 /\ \A k \in 1 .. n + 1 : r[k] = Wound(all[k], d, r[k - 1])
    BY <1>1, <1>2 DEF Replays
  <2> DEFINE q == [k \in 0 .. n |-> r[k + 1]]
  <2>2. \A k \in 0 .. n : q[k] = r[k + 1]
    OBVIOUS
  <2> HIDE DEF q
  <2>3. q[0] = Wound(e, d, X) /\ q[n] = Y
    <3>1. 1 \in 1 .. n + 1 /\ 0 \in 0 .. n /\ n \in 0 .. n /\ 1 - 1 = 0 /\ 0 + 1 = 1
      BY <1>1
    <3>2. r[1] = Wound(all[1], d, r[1 - 1])
      BY <2>1, <3>1
    <3>3. q[0] = r[1] /\ q[n] = r[n + 1]
      BY <2>2, <3>1
    <3> QED BY <1>1, <2>1, <3>1, <3>2, <3>3
  <2>4. ASSUME NEW k \in 1 .. n PROVE q[k] = Wound(es[k], d, q[k - 1])
    <3>1. k + 1 \in 1 .. n + 1 /\ (k + 1) - 1 = k /\ k \in 0 .. n /\ k - 1 \in 0 .. n /\ (k - 1) + 1 = k
      BY <1>1
    <3>2. r[k + 1] = Wound(all[k + 1], d, r[(k + 1) - 1])
      BY <2>1, <3>1
    <3>3. q[k - 1] = r[k] /\ q[k] = r[k + 1]
      BY <2>2, <3>1
    <3> QED BY <1>1, <3>1, <3>2, <3>3
  <2> QED BY <2>3, <2>4 DEF Replays
<1>3. ASSUME Replays(es, d, Wound(e, d, X), Y) PROVE Replays(all, d, X, Y)
  <2>1. PICK q : /\ q[0] = Wound(e, d, X) /\ q[n] = Y
                 /\ \A k \in 1 .. n : q[k] = Wound(es[k], d, q[k - 1])
    BY <1>3 DEF Replays
  <2> DEFINE r == [k \in 0 .. n + 1 |-> IF k = 0 THEN X ELSE q[k - 1]]
  <2>2. r[0] = X /\ \A k \in 1 .. n + 1 : r[k] = q[k - 1]
    BY <1>1
  <2> HIDE DEF r
  <2>3. r[n + 1] = Y
    <3>1. n + 1 \in 1 .. n + 1 /\ (n + 1) - 1 = n
      BY <1>1
    <3> QED BY <2>1, <2>2, <3>1
  <2>4. ASSUME NEW k \in 1 .. n + 1 PROVE r[k] = Wound(all[k], d, r[k - 1])
    <3>1. CASE k = 1
      <4>1. r[1] = q[0]
        BY <1>1, <2>2
      <4> QED BY <1>1, <2>1, <2>2, <3>1, <4>1
    <3>2. CASE k # 1
      <4>1. k - 1 \in 1 .. n /\ (k - 1) + 1 = k /\ k - 1 \in 1 .. n + 1
        BY <1>1, <3>2
      <4>2. r[k - 1] = q[(k - 1) - 1] /\ r[k] = q[k - 1]
        BY <2>2, <4>1
      <4>3. q[k - 1] = Wound(es[k - 1], d, q[(k - 1) - 1]) /\ all[k] = es[k - 1]
        <5>1. q[k - 1] = Wound(es[k - 1], d, q[(k - 1) - 1])
          BY <2>1, <4>1
        <5>2. all[(k - 1) + 1] = es[k - 1]
          BY <1>1, <4>1
        <5> QED BY <4>1, <5>1, <5>2
      <4> QED BY <4>2, <4>3
    <3> QED BY <3>1, <3>2
  <2> QED BY <1>1, <2>2, <2>3, <2>4 DEF Replays
<1> QED BY <1>2, <1>3 DEF all

(* Entries of other coroutines.                                             *)
LEMMA ReplaysOthers ==
  ASSUME NEW T, NEW es \in Seq(T), NEW d, NEW X, NEW Y, \A i \in DOMAIN es : es[i].co # d
  PROVE  Replays(es, d, X, Y) <=> X = Y
<1> DEFINE n == Len(es)
<1>1. n \in Nat /\ \A k \in 1 .. n : es[k].co # d
  OBVIOUS
<1>2. ASSUME X = Y PROVE Replays(es, d, X, Y)
  <2> DEFINE r == [k \in 0 .. n |-> X]
  <2>1. \A k \in 0 .. n : r[k] = X
    OBVIOUS
  <2> HIDE DEF r
  <2>2. r[0] = X /\ r[n] = Y
    BY <1>1, <1>2, <2>1
  <2>3. ASSUME NEW k \in 1 .. n PROVE r[k] = Wound(es[k], d, r[k - 1])
    <3>1. k \in 0 .. n /\ k - 1 \in 0 .. n
      BY <1>1
    <3> QED BY <1>1, <2>1, <3>1 DEF Wound
  <2> QED BY <2>2, <2>3 DEF Replays
<1>3. ASSUME Replays(es, d, X, Y) PROVE X = Y
  <2>1. PICK r : /\ r[0] = X /\ r[n] = Y
                 /\ \A k \in 1 .. n : r[k] = Wound(es[k], d, r[k - 1])
    BY <1>3 DEF Replays
  <2> DEFINE Bad == {k \in 0 .. n : r[k] # X}
  <2>2. Bad = {}
    <3> SUFFICES ASSUME Bad # {} PROVE FALSE
      OBVIOUS
    <3>1. Bad \subseteq Nat
      BY <1>1
    <3>2. PICK k \in Bad : \A i \in Bad : k <= i
      BY <3>1, LeastOf
    <3>3. k \in 1 .. n
      BY <1>1, <2>1, <3>2
    <3>4. k - 1 \in 0 .. n /\ k - 1 \notin Bad
      BY <1>1, <3>2, <3>3
    <3>5. r[k] = r[k - 1]
      BY <1>1, <2>1, <3>3 DEF Wound
    <3> QED BY <3>2, <3>4, <3>5
  <2> QED BY <1>1, <2>1, <2>2
<1> QED BY <1>2, <1>3

(* Program code that is no thunk, and what may be below it.                 *)
Thunk(a) == a.op = "body" /\ a.thunk
Settled(a) == a.op \in {"resume", "end"} \/ (a.op = "body" /\ ~a.thunk)
Stable(a) == Settled(a) \/ a.op = "dynamic-wind"

(* What an activation has called: b is below a.                             *)
Follows(a, b) ==
  /\ Thunk(a) => b.op \in {"push-frame", "wind-out", "dynamic-wind", "close"} \/ Settled(b)
  /\ a.op = "push-frame" => b.op \in {"wind-in", "wind-in-out"} \/ (b.op = "body" /\ ~b.thunk)
  /\ a.op = "wind-out" =>
       /\ b.op \in {"suspend", "break"} /\ b.co = a.target
       /\ IF b.op = "break" THEN a.winder = NoWinder ELSE b.winder = a.winder
  /\ a.op \in {"suspend", "suspended", "wind-in", "break", "close", "end"} => Settled(b)
  /\ a.op \in {"wind-in-out", "dynamic-wind"} => b.op \in {"dynamic-wind", "close"} \/ Settled(b)
Words(s) == \A i \in DOMAIN s : i + 1 \in DOMAIN s => Follows(s[i], s[i + 1])
Sorted(s) == \A i, j \in DOMAIN s : i < j /\ Settled(s[i]) => Stable(s[j])
Parked(s) == \A i \in DOMAIN s : Stable(s[i]) \/ (i = 1 /\ s[i].op \in {"suspended", "break"})
ShapeInv ==
  /\ \A c \in Coroutines : Words(calls[c]) /\ Sorted(calls[c])
  /\ \A c \in Coroutines \ {current} : Parked(calls[c])

(* The function of the runtime that works on the dynamic context, with a    *)
(* thunk above it and a frame to be pushed, or without.                     *)
Bare(s) == IF s # << >> /\ Thunk(Head(s)) THEN Tail(s) ELSE s
ToPush(s) == Bare(s) # << >> /\ Head(Bare(s)).op = "push-frame"
Core(s) == IF ToPush(s) THEN Tail(Bare(s)) ELSE Bare(s)
JobOf(s) == IF Core(s) = << >> THEN [op |-> "none"] ELSE Head(Core(s))
PendOf(s, d) == IF ToPush(s) /\ Head(Bare(s)).co = d THEN <<Head(Bare(s)).frame>> ELSE << >>
Job == JobOf(calls[current])

(* The coroutines from the running one to c; those behind c.                *)
Between(c) == ToSet(ChainTo(current, c))
Up(c) == ToSet(ChainFrom(c))

(* The entries it winds, and the coroutines that a break leaves.            *)
Winds(a) == a.op \in {"wind-out", "suspend", "suspended", "wind-in"} /\ a.winder # NoWinder
WorkOf(a) == IF Winds(a) THEN winders[a.winder] ELSE << >>
Leaving(a) ==
  IF a.op = "break" THEN Between(a.co)
  ELSE IF a.op = "wind-out" /\ a.winder = NoWinder THEN Between(a.target) ELSE {}
OutOf(c) == \A d \in Between(c) : frames[d] = << >>
EntriesIn(w, S) == \A i \in DOMAIN winders[w] : winders[w][i].co \in S
JobIs(a) ==
  /\ a.op = "wind-out" =>
       /\ a.target \in Active /\ a.at \in Between(a.target)
       /\ \A d \in Between(a.at) \ {a.at} : frames[d] = << >>
       /\ a.winder # NoWinder => EntriesIn(a.winder, Between(a.target))
  /\ a.op \in {"suspend", "break"} => a.co \in Active /\ OutOf(a.co)
  /\ a.op = "suspend" => EntriesIn(a.winder, Between(a.co))
  /\ a.op = "wind-in" => \A i \in DOMAIN a.cos : a.cos[i] \in Active
PushIs == ToPush(calls[current]) => Head(Bare(calls[current])).co \in Active

Context ==
  \A d \in Active \ Leaving(Job) :
    Replays(WorkOf(Job), d, PendOf(calls[current], d) \o frames[d], Windings(d))

(* The coroutines that may be resumed, and what each is to do then.         *)
Closing(e) == \E i \in DOMAIN calls[current] : calls[current][i].op = "close" /\ calls[current][i].co = e
Ready(e) == status[e] = "open" /\ e \notin dead /\ ~Closing(e)
WaitsWell(e, l) ==
  /\ calls[l] # << >> /\ Head(calls[l]).op \in {"body", "suspended"}
  /\ Head(calls[l]).op = "suspended" =>
       /\ Head(calls[l]).co = e /\ Head(calls[l]).winder <= used
       /\ EntriesIn(Head(calls[l]).winder, Up(e))
  /\ saved[e] # NoWinder => Head(calls[l]).op = "suspended" /\ Head(calls[l]).winder = saved[e]
  /\ \A d \in Up(e) : Replays(WorkOf(Head(calls[l])), d, << >>, Windings(d))
Keeps(e, w) ==
  /\ Ready(e)
  /\ \E l \in Up(e) : parent[l] = None /\ Head(calls[l]).op = "suspended" /\ Head(calls[l]).winder = w
WaitingInv ==
  /\ \A e \in Coroutines : Ready(e) => \A l \in Up(e) : parent[l] = None => WaitsWell(e, l)
  /\ \A e, f \in Coroutines, w \in Winders : Keeps(e, w) /\ Keeps(f, w) => e = f
  /\ Winds(Job) \/ Job.op = "wind-in-out" =>
       Job.winder <= used /\ \A e \in Coroutines : ~Keeps(e, Job.winder)
SavedInv ==
  \A c \in Coroutines : saved[c] # NoWinder =>
    \/ status[c] \in {"open", "closed"}
    \/ status[c] = "active" /\ Job.op = "suspended" /\ Job.co = c
PlacesInv ==
  /\ \A w \in Winders : w > used => winders[w] = << >>
  /\ \A c \in Coroutines \ Active : frames[c] = << >>
  /\ \A f \in PlainFrames : ins[f] = outs[f] + 1 => f \in InFrames \cup InPushes

(* The inductive invariant of the dynamic context, beside that of places    *)
(* and that of links.                                                       *)
DInv == ShapeInv /\ JobIs(Job) /\ PushIs /\ Context /\ WaitingInv /\ SavedInv /\ PlacesInv

(* Types that proofs about winders need.                                    *)
LEMMA WindersTyped ==
  ASSUME TypeInv
  PROVE  /\ used \in Nat /\ winders \in [Winders -> Seq(Entries)]
         /\ saved \in [Coroutines -> Winders \cup {NoWinder}] /\ frames \in [Coroutines -> Seq(Frames)]
<1>1. used \in Winders \cup {0}
  BY DEF TypeInv, TypeOK
<1>2. used \in Nat
  BY <1>1, BoundsAssumption DEF Winders
<1>3. /\ saved \in [Coroutines -> Winders \cup {NoWinder}]
      /\ frames \in [Coroutines -> Seq(Frames)]
  BY DEF TypeInv, TypeOK
<1>4. winders \in [Winders -> Seq(Entries)]
  BY DEF TypeInv
<1> QED BY <1>2, <1>3, <1>4

(* A stack is its innermost activation on the others.                       *)
LEMMA Split ==
  ASSUME NEW T, NEW s \in Seq(T), s # << >>
  PROVE  /\ Head(s) \in T /\ Tail(s) \in Seq(T) /\ s = <<Head(s)>> \o Tail(s)
         /\ Len(Tail(s)) = Len(s) - 1
<1>1. Head(s) \in T /\ Tail(s) \in Seq(T) /\ Len(s) \in Nat /\ Len(s) >= 1
      /\ Len(Tail(s)) = Len(s) - 1 /\ \A i \in 1 .. Len(s) - 1 : Tail(s)[i] = s[i + 1]
  OBVIOUS
<1> DEFINE t == <<Head(s)>> \o Tail(s)
<1>2. t \in Seq(T) /\ Len(t) = Len(s) /\ t[1] = Head(s)
      /\ \A i \in 1 .. Len(s) - 1 : t[i + 1] = Tail(s)[i]
  BY <1>1
<1> HIDE DEF t
<1>3. ASSUME NEW i \in 1 .. Len(s) PROVE t[i] = s[i]
  <2>1. CASE i = 1
    BY <1>2, <2>1
  <2>2. CASE i # 1
    <3>1. i - 1 \in 1 .. Len(s) - 1 /\ (i - 1) + 1 = i
      BY <1>1, <2>2
    <3> QED BY <1>1, <1>2, <3>1
  <2> QED BY <2>1, <2>2
<1>4. t = s
  BY <1>2, <1>3, SeqEqual
<1> QED BY <1>1, <1>4 DEF t

(* The other way round.                                                     *)
LEMMA OnTop ==
  ASSUME NEW T, NEW x \in T, NEW r \in Seq(T)
  PROVE  /\ <<x>> \o r \in Seq(T) /\ <<x>> \o r # << >>
         /\ Head(<<x>> \o r) = x /\ Tail(<<x>> \o r) = r
         /\ DOMAIN (<<x>> \o r) = 1 .. Len(r) + 1 /\ (<<x>> \o r)[1] = x
         /\ DOMAIN r = 1 .. Len(r) /\ Len(r) \in Nat
         /\ \A i \in DOMAIN r : (<<x>> \o r)[i + 1] = r[i]
         /\ r # << >> => Head(r) = r[1] /\ 1 \in DOMAIN r /\ Head(r) \in T
<1>1. Tail(<<x>> \o r) = r
  <2> DEFINE t == Tail(<<x>> \o r)
  <2>1. t \in Seq(T) /\ Len(t) = Len(r) /\ \A i \in 1 .. Len(r) : t[i] = r[i]
    OBVIOUS
  <2> HIDE DEF t
  <2>2. t = r
    BY <2>1, SeqEqual
  <2> QED BY <2>2 DEF t
<1> QED BY <1>1

(* What the elements of a stack with one more in front are.                 *)
LEMMA OnTopIs ==
  ASSUME NEW T, NEW x \in T, NEW r \in Seq(T), NEW i \in DOMAIN (<<x>> \o r)
  PROVE  \/ i = 1 /\ (<<x>> \o r)[i] = x
         \/ i # 1 /\ i - 1 \in DOMAIN r /\ (<<x>> \o r)[i] = r[i - 1]
<1>1. /\ DOMAIN (<<x>> \o r) = 1 .. Len(r) + 1 /\ (<<x>> \o r)[1] = x
      /\ DOMAIN r = 1 .. Len(r) /\ Len(r) \in Nat
      /\ \A j \in DOMAIN r : (<<x>> \o r)[j + 1] = r[j]
  BY OnTop
<1> DEFINE s == <<x>> \o r
<1> HIDE DEF s
<1>2. CASE i = 1
  BY <1>1, <1>2
<1>3. CASE i # 1
  <2>1. i - 1 \in DOMAIN r /\ (i - 1) + 1 = i
    BY <1>1, <1>3
  <2> QED BY <1>1, <1>3, <2>1
<1> QED BY <1>2, <1>3

(* When a stack has its form: by what is on top.                            *)
LEMMA WordsCons ==
  ASSUME NEW T, NEW x \in T, NEW r \in Seq(T)
  PROVE  Words(<<x>> \o r) <=> Words(r) /\ (r # << >> => Follows(x, Head(r)))
<1> DEFINE s == <<x>> \o r
<1>1. /\ DOMAIN s = 1 .. Len(r) + 1 /\ s[1] = x /\ DOMAIN r = 1 .. Len(r) /\ Len(r) \in Nat
      /\ \A i \in DOMAIN r : s[i + 1] = r[i]
      /\ r # << >> => Head(r) = r[1] /\ 1 \in DOMAIN r
  BY OnTop
<1> HIDE DEF s
<1>2. ASSUME Words(s) PROVE Words(r) /\ (r # << >> => Follows(x, Head(r)))
  <2>1. ASSUME NEW i \in DOMAIN r, i + 1 \in DOMAIN r PROVE Follows(r[i], r[i + 1])
    <3>1. i + 1 \in DOMAIN s /\ (i + 1) + 1 \in DOMAIN s
      BY <1>1, <2>1
    <3>2. Follows(s[i + 1], s[(i + 1) + 1])
      BY <1>2, <3>1 DEF Words
    <3> QED BY <1>1, <2>1, <3>2
  <2>2. ASSUME r # << >> PROVE Follows(x, Head(r))
    <3>1. 1 \in DOMAIN s /\ 1 + 1 \in DOMAIN s
      BY <1>1, <2>2
    <3>2. Follows(s[1], s[1 + 1])
      BY <1>2, <3>1 DEF Words
    <3> QED BY <1>1, <2>2, <3>2
  <2> QED BY <2>1, <2>2 DEF Words
<1>3. ASSUME Words(r), r # << >> => Follows(x, Head(r)) PROVE Words(s)
  <2> SUFFICES ASSUME NEW i \in DOMAIN s, i + 1 \in DOMAIN s PROVE Follows(s[i], s[i + 1])
    BY DEF Words
  <2>1. i \in DOMAIN r /\ s[i + 1] = r[i]
    BY <1>1
  <2>2. CASE i = 1
    <3>1. r # << >>
      BY <2>1
    <3> QED BY <1>1, <1>3, <2>1, <2>2, <3>1
  <2>3. CASE i # 1
    <3>1. i - 1 \in DOMAIN r /\ (i - 1) + 1 = i
      BY <1>1, <2>3
    <3>2. Follows(r[i - 1], r[(i - 1) + 1])
      BY <1>3, <2>1, <3>1 DEF Words
    <3> QED BY <1>1, <2>1, <3>1, <3>2
  <2> QED BY <2>2, <2>3
<1> QED BY <1>2, <1>3 DEF s

(* Below what is settled everything is stable.                              *)
AllStable(r) == \A i \in DOMAIN r : Stable(r[i])
(* One activation more: what it takes for a stack to stay sorted.           *)
LEMMA SortedCons ==
  ASSUME NEW T, NEW x \in T, NEW r \in Seq(T)
  PROVE  /\ Sorted(<<x>> \o r) <=> Sorted(r) /\ (Settled(x) => AllStable(r))
         /\ AllStable(<<x>> \o r) <=> AllStable(r) /\ Stable(x)
         /\ Parked(<<x>> \o r) <=> AllStable(r) /\ (Stable(x) \/ x.op \in {"suspended", "break"})
<1> DEFINE s == <<x>> \o r
<1>1. /\ DOMAIN s = 1 .. Len(r) + 1 /\ s[1] = x /\ DOMAIN r = 1 .. Len(r) /\ Len(r) \in Nat
      /\ \A i \in DOMAIN r : s[i + 1] = r[i]
  BY OnTop
<1> HIDE DEF s
<1>2. /\ \A i \in DOMAIN r : i + 1 \in DOMAIN s /\ i + 1 # 1 /\ s[i + 1] = r[i]
      /\ \A i \in DOMAIN s : i = 1 \/ (i - 1 \in DOMAIN r /\ s[i] = r[i - 1])
      /\ 1 \in DOMAIN s
  <2>1. ASSUME NEW i \in DOMAIN s, i # 1 PROVE i - 1 \in DOMAIN r /\ s[i] = r[i - 1]
    <3>1. i - 1 \in DOMAIN r /\ (i - 1) + 1 = i
      BY <1>1, <2>1
    <3> QED BY <1>1, <3>1
  <2> QED BY <1>1, <2>1
<1>3. AllStable(s) <=> AllStable(r) /\ Stable(x)
  BY <1>1, <1>2 DEF AllStable
<1>4. Parked(s) <=> AllStable(r) /\ (Stable(x) \/ x.op \in {"suspended", "break"})
  <2>1. ASSUME Parked(s) PROVE AllStable(r) /\ (Stable(x) \/ x.op \in {"suspended", "break"})
    BY <1>1, <1>2, <2>1 DEF AllStable, Parked
  <2>2. ASSUME AllStable(r), Stable(x) \/ x.op \in {"suspended", "break"} PROVE Parked(s)
    <3>1. ASSUME NEW i \in DOMAIN s PROVE Stable(s[i]) \/ (i = 1 /\ s[i].op \in {"suspended", "break"})
      BY <1>1, <1>2, <2>2 DEF AllStable
    <3> QED BY <3>1 DEF Parked
  <2> QED BY <2>1, <2>2
<1>5. ASSUME Sorted(s) PROVE Sorted(r) /\ (Settled(x) => AllStable(r))
  <2>1. ASSUME NEW i \in DOMAIN r, NEW j \in DOMAIN r, i < j, Settled(r[i]) PROVE Stable(r[j])
    <3>1. i + 1 \in DOMAIN s /\ j + 1 \in DOMAIN s /\ i + 1 < j + 1
      BY <1>1, <1>2, <2>1
    <3> QED BY <1>1, <1>5, <2>1, <3>1 DEF Sorted
  <2>2. ASSUME NEW j \in DOMAIN r, Settled(x) PROVE Stable(r[j])
    <3>1. 1 \in DOMAIN s /\ j + 1 \in DOMAIN s /\ 1 < j + 1
      BY <1>1, <1>2
    <3> QED BY <1>1, <1>5, <2>2, <3>1 DEF Sorted
  <2> QED BY <2>1, <2>2 DEF Sorted, AllStable
<1>6. ASSUME Sorted(r), Settled(x) => AllStable(r) PROVE Sorted(s)
  <2> SUFFICES ASSUME NEW i \in DOMAIN s, NEW j \in DOMAIN s, i < j, Settled(s[i]) PROVE Stable(s[j])
    BY DEF Sorted
  <2>1. j # 1 /\ j - 1 \in DOMAIN r /\ s[j] = r[j - 1]
    BY <1>1, <1>2
  <2>2. CASE i = 1
    BY <1>1, <1>6, <2>1, <2>2 DEF AllStable
  <2>3. CASE i # 1
    <3>1. i - 1 \in DOMAIN r /\ s[i] = r[i - 1]
      BY <1>2, <2>3
    <3>2. i - 1 < j - 1
      BY <1>1
    <3> QED BY <1>6, <2>1, <3>1, <3>2 DEF Sorted
  <2> QED BY <2>2, <2>3
<1> QED BY <1>3, <1>4, <1>5, <1>6 DEF s

(* What the runtime works at, by what is on top: a thunk is as if it were   *)
(* not there, ...                                                           *)
LEMMA ViewThunk ==
  ASSUME NEW x \in Activations, NEW r \in Seq(Activations), Words(<<x>> \o r), Thunk(x)
  PROVE  /\ Bare(<<x>> \o r) = r /\ Bare(r) = r
         /\ JobOf(<<x>> \o r) = JobOf(r) /\ ToPush(<<x>> \o r) = ToPush(r)
         /\ WindingsOf(<<x>> \o r) = WindingsOf(r)
<1>1. Head(<<x>> \o r) = x /\ Tail(<<x>> \o r) = r /\ <<x>> \o r # << >>
  BY OnTop
<1>2. Bare(<<x>> \o r) = r
  BY <1>1 DEF Bare
<1>3. Bare(r) = r
  <2>1. r # << >> => Follows(x, Head(r))
    BY WordsCons
  <2>2. r # << >> => ~Thunk(Head(r))
    BY <2>1 DEF Follows, Thunk, Settled
  <2> QED BY <2>2 DEF Bare
<1>4. WindingsOf(<<x>> \o r) = WindingsOf(r)
  BY WindingsCons DEF Thunk, AddWinding
<1> QED BY <1>2, <1>3, <1>4 DEF JobOf, Core, ToPush

(* ... a frame to be pushed is before what is done then, ...                *)
LEMMA ViewPush ==
  ASSUME NEW x \in Activations, NEW r \in Seq(Activations), Words(<<x>> \o r), x.op = "push-frame"
  PROVE  /\ Bare(<<x>> \o r) = <<x>> \o r /\ ToPush(<<x>> \o r) /\ ~ToPush(r)
         /\ JobOf(<<x>> \o r) = JobOf(r)
         /\ \A d : PendOf(r, d) = << >>
         /\ \A d : PendOf(<<x>> \o r, d) = IF x.co = d THEN <<x.frame>> ELSE << >>
         /\ WindingsOf(<<x>> \o r) = WindingsOf(r)
<1>1. Head(<<x>> \o r) = x /\ Tail(<<x>> \o r) = r /\ <<x>> \o r # << >>
  BY OnTop
<1>2. Bare(<<x>> \o r) = <<x>> \o r
  BY <1>1 DEF Bare, Thunk
<1>3. ToPush(<<x>> \o r) /\ Core(<<x>> \o r) = r
  BY <1>1, <1>2 DEF ToPush, Core
<1>4. ~ToPush(r) /\ Core(r) = r
  <2>1. r # << >> => Follows(x, Head(r))
    BY WordsCons
  <2>2. r # << >> => ~Thunk(Head(r)) /\ Head(r).op # "push-frame"
    BY <2>1 DEF Follows, Thunk
  <2>3. Bare(r) = r
    BY <2>2 DEF Bare
  <2> QED BY <2>2, <2>3 DEF ToPush, Core
<1>5. WindingsOf(<<x>> \o r) = WindingsOf(r)
  BY WindingsCons DEF AddWinding
<1>6. \A d : PendOf(<<x>> \o r, d) = IF x.co = d THEN <<x.frame>> ELSE << >>
  BY <1>1, <1>2, <1>3 DEF PendOf
<1> QED BY <1>2, <1>3, <1>4, <1>5, <1>6 DEF JobOf, PendOf

(* ... and everything else is what is done.                                 *)
LEMMA ViewJob ==
  ASSUME NEW x \in Activations, NEW r \in Seq(Activations), ~Thunk(x), x.op # "push-frame"
  PROVE  /\ Bare(<<x>> \o r) = <<x>> \o r /\ ~ToPush(<<x>> \o r) /\ JobOf(<<x>> \o r) = x
         /\ \A d : PendOf(<<x>> \o r, d) = << >>
         /\ WindingsOf(<<x>> \o r) = AddWinding(x, WindingsOf(r))
<1>1. Head(<<x>> \o r) = x /\ Tail(<<x>> \o r) = r /\ <<x>> \o r # << >>
  BY OnTop
<1>2. Bare(<<x>> \o r) = <<x>> \o r /\ ~ToPush(<<x>> \o r)
  BY <1>1 DEF Bare, ToPush
<1>3. WindingsOf(<<x>> \o r) = AddWinding(x, WindingsOf(r))
  BY WindingsCons
<1> QED BY <1>1, <1>2, <1>3 DEF JobOf, Core, PendOf

(* An empty stack.                                                          *)
LEMMA ViewNone ==
  /\ ~ToPush(<< >>) /\ JobOf(<< >>) = [op |-> "none"] /\ \A d : PendOf(<< >>, d) = << >>
  /\ Words(<< >>) /\ Sorted(<< >>) /\ AllStable(<< >>)
BY DEF ToPush, JobOf, Core, Bare, PendOf, Words, Sorted, AllStable

(* Links that are followed, before a step and after it.                     *)
UpIs(c) ==
  /\ Up(c) \subseteq Coroutines /\ c \in Up(c)
  /\ \A d \in Up(c) : parent[d] # None => parent[d] \in Up(c)
  /\ \A S : c \in S /\ (\A d \in S : parent[d] # None => parent[d] \in S) => Up(c) \subseteq S
  /\ \A d \in Up(c) : d # c => \E e \in Up(c) : parent[e] = d
(* The coroutines above one are those that its links lead to ...            *)
LEMMA UpFacts == LinkType /\ Ranked => \A c \in Coroutines : UpIs(c)
BY ChainSet DEF UpIs, Up
(* ... in the next state too.                                               *)
LEMMA UpFactsNext == (LinkType /\ Ranked)' => (\A c \in Coroutines : UpIs(c))'
BY UpFacts, PTL

(* The links of T change, those of other coroutines do not lead there.      *)
Outside(T) == \A d \in Coroutines \ T : parent'[d] = parent[d] /\ parent[d] \notin T
(* Then the coroutines above one that is not in T are the same.             *)
LEMMA UpOutside ==
  ASSUME LinkType, Ranked, LinkType', Ranked', NEW T, Outside(T), NEW e \in Coroutines \ T
  PROVE  Up(e)' = Up(e) /\ Up(e) \cap T = {}
<1>1. UpIs(e) /\ UpIs(e)'
  BY UpFacts, UpFactsNext
<1>2. Up(e) \subseteq Coroutines \ T
  <2>1. \A d \in Coroutines \ T : parent[d] # None => parent[d] \in Coroutines \ T
    BY DEF Outside, LinkType
  <2> QED BY <1>1, <2>1 DEF UpIs
<1>3. Up(e)' \subseteq Up(e)
  <2>1. \A d \in Up(e) : parent'[d] # None => parent'[d] \in Up(e)
    BY <1>1, <1>2 DEF UpIs, Outside
  <2> QED BY <1>1, <2>1 DEF UpIs
<1>4. Up(e) \subseteq Up(e)'
  <2>1. \A d \in Up(e)' : parent[d] # None => parent[d] \in Up(e)'
    BY <1>1, <1>2, <1>3 DEF UpIs, Outside
  <2> QED BY <1>1, <2>1 DEF UpIs
<1> QED BY <1>2, <1>3, <1>4

(* What is behind an open coroutine is not active.                          *)
LEMMA UpInactive ==
  ASSUME TypeInv, LinkInv, NEW e \in Coroutines, status[e] \in {"open", "closed"}
  PROVE  /\ \A d \in Up(e) : d \in Coroutines /\ d \notin Active
         /\ \A d \in Coroutines : parent[d] # e
<1>1. UpIs(e)
  BY UpFacts DEF LinkInv, TypeInv, TypeOK, LinkType
<1> QED BY <1>1, InFront DEF Up, UpIs, Active

(* What is behind a coroutine that is detached: those that were in front.   *)
LEMMA UpDetached ==
  ASSUME TypeInv, LinkInv, LinkType', LinkInv', NEW c \in Coroutines, NEW T, Detached(c, T)
  PROVE  Up(c)' = T
<1>1. UpIs(c)'
  BY UpFactsNext DEF LinkInv
<1>2. Up(c)' \subseteq T
  <2>1. c \in T /\ \A d \in T : parent'[d] # None => parent'[d] \in T
    BY DEF Detached
  <2> QED BY <1>1, <2>1 DEF UpIs
<1>3. T \subseteq Up(c)'
  <2> DEFINE Bad == T \ Up(c)'
  <2> SUFFICES ASSUME Bad # {} PROVE FALSE
    OBVIOUS
  <2>1. PICK B \in Nat : \E rank \in [Coroutines -> 0 .. B] : Down(rank)'
    BY DEF LinkInv, Ranked, Down
  <2>2. PICK rank \in [Coroutines -> 0 .. B] : Down(rank)'
    BY <2>1
  <2>3. Bad \subseteq Coroutines
    BY DEF Detached
  <2> HIDE DEF Bad
  <2>4. PICK d \in Bad : \A x \in Bad : rank[x] <= rank[d]
    BY <2>2, <2>3, Greatest
  <2>5. d \in T /\ d \notin Up(c)' /\ d # c
    BY <1>1, <2>4 DEF Bad, UpIs
  <2> DEFINE x == parent[d]
  <2>6. x \in T /\ x # current /\ d \in Coroutines /\ x \in Coroutines
    BY <2>5 DEF Detached, LinkInv, StatusInv
  <2>7. parent'[x] \in T /\ parent[parent'[x]] = x
    BY <2>6 DEF Detached
  <2>8. parent'[x] = d
    <3>1. parent'[x] \in Coroutines /\ x # None
      BY <2>6, <2>7, NoneIs DEF Detached
    <3> QED BY <2>6, <2>7, <3>1 DEF LinkInv, OneInFront
  <2> HIDE DEF x
  <2>9. d # None
    BY <2>6, NoneIs
  <2>10. x \notin Up(c)'
    BY <1>1, <2>5, <2>8, <2>9 DEF UpIs
  <2>11. x \in Bad
    BY <2>6, <2>10 DEF Bad
  <2>12. rank[d] < rank[x]
    BY <2>2, <2>6, <2>8, <2>9 DEF Down
  <2>13. rank[x] \in Nat /\ rank[d] \in Nat
    BY <2>2, <2>6
  <2> QED BY <2>4, <2>11, <2>12, <2>13
<1> QED BY <1>2, <1>3

(* The active coroutines from the running one to t.                         *)
LEMMA BetweenIs ==
  ASSUME TypeInv, LinkInv, NEW t \in Active
  PROVE  /\ Between(t) \subseteq Active /\ current \in Between(t) /\ t \in Between(t)
         /\ parent[t] \notin Between(t)
         /\ \A d \in Between(t) : d # t => parent[d] \in Between(t)
         /\ \A S : current \in S /\ (\A d \in S : d # t => parent[d] \in S) => Between(t) \subseteq S
         /\ Reaches(current, t)
<1> DEFINE ch == ChainTo(current, t)
<1>1. current \in Coroutines /\ LinkType /\ Ranked /\ Reaches(current, t)
      /\ Active = ToSet(ChainFrom(current))
  BY ActiveChain DEF TypeInv, TypeOK, LinkType, LinkInv, Reaches
<1>2. /\ ch \in Seq(Coroutines) /\ ch # << >> /\ ch[1] = current
      /\ \A i \in 1 .. Len(ch) - 1 : ch[i + 1] = parent[ch[i]]
      /\ ToSet(ch) \subseteq Active
      /\ t \in ToSet(ch) /\ parent[t] \notin ToSet(ch)
      /\ \A d \in ToSet(ch) \ {t} : parent[d] \in ToSet(ch)
  BY <1>1, ChainToSet
<1>3. Between(t) = ToSet(ch)
  BY DEF Between
<1> HIDE DEF ch
<1>4. DOMAIN ch = 1 .. Len(ch) /\ Len(ch) \in Nat /\ Len(ch) >= 1 /\ ToSet(ch) = {ch[i] : i \in DOMAIN ch}
  BY <1>2 DEF ToSet
<1>5. current \in ToSet(ch)
  BY <1>2, <1>4
<1>6. ASSUME NEW S, current \in S, \A d \in S : d # t => parent[d] \in S
      PROVE  ToSet(ch) \subseteq S
  <2> DEFINE Bad == {i \in DOMAIN ch : ch[i] \notin S}
  <2>1. Bad = {}
    <3> SUFFICES ASSUME Bad # {} PROVE FALSE
      OBVIOUS
    <3>1. Bad \subseteq Nat
      BY <1>4
    <3>2. PICK m \in Bad : \A j \in Bad : m <= j
      BY <3>1, LeastOf
    <3>3. m \in DOMAIN ch /\ ch[m] \notin S /\ m # 1
      BY <1>2, <1>6, <3>2
    <3>4. m - 1 \in 1 .. Len(ch) - 1 /\ m - 1 \in DOMAIN ch /\ (m - 1) + 1 = m
      BY <1>4, <3>3
    <3>5. m - 1 \notin Bad
      BY <1>4, <3>2, <3>4
    <3>6. ch[m - 1] \in S
      BY <3>4, <3>5
    <3>7. ch[m] = parent[ch[m - 1]]
      BY <1>2, <3>4
    <3>8. ch[m] \in ToSet(ch)
      BY <1>4, <3>3
    <3> HIDE DEF Bad
    <3> QED BY <1>2, <1>6, <3>3, <3>6, <3>7, <3>8
  <2> QED BY <1>4, <2>1
<1> QED BY <1>1, <1>2, <1>3, <1>5, <1>6

(* Only the running one up to itself.                                       *)
LEMMA BetweenFirst ==
  ASSUME TypeInv, LinkInv
  PROVE  current \in Active /\ Between(current) = {current}
<1>1. current \in Active
  BY DEF LinkInv, StatusInv, Active, TypeInv, TypeOK
<1>2. Between(current) \subseteq {current} /\ current \in Between(current)
  BY <1>1, BetweenIs
<1> QED BY <1>1, <1>2

(* And one more up to the next.                                             *)
LEMMA BetweenNext ==
  ASSUME TypeInv, LinkInv, NEW t \in Active, NEW a \in Between(t), a # t
  PROVE  /\ a \in Active /\ parent[a] \in Between(t) /\ parent[a] \in Active
         /\ Between(parent[a]) \subseteq Between(a) \cup {parent[a]}
<1>1. a \in Active /\ parent[a] \in Between(t) /\ parent[a] \in Active
  BY BetweenIs
<1> DEFINE S == Between(a) \cup {parent[a]}
<1>2. current \in S /\ \A d \in S : d # parent[a] => parent[d] \in S
  BY <1>1, BetweenIs
<1>3. Between(parent[a]) \subseteq S
  <2> DEFINE p == parent[a]
  <2> HIDE DEF S
  <2>1. p \in Active
    BY <1>1
  <2>2. current \in S /\ \A d \in S : d # p => parent[d] \in S
    BY <1>2
  <2> HIDE DEF p
  <2>3. Between(p) \subseteq S
    BY <2>1, <2>2, BetweenIs
  <2> QED BY <2>3 DEF p
<1> QED BY <1>1, <1>3

(* What a coroutine that waits is to do when it is resumed: all of it, and  *)
(* which winder it keeps.                                                   *)
WaitsAll(e) == \A l \in Up(e) : parent[l] = None => WaitsWell(e, l)

(* It goes on waiting, whatever happens to the coroutines T it is not among.*)
LEMMA WaitsStay ==
  ASSUME TypeInv, LinkInv, LinkType', LinkInv', NEW T, Outside(T),
         NEW e \in Coroutines \ T, Ready(e), WaitsAll(e),
         \A d \in Coroutines \ T : status[d] # "active" => calls'[d] = calls[d],
         \A w \in Winders : Keeps(e, w) => winders'[w] = winders[w],
         used' \in Nat, used <= used', saved'[e] \in {saved[e], NoWinder}
  PROVE  WaitsAll(e)' /\ \A w \in Winders : Keeps(e, w)' => Keeps(e, w)
<1>1. Up(e)' = Up(e) /\ Up(e) \cap T = {} /\ Up(e) \subseteq Coroutines \ T
  BY UpOutside, UpInactive DEF LinkInv, TypeInv, TypeOK, LinkType, Ready
<1>2. \A d \in Up(e) : d \notin T /\ d \in Coroutines /\ calls'[d] = calls[d] /\ parent'[d] = parent[d]
                         /\ calls[d] \in Seq(Activations)
  BY <1>1, UpInactive DEF Ready, Active, Outside, TypeInv
<1>3. ASSUME NEW l \in Up(e), parent[l] = None PROVE WaitsWell(e, l)'
  <2>1. WaitsWell(e, l) /\ calls'[l] = calls[l]
    BY <1>2, <1>3 DEF WaitsAll
  <2>2. PICK a \in Activations : a = Head(calls[l]) /\ Head(calls'[l]) = a
    BY <1>2, <2>1, Split DEF WaitsWell
  <2>3. a.op = "suspended" => a.winder \in Winders /\ winders'[a.winder] = winders[a.winder]
    <3>1. a.op = "suspended" => a.winder \in Winders
      BY <2>2, Fields
    <3> QED BY <1>3, <2>2, <3>1 DEF Keeps
  <2>4. /\ calls[l] # << >> /\ a.op \in {"body", "suspended"}
        /\ a.op = "suspended" => a.co = e /\ a.winder <= used /\ EntriesIn(a.winder, Up(e))
        /\ saved[e] # NoWinder => a.op = "suspended" /\ a.winder = saved[e]
        /\ \A d \in Up(e) : Replays(WorkOf(a), d, << >>, Windings(d))
    BY <2>1, <2>2 DEF WaitsWell
  <2>5. WorkOf(a)' = WorkOf(a)
    BY <2>3, <2>4 DEF WorkOf, Winds
  <2>6. \A d \in Up(e) : Windings(d)' = Windings(d)
    BY <1>2 DEF Windings
  <2>7. a.op = "suspended" => EntriesIn(a.winder, Up(e))'
    BY <1>1, <2>3, <2>4 DEF EntriesIn
  <2>8. a.op = "suspended" => a.winder <= used'
    BY <2>3, <2>4 DEF TypeInv, TypeOK, Winders, BoundsAssumption
  <2>9. saved'[e] # NoWinder => saved'[e] = saved[e]
    OBVIOUS
  <2>10. /\ calls'[l] # << >> /\ a.op \in {"body", "suspended"}
         /\ a.op = "suspended" => a.co = e /\ a.winder <= used' /\ EntriesIn(a.winder, Up(e))'
         /\ saved'[e] # NoWinder => a.op = "suspended" /\ a.winder = saved'[e]
         /\ \A d \in Up(e)' : Replays(WorkOf(a)', d, << >>, Windings(d)')
    BY <1>1, <2>1, <2>4, <2>5, <2>6, <2>7, <2>8, <2>9
  <2> QED BY <2>2, <2>10 DEF WaitsWell, EntriesIn, WorkOf, Winds
<1>4. WaitsAll(e)'
  BY <1>1, <1>2, <1>3 DEF WaitsAll
<1>5. \A w \in Winders : Keeps(e, w)' => Keeps(e, w)
  BY <1>1, <1>2 DEF Keeps
<1> QED BY <1>4, <1>5

(* The coroutines that wait, after a step that adds at most n to them.      *)
LEMMA WaitingStays ==
  ASSUME TypeInv, LinkInv, LinkType', LinkInv', WaitingInv, NEW T, Outside(T), NEW n,
         \A e \in Coroutines : e # n /\ Ready(e)' => Ready(e) /\ e \notin T,
         \A d \in Coroutines \ T : status[d] # "active" => calls'[d] = calls[d],
         \A w \in Winders : winders'[w] = winders[w] \/ \A e \in Coroutines : ~Keeps(e, w),
         used' \in Nat, used <= used',
         \A e \in Coroutines \ {n} : saved'[e] \in {saved[e], NoWinder},
         n \in Coroutines /\ Ready(n)' => WaitsAll(n)',
         n \in Coroutines => \A w \in Winders : Keeps(n, w)' => \A e \in Coroutines : ~Keeps(e, w),
         Winds(Job') \/ (Job').op = "wind-in-out" =>
           /\ (Job').winder \in Winders /\ (Job').winder <= used'
           /\ \A e \in Coroutines \ {n} : Ready(e)' => ~Keeps(e, (Job').winder)
           /\ n \in Coroutines => \A w \in Winders : w = (Job').winder => ~Keeps(n, w)'
  PROVE  WaitingInv'
<1>1. ASSUME NEW e \in Coroutines, e # n, Ready(e)'
      PROVE  WaitsAll(e)' /\ Ready(e) /\ \A w \in Winders : Keeps(e, w)' => Keeps(e, w)
  <2>1. Ready(e) /\ e \in Coroutines \ T /\ WaitsAll(e)
    BY <1>1 DEF WaitingInv, WaitsAll
  <2>2. \A w \in Winders : Keeps(e, w) => winders'[w] = winders[w]
    OBVIOUS
  <2>3. saved'[e] \in {saved[e], NoWinder}
    BY <1>1
  <2> QED BY <2>1, <2>2, <2>3, WaitsStay
<1>2. \A e \in Coroutines : Ready(e)' => \A l \in Up(e)' : parent'[l] = None => WaitsWell(e, l)'
  BY <1>1 DEF WaitsAll
<1>3. ASSUME NEW e \in Coroutines, NEW w \in Winders, Keeps(e, w)', e # n PROVE Keeps(e, w) /\ Ready(e)'
  <2>1. Ready(e)'
    BY <1>3 DEF Keeps
  <2> QED BY <1>1, <1>3, <2>1
<1>4. ASSUME NEW e \in Coroutines, NEW f \in Coroutines, NEW w \in Winders, Keeps(e, w)', Keeps(f, w)'
      PROVE  e = f
  BY <1>3, <1>4 DEF WaitingInv
<1>5. Winds(Job') \/ (Job').op = "wind-in-out" =>
        \E w \in Winders : w = (Job').winder /\ w <= used' /\ \A e \in Coroutines : ~Keeps(e, w)'
  <2> SUFFICES ASSUME Winds(Job') \/ (Job').op = "wind-in-out"
               PROVE  \E w \in Winders : w = (Job').winder /\ w <= used' /\ \A e \in Coroutines : ~Keeps(e, w)'
    OBVIOUS
  <2>1. PICK w \in Winders : w = (Job').winder
    OBVIOUS
  <2>2. w <= used' /\ \A e \in Coroutines \ {n} : Ready(e)' => ~Keeps(e, w)
    BY <2>1
  <2>3. \A e \in Coroutines \ {n} : ~Keeps(e, w)'
    BY <1>3, <2>2
  <2>4. n \in Coroutines => ~Keeps(n, w)'
    BY <2>1
  <2> QED BY <2>1, <2>2, <2>3, <2>4
<1>6. (\E w \in Winders : w = (Job').winder /\ w <= used' /\ \A e \in Coroutines : ~Keeps(e, w)')
      => (Job.winder <= used /\ \A e \in Coroutines : ~Keeps(e, Job.winder))'
  BY DEF Keeps
<1> QED BY <1>2, <1>4, <1>5, <1>6 DEF WaitingInv

(* The steps of the running coroutine on its own stack.                     *)
RunsOn(s) ==
  /\ UNCHANGED <<current, status, parent>>
  /\ s \in Seq(Activations) /\ calls' = [calls EXCEPT ![current] = s]
  /\ Words(s) /\ Sorted(s)
  /\ dead \subseteq dead'
  /\ used' \in Nat /\ used <= used'
  /\ \A e \in Coroutines : Closing(e) => Closing(e)'
  /\ \A w \in Winders : winders'[w] = winders[w] \/ ((Winds(Job) \/ Job.op = "wind-in-out") /\ w = Job.winder)
  /\ \A c \in Coroutines : saved'[c] \in {saved[c], NoWinder}
WinderIs(w) ==
  /\ w \in Winders /\ w <= used'
  /\ \A e \in Coroutines : Ready(e)' => ~Keeps(e, w)
(* A step of the running coroutine on its own stack keeps the invariant,    *)
(* but for the context and the places of frames.                            *)
LEMMA RunKeeps ==
  ASSUME TypeInv, LinkInv, ShapeInv, WaitingInv, SavedInv, NEW s, RunsOn(s),
         Winds(JobOf(s)) \/ JobOf(s).op = "wind-in-out" => WinderIs(JobOf(s).winder),
         Job.op = "suspended" => JobOf(s) = Job \/ saved'[Job.co] = NoWinder
  PROVE  /\ ShapeInv' /\ WaitingInv' /\ SavedInv' /\ Job' = JobOf(s) /\ Active' = Active
         /\ \A c \in Coroutines : c # current => calls'[c] = calls[c]
         /\ calls'[current] = s
         /\ \A c \in Coroutines : Between(c)' = Between(c)
<1>1. current \in Coroutines /\ calls \in [Coroutines -> Seq(Activations)] /\ LinkType
  BY DEF TypeInv, TypeOK, LinkType
<1>2. \A c \in Coroutines : calls'[c] = IF c = current THEN s ELSE calls[c]
  BY <1>1 DEF RunsOn
<1>3. current' = current /\ status' = status /\ parent' = parent
  BY DEF RunsOn
<1>4. Job' = JobOf(s)
  BY <1>1, <1>2, <1>3 DEF Job
<1>5. LinkType' /\ LinkInv'
  BY <1>1, <1>3 DEF LinkType, LinkInv, Ranked, Down, OneInFront, StatusInv
<1>6. ShapeInv'
  BY <1>2, <1>3 DEF ShapeInv, RunsOn
<1>7. WaitingInv'
  <2> DEFINE n == None
             T == {}
  <2>1. n \notin Coroutines
    BY NoneIs
  <2>2. Outside(T)
    BY <1>3 DEF Outside
  <2>3. \A e \in Coroutines : Ready(e)' => Ready(e)
    BY <1>3 DEF Ready, RunsOn
  <2>4. \A d \in Coroutines : status[d] # "active" => calls'[d] = calls[d]
    BY <1>2 DEF LinkInv, StatusInv
  <2>5. \A w \in Winders : winders'[w] = winders[w] \/ \A e \in Coroutines : ~Keeps(e, w)
    BY DEF RunsOn, WaitingInv
  <2>6. used' \in Nat /\ used <= used' /\ \A c \in Coroutines : saved'[c] \in {saved[c], NoWinder}
    BY DEF RunsOn
  <2>7. Winds(Job') \/ (Job').op = "wind-in-out" =>
          /\ (Job').winder \in Winders /\ (Job').winder <= used'
          /\ \A e \in Coroutines : Ready(e)' => ~Keeps(e, (Job').winder)
    BY <1>4 DEF WinderIs
  <2> HIDE DEF n, T
  <2>8. T = {}
    BY DEF T
  <2> QED BY <1>5, <2>1, <2>2, <2>3, <2>4, <2>5, <2>6, <2>7, <2>8, WaitingStays
<1>8. SavedInv'
  <2> SUFFICES ASSUME NEW c \in Coroutines, saved'[c] # NoWinder
               PROVE  \/ status[c] \in {"open", "closed"}
                      \/ status[c] = "active" /\ JobOf(s).op = "suspended" /\ JobOf(s).co = c
    BY <1>3, <1>4 DEF SavedInv
  <2>1. saved'[c] = saved[c]
    BY DEF RunsOn
  <2> QED BY <2>1 DEF SavedInv
<1>9. Active' = Active /\ \A c \in Coroutines : Between(c)' = Between(c)
  BY <1>3 DEF Active, Between, ChainTo, ChainFrom, Links
<1> QED BY <1>2, <1>1, <1>3, <1>4, <1>6, <1>7, <1>8, <1>9

(* Stacks that have the form that they have.                                *)
Good(s) == s \in Seq(Activations) /\ Words(s) /\ Sorted(s)
(* What may be put on such a stack.                                         *)
LEMMA GoodCons ==
  ASSUME NEW x \in Activations, NEW r, Good(r),
         r # << >> => Follows(x, Head(r)), Settled(x) => AllStable(r)
  PROVE  /\ Good(<<x>> \o r) /\ Head(<<x>> \o r) = x /\ <<x>> \o r # << >>
         /\ Stable(x) /\ AllStable(r) => AllStable(<<x>> \o r)
BY OnTop, WordsCons, SortedCons DEF Good

(* The stack of the running coroutine.                                      *)
LEMMA TopSplit ==
  ASSUME TypeInv, ShapeInv, calls[current] # << >>
  PROVE  /\ Top \in Activations /\ Good(calls[current]) /\ Good(Tail(calls[current]))
         /\ calls[current] = <<Top>> \o Tail(calls[current])
         /\ Tail(calls[current]) # << >> =>
              /\ Follows(Top, Head(Tail(calls[current])))
              /\ Head(Tail(calls[current])) \in Activations
              /\ AllStable(Tail(calls[current])) => Stable(Head(Tail(calls[current])))
         /\ Settled(Top) => AllStable(Tail(calls[current]))
<1> DEFINE s == calls[current]
           r == Tail(s)
<1>1. s \in Seq(Activations) /\ Words(s) /\ Sorted(s)
  BY DEF TypeInv, TypeOK, ShapeInv
<1>2. Head(s) \in Activations /\ r \in Seq(Activations) /\ s = <<Head(s)>> \o r
  BY <1>1, Split
<1>3. Top = Head(s)
  BY DEF Top
<1> HIDE DEF s, r
<1>4. /\ Words(r) /\ Sorted(r) /\ (Settled(Head(s)) => AllStable(r))
      /\ r # << >> => Follows(Head(s), Head(r))
  BY <1>1, <1>2, WordsCons, SortedCons
<1>5. r # << >> => Head(r) \in Activations /\ (AllStable(r) => Stable(Head(r)))
  BY <1>2, OnTop DEF AllStable
<1>6. Good(s) /\ Good(r)
  BY <1>1, <1>2, <1>4 DEF Good
<1> QED BY <1>2, <1>3, <1>4, <1>5, <1>6 DEF s, r

(* The activations of s of some kinds are in t too.                         *)
Holds(s, x) == \E i \in DOMAIN s : s[i] = x
Passes(s, t, ops) == \A x : Holds(s, x) /\ x.op \in ops => Holds(t, x)
(* With one activation more.                                                *)
LEMMA PassesCons ==
  ASSUME NEW x \in Activations, NEW s \in Seq(Activations), NEW t, NEW ops
  PROVE  /\ Passes(s, s, ops)
         /\ Passes(t, s, ops) => Passes(t, <<x>> \o s, ops)
         /\ Passes(s, t, ops) /\ x.op \notin ops => Passes(<<x>> \o s, t, ops)
         /\ \A y : Holds(<<x>> \o s, y) <=> y = x \/ Holds(s, y)
<1>1. \A y : Holds(<<x>> \o s, y) <=> y = x \/ Holds(s, y)
  <2>1. /\ (<<x>> \o s)[1] = x /\ 1 \in DOMAIN (<<x>> \o s)
        /\ \A i \in DOMAIN s : i + 1 \in DOMAIN (<<x>> \o s) /\ (<<x>> \o s)[i + 1] = s[i]
    BY OnTop
  <2>2. \A i \in DOMAIN (<<x>> \o s) : (<<x>> \o s)[i] = x \/ \E j \in DOMAIN s : (<<x>> \o s)[i] = s[j]
    BY OnTopIs
  <2> DEFINE u == <<x>> \o s
  <2>3. /\ u[1] = x /\ 1 \in DOMAIN u
        /\ \A i \in DOMAIN s : i + 1 \in DOMAIN u /\ u[i + 1] = s[i]
        /\ \A i \in DOMAIN u : u[i] = x \/ \E j \in DOMAIN s : u[i] = s[j]
    BY <2>1, <2>2
  <2> HIDE DEF u
  <2>4. \A y : Holds(u, y) => y = x \/ Holds(s, y)
    BY <2>3 DEF Holds
  <2>5. \A y : y = x \/ Holds(s, y) => Holds(u, y)
    BY <2>3 DEF Holds
  <2> QED BY <2>4, <2>5 DEF u
<1> DEFINE u == <<x>> \o s
<1> HIDE DEF u
<1> QED BY <1>1 DEF Passes, u

(* So closes go on, and frames are still to be pushed.                      *)
LEMMA PassesOn ==
  ASSUME TypeInv, UNCHANGED current, NEW s, calls' = [calls EXCEPT ![current] = s]
  PROVE  /\ Passes(calls[current], s, {"close"}) => \A e : Closing(e) => Closing(e)'
         /\ Passes(calls[current], s, {"push-frame"}) => InPushes \subseteq InPushes'
<1>1. current \in Coroutines /\ \A c \in Coroutines : calls'[c] = IF c = current THEN s ELSE calls[c]
  BY DEF TypeInv, TypeOK
<1>2. ASSUME Passes(calls[current], s, {"close"}), NEW e, Closing(e) PROVE Closing(e)'
  <2>1. PICK i \in DOMAIN calls[current] : calls[current][i].op = "close" /\ calls[current][i].co = e
    BY <1>2 DEF Closing
  <2>2. Holds(s, calls[current][i])
    BY <1>2, <2>1 DEF Passes, Holds
  <2> QED BY <1>1, <2>1, <2>2 DEF Closing, Holds
<1>3. ASSUME Passes(calls[current], s, {"push-frame"}), NEW f \in InPushes PROVE f \in InPushes'
  <2>0. PICK c \in Coroutines : \E i \in DOMAIN calls[c] : calls[c][i].op = "push-frame" /\ calls[c][i].frame = f
    BY DEF InPushes
  <2>1. PICK i \in DOMAIN calls[c] : calls[c][i].op = "push-frame" /\ calls[c][i].frame = f
    BY <2>0
  <2>2. c # current => calls'[c] = calls[c]
    BY <1>1
  <2>3. c = current => Holds(s, calls[c][i])
    BY <1>3, <2>1 DEF Passes, Holds
  <2>4. \E j \in DOMAIN calls'[c] : calls'[c][j] = calls[c][i]
    BY <1>1, <2>2, <2>3 DEF Holds
  <2> QED BY <2>1, <2>4 DEF InPushes
<1> QED BY <1>2, <1>3

(* Where the runtime does not work on the dynamic context.                  *)
Idle(a) == a.op \in {"body", "resume", "end", "dynamic-wind", "close", "wind-in-out", "none"}
(* There is nothing to be left or entered then.                             *)
LEMMA IdleIs ==
  ASSUME NEW a, Idle(a)
  PROVE  Leaving(a) = {} /\ WorkOf(a) = << >> /\ JobIs(a) /\ ~Winds(a)
BY DEF Idle, Leaving, WorkOf, JobIs, Winds

(* The context is that of the dynamic-winds then.                           *)
Framed == \A d \in Active : frames[d] = Windings(d)
(* So it is where the runtime does not work on it, in a state ...           *)
LEMMA ContextIdle ==
  frames \in [Coroutines -> Seq(Frames)] /\ Idle(Job) /\ ~ToPush(calls[current])
    => (Context <=> Framed) /\ JobIs(Job) /\ PushIs
<1> SUFFICES ASSUME frames \in [Coroutines -> Seq(Frames)], Idle(Job), ~ToPush(calls[current])
             PROVE  (Context <=> Framed) /\ JobIs(Job) /\ PushIs
  OBVIOUS
<1>1. Leaving(Job) = {} /\ WorkOf(Job) = << >> /\ JobIs(Job)
  BY IdleIs
<1>2. \A d \in Active : PendOf(calls[current], d) \o frames[d] = frames[d]
  <2>1. \A d : PendOf(calls[current], d) = << >>
    BY DEF PendOf
  <2>2. \A d \in Active : frames[d] \in Seq(Frames)
    BY DEF Active
  <2> QED BY <2>1, <2>2, ConcatEmptySeq
<1>3. Context <=> \A d \in Active : Replays(<< >>, d, frames[d], Windings(d))
  BY <1>1, <1>2 DEF Context
<1> QED BY <1>1, <1>3, ReplaysNone DEF Framed, PushIs
(* ... in the next state too.                                               *)
LEMMA ContextIdleNext ==
  (frames \in [Coroutines -> Seq(Frames)] /\ Idle(Job) /\ ~ToPush(calls[current]))'
    => ((Context <=> Framed) /\ JobIs(Job) /\ PushIs)'
BY ContextIdle, PTL

(* The invariant has the parts that follow.                                 *)
LEMMA RunParts ==
  ASSUME TypeInv, LinkInv, DInv, NEW s, RunsOn(s),
         Winds(JobOf(s)) \/ JobOf(s).op = "wind-in-out" => WinderIs(JobOf(s).winder),
         Job.op = "suspended" => JobOf(s) = Job \/ saved'[Job.co] = NoWinder,
         JobIs(Job)', PushIs', Context', PlacesInv'
  PROVE  DInv'
BY RunKeeps DEF DInv

(* Steps that leave frames and winders alone.                               *)
LEMMA PlacesQuiet ==
  ASSUME PlacesInv, Active' = Active, UNCHANGED <<frames, winders, ins, outs>>,
         used \in Nat, used' \in Nat, used <= used', InPushes \subseteq InPushes'
  PROVE  PlacesInv'
<1>1. InFrames' = InFrames
  BY DEF InFrames
<1>2. \A w \in Winders : w > used' => winders'[w] = << >>
  BY DEF PlacesInv, Winders, BoundsAssumption
<1>3. \A c \in Coroutines \ Active' : frames'[c] = << >>
  BY DEF PlacesInv
<1>4. \A f \in PlainFrames : ins'[f] = outs'[f] + 1 => f \in InFrames' \cup InPushes'
  BY <1>1 DEF PlacesInv
<1> QED BY <1>2, <1>3, <1>4 DEF PlacesInv

(* What is done, and the dynamic context, where neither changes.            *)
LEMMA SameJob ==
  ASSUME TypeInv, LinkInv, JobIs(Job), PushIs, Context,
         UNCHANGED <<current, frames, winders>>, Active' = Active,
         \A c \in Coroutines : Between(c)' = Between(c),
         \A c \in Coroutines : c # current => calls'[c] = calls[c],
         Job' = Job, Bare(calls'[current]) = Bare(calls[current]),
         WindingsOf(calls'[current]) = WindingsOf(calls[current])
  PROVE  JobIs(Job)' /\ PushIs' /\ Context'
<1>1. PICK a : a = Job /\ a = Job'
  OBVIOUS
<1>2. JobIs(a)
  BY <1>1
<1>3. /\ a.op = "wind-out" => a.target \in Coroutines /\ a.at \in Coroutines
      /\ a.op \in {"suspend", "break"} => a.co \in Coroutines
  BY <1>2, BetweenIs DEF JobIs, Active
<1>4. JobIs(a)'
  BY <1>2, <1>3 DEF JobIs, OutOf, EntriesIn
<1>5. Leaving(a)' = Leaving(a) /\ WorkOf(a)' = WorkOf(a)
  BY <1>3 DEF Leaving, WorkOf, Winds
<1>6. ToPush(calls'[current]) = ToPush(calls[current])
      /\ \A d : PendOf(calls'[current], d) = PendOf(calls[current], d)
  BY DEF ToPush, PendOf
<1>7. \A d \in Coroutines : Windings(d)' = Windings(d)
  BY DEF Windings
<1>8. \A d \in Active \ Leaving(a)' :
        Replays(WorkOf(a)', d, PendOf(calls'[current], d) \o frames[d], Windings(d)')
  BY <1>1, <1>5, <1>6, <1>7 DEF Context, Active
<1>9. Context'
  BY <1>1, <1>8 DEF Context, Leaving, WorkOf, Winds, Between
<1>10. PushIs'
  BY <1>6 DEF PushIs
<1>11. JobIs(Job)'
  BY <1>1, <1>4 DEF JobIs, OutOf, EntriesIn
<1> QED BY <1>9, <1>10, <1>11

(* What is worked at is an activation, and its winder is a winder.          *)
LEMMA JobTyped ==
  ASSUME NEW s \in Seq(Activations)
  PROVE  /\ JobOf(s) \in Activations \/ JobOf(s) = [op |-> "none"]
         /\ Winds(JobOf(s)) \/ JobOf(s).op = "wind-in-out" => JobOf(s).winder \in Winders
<1>1. Bare(s) \in Seq(Activations)
  BY Split DEF Bare
<1>2. Core(s) \in Seq(Activations)
  BY <1>1, Split DEF Core, ToPush
<1>3. JobOf(s) \in Activations \/ JobOf(s) = [op |-> "none"]
  BY <1>2, Split DEF JobOf
<1>4. JobOf(s) = [op |-> "none"] => JobOf(s).op = "none"
  BY <1>3
<1> QED BY <1>3, <1>4, Fields DEF Winds

(* No waiting coroutine keeps the winder that is worked at.                 *)
LEMMA SameWinder ==
  ASSUME TypeInv, WaitingInv, NEW s, RunsOn(s), Winds(Job) \/ Job.op = "wind-in-out"
  PROVE  WinderIs(Job.winder)
<1>1. calls[current] \in Seq(Activations)
  BY DEF TypeInv, TypeOK
<1>2. Job.winder \in Winders
  BY <1>1, JobTyped DEF Job
<1>3. Job.winder <= used /\ \A e \in Coroutines : ~Keeps(e, Job.winder)
  BY DEF WaitingInv
<1>4. Job.winder <= used'
  BY <1>2, <1>3 DEF RunsOn, TypeInv, TypeOK, Winders, BoundsAssumption
<1> QED BY <1>2, <1>3, <1>4 DEF WinderIs

(* Below what is settled, and below a dynamic-wind or a wind-in-out that    *)
(* has ended, nothing works on the dynamic context.                         *)
LEMMA StableView ==
  ASSUME NEW r \in Seq(Activations),
         r # << >> => Stable(Head(r)) \/ Head(r).op = "close"
  PROVE  Idle(JobOf(r)) /\ ~ToPush(r) /\ JobOf(r).op # "wind-in-out"
         /\ JobOf(r) = IF r = << >> THEN [op |-> "none"] ELSE Head(r)
<1>1. CASE r = << >>
  BY <1>1, ViewNone DEF Idle
<1>2. CASE r # << >>
  <2>1. Head(r) \in Activations /\ Tail(r) \in Seq(Activations) /\ r = <<Head(r)>> \o Tail(r)
    BY <1>2, Split
  <2>2. ~Thunk(Head(r)) /\ Head(r).op # "push-frame"
    BY <1>2 DEF Stable, Settled, Thunk
  <2>3. JobOf(r) = Head(r) /\ ~ToPush(r)
    BY <2>1, <2>2, ViewJob
  <2> QED BY <1>2, <2>3 DEF Idle, Stable, Settled
<1> QED BY <1>1, <1>2

(* What is below a thunk, or code that is none, when it returns.            *)
LEMMA ReturnKeeps ==
  ASSUME IInv, IInv', SInv, DInv, Return
  PROVE  DInv'
<1> DEFINE r == Tail(calls[current])
<1>1. TypeInv /\ TypeInv' /\ LinkInv /\ ShapeInv /\ WaitingInv /\ SavedInv
  BY DEF IInv, SInv, DInv
<1>2. /\ calls[current] # << >> /\ Top.op = "body"
      /\ UNCHANGED <<current, status, parent, frames, saved, registered, winders, used, dead,
                     around, ins, outs>>
      /\ calls' = [calls EXCEPT ![current] = << >> \o r]
  BY DEF Return, AtTop, Continue
<1>3. /\ Top \in Activations /\ Good(r) /\ Good(calls[current]) /\ calls[current] = <<Top>> \o r
      /\ r # << >> => Follows(Top, Head(r)) /\ Head(r) \in Activations
                      /\ (AllStable(r) => Stable(Head(r)))
      /\ Settled(Top) => AllStable(r)
  BY <1>1, <1>2, TopSplit
<1> HIDE DEF r
<1>4. calls' = [calls EXCEPT ![current] = r] /\ r \in Seq(Activations)
  BY <1>2, <1>3, ConcatEmptySeq DEF Good
<1>5. Passes(calls[current], r, {"close"}) /\ Passes(calls[current], r, {"push-frame"})
  BY <1>2, <1>3, <1>4, PassesCons
<1>6. InPushes \subseteq InPushes' /\ \A e : Closing(e) => Closing(e)'
  BY <1>1, <1>2, <1>4, <1>5, PassesOn
<1>7. used \in Nat
  BY <1>1 DEF TypeInv, TypeOK, Winders, BoundsAssumption
<1>8. RunsOn(r)
  BY <1>2, <1>3, <1>4, <1>6, <1>7 DEF RunsOn, Good
<1>9. CASE Thunk(Top)
  <2>1. /\ Bare(calls[current]) = r /\ Bare(r) = r /\ JobOf(r) = Job
        /\ WindingsOf(r) = WindingsOf(calls[current])
    BY <1>3, <1>9, ViewThunk DEF Good, Job
  <2>2. Winds(Job) \/ Job.op = "wind-in-out" => WinderIs(Job.winder)
    BY <1>1, <1>8, SameWinder
  <2>3. /\ Active' = Active /\ Job' = Job /\ calls'[current] = r
        /\ \A c \in Coroutines : c # current => calls'[c] = calls[c]
        /\ \A c \in Coroutines : Between(c)' = Between(c)
    BY <1>1, <1>8, <2>1, <2>2, RunKeeps
  <2>4. JobIs(Job)' /\ PushIs' /\ Context'
    BY <1>1, <1>2, <2>1, <2>3, SameJob DEF DInv
  <2>5. PlacesInv'
    BY <1>2, <1>6, <1>7, <2>3, PlacesQuiet DEF DInv
  <2> QED BY <1>1, <1>8, <2>1, <2>2, <2>4, <2>5, RunParts
<1>10. CASE Settled(Top)
  <2>1. /\ Job = Top /\ ~ToPush(calls[current]) /\ WindingsOf(calls[current]) = WindingsOf(r)
    BY <1>2, <1>3, <1>4, <1>10, ViewJob DEF Job, AddWinding, Settled, Thunk
  <2>2. Idle(JobOf(r)) /\ ~ToPush(r) /\ JobOf(r).op # "wind-in-out"
    BY <1>3, <1>10, StableView DEF Good
  <2>3. ~Winds(JobOf(r)) /\ Job.op # "suspended" /\ Idle(Job)
    BY <1>2, <2>1, <2>2, IdleIs DEF Idle
  <2>4. /\ Active' = Active /\ Job' = JobOf(r) /\ calls'[current] = r
        /\ \A c \in Coroutines : c # current => calls'[c] = calls[c]
    BY <1>1, <1>8, <2>2, <2>3, RunKeeps
  <2>5. JobIs(Job)' /\ PushIs' /\ Context'
    <3>1. Framed
      BY <1>1, <2>1, <2>3, ContextIdle DEF DInv, TypeInv, TypeOK
    <3>2. Framed'
      BY <1>2, <2>1, <2>4, <3>1 DEF Framed, Windings, Active
    <3> QED BY <1>1, <1>2, <2>2, <2>4, <3>2, ContextIdleNext DEF TypeInv, TypeOK
  <2>6. PlacesInv'
    BY <1>2, <1>6, <1>7, <2>4, PlacesQuiet DEF DInv
  <2> QED BY <1>1, <1>8, <2>2, <2>3, <2>5, <2>6, RunParts
<1> QED BY <1>2, <1>3, <1>9, <1>10, Fields DEF Thunk, Settled

(* The frame of an activation dynamic-wind.                                 *)
LEMMA WoundFrame ==
  ASSUME NEW a \in Activations, a.op = "dynamic-wind"
  PROVE  a.frame \in Frames
<1>1. CASE a \in [op : {"dynamic-wind"}, frame : Frames]
  BY <1>1
<1>2. CASE a \in [op : {"body"}, thunk : BOOLEAN]
            \/ a \in [op : {"end", "resume", "break", "close"}, co : Coroutines]
            \/ a \in [op : {"push-frame"}, frame : Frames, co : Coroutines]
  BY <1>2
<1>3. CASE a \in [op : {"wind-out"}, at : Coroutines, target : Coroutines, winder : {NoWinder},
                  callFinally : {TRUE}]
            \/ a \in [op : {"wind-out"}, at : Coroutines, target : Coroutines, winder : Winders,
                      callFinally : {FALSE}]
  BY <1>3
<1>4. CASE a \in [op : {"suspend", "suspended"}, co : Coroutines, winder : Winders]
            \/ a \in [op : {"wind-in"}, winder : Winders, cos : Seq(Coroutines)]
            \/ a \in [op : {"wind-in-out"}, winder : Winders, left : Nat]
  BY <1>4
<1> QED BY <1>1, <1>2, <1>3, <1>4 DEF Activations

(* The frames of dynamic-winds.                                             *)
LEMMA WindingsTyped ==
  ASSUME NEW s \in Seq(Activations)
  PROVE  WindingsOf(s) \in Seq(Frames)
<1> DEFINE Bad == {n \in Nat : \E t \in Seq(Activations) : Len(t) = n /\ WindingsOf(t) \notin Seq(Frames)}
<1>1. Bad = {}
  <2> SUFFICES ASSUME Bad # {} PROVE FALSE
    OBVIOUS
  <2>1. PICK n \in Bad : \A k \in Bad : n <= k
    BY LeastOf
  <2>2. PICK t \in Seq(Activations) : Len(t) = n /\ WindingsOf(t) \notin Seq(Frames)
    BY <2>1
  <2>3. t # << >>
    BY <2>2, WindingsNone
  <2>4. Head(t) \in Activations /\ Tail(t) \in Seq(Activations) /\ t = <<Head(t)>> \o Tail(t)
        /\ Len(Tail(t)) = n - 1 /\ n \in Nat /\ n >= 1
    BY <2>2, <2>3, Split
  <2>5. n - 1 \in Nat /\ n - 1 \notin Bad
    BY <2>1, <2>4
  <2>6. WindingsOf(Tail(t)) \in Seq(Frames)
    BY <2>4, <2>5
  <2>7. WindingsOf(t) = AddWinding(Head(t), WindingsOf(Tail(t)))
    BY <2>4, WindingsCons
  <2>8. Head(t).op = "dynamic-wind" => Head(t).frame \in Frames
    BY <2>4, WoundFrame
  <2>9. AddWinding(Head(t), WindingsOf(Tail(t))) \in Seq(Frames)
    <3>1. CASE Head(t).op = "dynamic-wind"
      <4>1. <<Head(t).frame>> \o WindingsOf(Tail(t)) \in Seq(Frames)
        BY <2>6, <2>8, <3>1, OnTop
      <4> QED BY <3>1, <4>1 DEF AddWinding
    <3>2. CASE Head(t).op # "dynamic-wind"
      BY <2>6, <3>2 DEF AddWinding
    <3> QED BY <3>1, <3>2
  <2> QED BY <2>2, <2>7, <2>9
<1> QED BY <1>1

(* The same of a step that leaves the winders alone.                        *)
LEMMA RunsOnQuiet ==
  ASSUME TypeInv, UNCHANGED <<current, status, parent, winders>>, NEW s, Good(s),
         calls' = [calls EXCEPT ![current] = s], Passes(calls[current], s, {"close"}),
         dead \subseteq dead', used' \in {used, used + 1},
         \A c \in Coroutines : saved'[c] \in {saved[c], NoWinder}
  PROVE  RunsOn(s)
<1>1. \A e \in Coroutines : Closing(e) => Closing(e)'
  BY PassesOn
<1>2. used \in Nat
  BY DEF TypeInv, TypeOK, Winders, BoundsAssumption
<1>3. used' \in Nat /\ used <= used'
  BY <1>2
<1> QED BY <1>1, <1>3 DEF RunsOn, Good

(* Winders that were not made, and frames of coroutines that are not active.*)
LEMMA PlacesRun ==
  ASSUME TypeInv, WaitingInv, PlacesInv, NEW s, RunsOn(s),
         \A c \in Coroutines : frames'[c] = frames[c] \/ c \in Active,
         \A f \in PlainFrames : ins'[f] = outs'[f] + 1 => f \in InFrames' \cup InPushes'
  PROVE  PlacesInv'
<1>1. used \in Nat /\ used' \in Nat /\ used <= used'
  BY DEF RunsOn, TypeInv, TypeOK, Winders, BoundsAssumption
<1>2. ASSUME NEW w \in Winders, w > used' PROVE winders'[w] = << >>
  <2>1. w \in Nat
    BY DEF Winders, BoundsAssumption
  <2>2. ~((Winds(Job) \/ Job.op = "wind-in-out") /\ w = Job.winder)
    BY <1>1, <1>2, <2>1 DEF WaitingInv
  <2>3. winders'[w] = winders[w]
    BY <2>2 DEF RunsOn
  <2>4. w > used
    BY <1>1, <1>2, <2>1
  <2> QED BY <2>3, <2>4 DEF PlacesInv
<1>3. Active' = Active
  BY DEF Active, RunsOn
<1> QED BY <1>2, <1>3 DEF PlacesInv

(* A frame is popped, and its out thunk called if it is plain.              *)
LEMMA ScopePop ==
  ASSUME TypeInv, CountInv, PlacesInv, NEW c \in Coroutines, frames[c] # << >>,
         frames' = [frames EXCEPT ![c] = Tail(@)],
         NEW f, f = Head(frames[c]),
         outs' = [outs EXCEPT ![f] = @ + 1] \/ (f \notin PlainFrames /\ outs' = outs),
         ins' = ins, InPushes \subseteq InPushes'
  PROVE  \A g \in PlainFrames : ins'[g] = outs'[g] + 1 => g \in InFrames' \cup InPushes'
<1> SUFFICES ASSUME NEW g \in PlainFrames, ins[g] = outs'[g] + 1
             PROVE  g \in InFrames' \cup InPushes'
  OBVIOUS
<1>1. g \in Frames /\ frames \in [Coroutines -> Seq(Frames)] /\ ins[g] \in Nat /\ outs[g] \in Nat
      /\ outs \in [Frames -> Nat]
  BY DEF TypeInv, TypeOK, Frames
<1>2. f \in InFrames /\ f = frames[c][1] /\ f \in Frames
  <2>1. 1 \in DOMAIN frames[c] /\ frames[c][1] \in Frames /\ f = frames[c][1]
    BY <1>1, Rest
  <2> QED BY <2>1 DEF InFrames
<1>3. g # f
  <2>1. ASSUME g = f PROVE FALSE
    <3>1. ins[f] = outs[f] + 1
      BY <1>2, <2>1 DEF CountInv
    <3>2. outs'[f] = outs[f] + 1
      BY <1>1, <1>2, <2>1
    <3> QED BY <1>1, <2>1, <3>1, <3>2
  <2> QED BY <2>1
<1>4. outs'[g] = outs[g]
  BY <1>1, <1>3
<1>5. g \in InFrames \cup InPushes
  BY <1>4 DEF PlacesInv
<1>6. ASSUME g \in InFrames PROVE g \in InFrames'
  <2>1. PICK d \in Coroutines : \E i \in DOMAIN frames[d] : frames[d][i] = g
    BY <1>6 DEF InFrames
  <2>2. PICK i \in DOMAIN frames[d] : frames[d][i] = g
    BY <2>1
  <2>3. \E j \in DOMAIN frames'[d] : frames'[d][j] = g
    <3>1. CASE d # c
      BY <1>1, <2>2, <3>1
    <3>2. CASE d = c
      <4> DEFINE s == frames[c]
      <4>1. s \in Seq(Frames) /\ frames'[c] = Tail(s) /\ i \in DOMAIN s /\ s[i] = g /\ i # 1 /\ s # << >>
        BY <1>1, <1>2, <1>3, <2>2, <3>2
      <4> HIDE DEF s
      <4>2. i - 1 \in DOMAIN Tail(s) /\ Tail(s)[i - 1] = s[(i - 1) + 1] /\ (i - 1) + 1 = i
        BY <4>1
      <4> QED BY <3>2, <4>1, <4>2
    <3> QED BY <3>1, <3>2
  <2> QED BY <1>1, <2>3 DEF InFrames
<1> QED BY <1>5, <1>6

(* Between steps where nothing works on the dynamic context.                *)
LEMMA IdleStep ==
  ASSUME IInv, IInv', SInv, DInv, NEW s, RunsOn(s), Idle(JobOf(s)), ~ToPush(s),
         JobOf(s).op = "wind-in-out" => WinderIs(JobOf(s).winder),
         Job.op = "suspended" => saved'[Job.co] = NoWinder,
         \A d \in Active : frames'[d] = IF d = current THEN WindingsOf(s) ELSE Windings(d),
         PlacesInv'
  PROVE  DInv'
<1>1. TypeInv /\ TypeInv' /\ LinkInv /\ ShapeInv /\ WaitingInv /\ SavedInv
  BY DEF IInv, SInv, DInv
<1>2. ~Winds(JobOf(s))
  BY IdleIs
<1>3. /\ Active' = Active /\ Job' = JobOf(s) /\ calls'[current] = s /\ current' = current
      /\ \A c \in Coroutines : c # current => calls'[c] = calls[c]
  BY <1>1, <1>2, RunKeeps DEF RunsOn
<1>4. Framed'
  BY <1>3 DEF Framed, Windings, Active
<1>5. JobIs(Job)' /\ PushIs' /\ Context'
  BY <1>1, <1>3, <1>4, ContextIdleNext DEF TypeInv, TypeOK
<1> QED BY <1>1, <1>2, <1>5, RunParts

(* The running coroutine as the steps find it.                              *)
LEMMA AtStep ==
  ASSUME IInv, SInv, DInv, calls[current] # << >>
  PROVE  /\ TypeInv /\ LinkInv /\ ShapeInv /\ WaitingInv /\ SavedInv /\ PlacesInv /\ used \in Nat
         /\ current \in Coroutines /\ current \in Active /\ Tail(calls[current]) \in Seq(Activations)
         /\ ~Thunk(Top) /\ Top.op # "push-frame" =>
              /\ Job = Top /\ ~ToPush(calls[current]) /\ \A d : PendOf(calls[current], d) = << >>
              /\ Windings(current) = AddWinding(Top, WindingsOf(Tail(calls[current])))
              /\ Idle(Top) => Framed
<1>1. TypeInv /\ LinkInv /\ ShapeInv /\ WaitingInv /\ SavedInv /\ PlacesInv
  BY DEF IInv, SInv, DInv
<1>2. used \in Nat /\ current \in Coroutines /\ current \in Active
  BY <1>1, BetweenFirst DEF TypeInv, TypeOK, Winders, BoundsAssumption
<1>3. Top \in Activations /\ Tail(calls[current]) \in Seq(Activations)
      /\ calls[current] = <<Top>> \o Tail(calls[current])
  BY <1>1, TopSplit DEF Good
<1>4. ASSUME ~Thunk(Top), Top.op # "push-frame"
      PROVE  /\ Job = Top /\ ~ToPush(calls[current]) /\ \A d : PendOf(calls[current], d) = << >>
             /\ Windings(current) = AddWinding(Top, WindingsOf(Tail(calls[current])))
             /\ Idle(Top) => Framed
  <2> DEFINE r == Tail(calls[current])
             x == Top
  <2>0. x = Top
    OBVIOUS
  <2> HIDE DEF r, x
  <2>1. /\ JobOf(<<x>> \o r) = x /\ ~ToPush(<<x>> \o r) /\ \A d : PendOf(<<x>> \o r, d) = << >>
        /\ WindingsOf(<<x>> \o r) = AddWinding(x, WindingsOf(r))
    BY <1>3, <1>4, <2>0, ViewJob DEF r
  <2>2. calls[current] = <<x>> \o r
    BY <1>3 DEF r, x
  <2>3. /\ Job = Top /\ ~ToPush(calls[current]) /\ \A d : PendOf(calls[current], d) = << >>
        /\ Windings(current) = AddWinding(Top, WindingsOf(Tail(calls[current])))
    BY <2>0, <2>1, <2>2 DEF Job, Windings, r
  <2> QED BY <1>1, <2>3, ContextIdle DEF DInv, TypeInv, TypeOK
<1> QED BY <1>1, <1>2, <1>3, <1>4

(* The body of a dynamic-wind has returned: its frame is popped.            *)
LEMMA BodyEndsKeeps ==
  ASSUME IInv, IInv', SInv, DInv, BodyEnds
  PROVE  DInv'
<1> DEFINE r == Tail(calls[current])
           b == Body(TRUE)
           f == Head(frames[current])
           s == <<b>> \o r
<1>1. /\ calls[current] # << >> /\ Top.op = "dynamic-wind" /\ frames[current] # << >>
      /\ UNCHANGED <<current, status, parent, saved, registered, winders, used, dead, around, ins>>
      /\ frames' = [frames EXCEPT ![current] = Tail(@)]
      /\ outs' = [outs EXCEPT ![f] = @ + 1]
      /\ calls' = [calls EXCEPT ![current] = (<<b>> \o << >>) \o r]
  BY DEF BodyEnds, AtTop, Continue, Popping, CallsOut
<1>2. /\ TypeInv /\ LinkInv /\ WaitingInv /\ PlacesInv /\ ShapeInv /\ used \in Nat
      /\ current \in Coroutines /\ current \in Active
      /\ r \in Seq(Activations) /\ Job = Top /\ Framed
      /\ Windings(current) = AddWinding(Top, WindingsOf(r))
  BY <1>1, AtStep DEF Thunk, Idle
<1>3. /\ Top \in Activations /\ Good(r) /\ Good(calls[current]) /\ calls[current] = <<Top>> \o r
      /\ r # << >> => Follows(Top, Head(r)) /\ Head(r) \in Activations
  BY <1>1, <1>2, TopSplit
<1>4. b \in Activations /\ b.op = "body" /\ b.thunk
  BY DEF Body, Activations
<1>5. calls' = [calls EXCEPT ![current] = s]
  <2>1. <<b>> \o << >> = <<b>>
    BY <1>4, ConcatEmptySeq
  <2> QED BY <1>1, <2>1
<1> HIDE DEF r, b, f
<1>6. /\ Passes(calls[current], s, {"close"}) /\ Passes(calls[current], s, {"push-frame"})
  BY <1>1, <1>2, <1>3, <1>4, PassesCons
<1>7. r # << >> => Stable(Head(r)) \/ Head(r).op = "close"
  BY <1>1, <1>3 DEF Follows, Stable
<1>8. Good(s)
  <2>1. r # << >> => Follows(b, Head(r))
    BY <1>4, <1>7 DEF Follows, Stable, Thunk
  <2>2. ~Settled(b)
    BY <1>4 DEF Settled
  <2> QED BY <1>3, <1>4, <2>1, <2>2, GoodCons
<1>9. /\ Idle(JobOf(r)) /\ ~ToPush(r) /\ JobOf(r).op # "wind-in-out"
      /\ JobOf(s) = JobOf(r) /\ ToPush(s) = ToPush(r) /\ WindingsOf(s) = WindingsOf(r)
  <2>1. /\ Idle(JobOf(r)) /\ ~ToPush(r) /\ JobOf(r).op # "wind-in-out"
    BY <1>2, <1>7, StableView
  <2>2. Words(<<b>> \o r) /\ Thunk(b)
    BY <1>4, <1>8 DEF Good, Thunk
  <2>3. JobOf(<<b>> \o r) = JobOf(r) /\ ToPush(<<b>> \o r) = ToPush(r) /\ WindingsOf(<<b>> \o r) = WindingsOf(r)
    BY <1>2, <1>4, <2>2, ViewThunk
  <2> QED BY <2>1, <2>3
<1> HIDE DEF s
<1>10. InPushes \subseteq InPushes' /\ \A e : Closing(e) => Closing(e)'
  BY <1>1, <1>2, <1>5, <1>6, PassesOn
<1>11. RunsOn(s)
  BY <1>1, <1>2, <1>5, <1>6, <1>8, RunsOnQuiet
<1>12. \A d \in Active : frames'[d] = IF d = current THEN WindingsOf(s) ELSE Windings(d)
  <2>1. WindingsOf(r) \in Seq(Frames) /\ Top.frame \in Frames
    BY <1>1, <1>2, <1>3, WindingsTyped, WoundFrame
  <2>2. frames[current] = <<Top.frame>> \o WindingsOf(r)
    BY <1>1, <1>2 DEF Framed, AddWinding
  <2>3. Tail(frames[current]) = WindingsOf(r)
    BY <2>1, <2>2, OnTop
  <2>4. frames \in [Coroutines -> Seq(Frames)]
    BY <1>2 DEF TypeInv, TypeOK
  <2> QED BY <1>1, <1>2, <1>9, <2>3, <2>4 DEF Framed, Active
<1>13. PlacesInv'
  <2>1. \A g \in PlainFrames : ins'[g] = outs'[g] + 1 => g \in InFrames' \cup InPushes'
    BY <1>1, <1>2, <1>10, ScopePop DEF IInv, f
  <2>2. \A c \in Coroutines : frames'[c] = frames[c] \/ c \in Active
    BY <1>1, <1>2 DEF TypeInv, TypeOK
  <2> QED BY <1>2, <1>11, <2>1, <2>2, PlacesRun
<1> QED BY <1>1, <1>2, <1>9, <1>11, <1>12, <1>13, IdleStep

(* The in thunk has returned: the frame is pushed.                          *)
LEMMA PushFrameKeeps ==
  ASSUME IInv, IInv', SInv, DInv, PushFrame
  PROVE  DInv'
<1> DEFINE r == Tail(calls[current])
           c == Top.co
           f == Top.frame
<1>1. /\ calls[current] # << >> /\ Top.op = "push-frame"
      /\ UNCHANGED <<current, status, parent, saved, registered, winders, used, dead, around, ins, outs>>
      /\ frames' = [frames EXCEPT ![c] = <<f>> \o @]
      /\ calls' = [calls EXCEPT ![current] = << >> \o r]
  BY DEF PushFrame, AtTop, Continue
<1>2. /\ TypeInv /\ LinkInv /\ WaitingInv /\ PlacesInv /\ ShapeInv /\ SavedInv /\ used \in Nat
      /\ current \in Coroutines /\ current \in Active /\ r \in Seq(Activations)
  BY <1>1, AtStep
<1>3. /\ Top \in Activations /\ Good(r) /\ Good(calls[current]) /\ calls[current] = <<Top>> \o r
      /\ r # << >> => Follows(Top, Head(r)) /\ Head(r) \in Activations
  BY <1>1, <1>2, TopSplit
<1>4. f \in Frames /\ c \in Coroutines /\ frames \in [Coroutines -> Seq(Frames)]
  BY <1>1, <1>2, <1>3, Fields DEF TypeInv, TypeOK
<1>5. calls' = [calls EXCEPT ![current] = r]
  BY <1>1, <1>2, ConcatEmptySeq
<1> HIDE DEF r, c, f
<1>6. /\ Bare(calls[current]) = calls[current] /\ ToPush(calls[current]) /\ ~ToPush(r)
      /\ Job = JobOf(r) /\ Head(calls[current]) = Top
      /\ \A d : PendOf(r, d) = << >>
      /\ \A d : PendOf(calls[current], d) = IF c = d THEN <<f>> ELSE << >>
      /\ WindingsOf(calls[current]) = WindingsOf(r)
  <2>1. Words(<<Top>> \o r)
    BY <1>3 DEF Good
  <2>2. /\ Bare(<<Top>> \o r) = <<Top>> \o r /\ ToPush(<<Top>> \o r) /\ ~ToPush(r)
        /\ JobOf(<<Top>> \o r) = JobOf(r)
        /\ \A d : PendOf(r, d) = << >>
        /\ \A d : PendOf(<<Top>> \o r, d) = IF Top.co = d THEN <<Top.frame>> ELSE << >>
        /\ WindingsOf(<<Top>> \o r) = WindingsOf(r)
    BY <1>1, <1>2, <1>3, <2>1, ViewPush
  <2> QED BY <1>3, <2>2 DEF Job, Top, c, f
<1>7. c \in Active
  BY <1>6 DEF DInv, PushIs, c
<1>8. (JobOf(r)).op \in {"wind-in", "wind-in-out", "body", "none"}
  <2>1. CASE r = << >>
    BY <2>1, ViewNone
  <2>2. CASE r # << >>
    <3>1. Follows(Top, Head(r)) /\ Head(r) \in Activations /\ Tail(r) \in Seq(Activations)
          /\ r = <<Head(r)>> \o Tail(r)
      BY <1>2, <1>3, <2>2, Split
    <3>2. Head(r).op \in {"wind-in", "wind-in-out"} \/ (Head(r).op = "body" /\ ~Head(r).thunk)
      BY <1>1, <3>1 DEF Follows
    <3>3. JobOf(r) = Head(r)
      BY <3>1, <3>2, ViewJob DEF Thunk
    <3> QED BY <3>2, <3>3
  <2> QED BY <2>1, <2>2
<1>9. Passes(calls[current], r, {"close"})
  BY <1>1, <1>2, <1>3, PassesCons
<1>10. RunsOn(r)
  BY <1>1, <1>2, <1>3, <1>5, <1>9, RunsOnQuiet
<1>11. Winds(Job) \/ Job.op = "wind-in-out" => WinderIs(Job.winder)
  BY <1>2, <1>10, SameWinder
<1>12. /\ Active' = Active /\ Job' = Job /\ calls'[current] = r /\ current' = current
       /\ \A d \in Coroutines : d # current => calls'[d] = calls[d]
  BY <1>1, <1>2, <1>6, <1>10, <1>11, RunKeeps
<1>13. PICK a : a = Job /\ a = Job' /\ a.op \in {"wind-in", "wind-in-out", "body", "none"}
  BY <1>6, <1>8, <1>12
<1>14. Leaving(a) = {} /\ WorkOf(a)' = WorkOf(a) /\ Leaving(a)' = {}
  BY <1>1, <1>13 DEF Leaving, WorkOf, Winds
<1>15. JobIs(Job)'
  BY <1>12, <1>13 DEF DInv, JobIs
<1>16. Context'
  <2> SUFFICES ASSUME NEW d \in Active
               PROVE  Replays(WorkOf(a)', d, PendOf(r, d) \o frames'[d], WindingsOf(calls'[d]))
    BY <1>12, <1>13, <1>14 DEF Context, Windings, WorkOf, Winds
  <2>1. Replays(WorkOf(a), d, PendOf(calls[current], d) \o frames[d], WindingsOf(calls[d]))
    BY <1>13, <1>14 DEF DInv, Context, Windings
  <2>2. WindingsOf(calls'[d]) = WindingsOf(calls[d])
    BY <1>6, <1>12 DEF Active
  <2>3. PendOf(r, d) \o frames'[d] = PendOf(calls[current], d) \o frames[d]
    <3>1. frames'[d] \in Seq(Frames) /\ d \in Coroutines
      BY DEF IInv, TypeInv, TypeOK, Active
    <3>2. << >> \o frames'[d] = frames'[d] /\ << >> \o frames[d] = frames[d]
      BY <1>4, <3>1, ConcatEmptySeq
    <3>3. frames'[d] = IF c = d THEN <<f>> \o frames[d] ELSE frames[d]
      BY <1>1, <1>4, <3>1
    <3> QED BY <1>6, <3>2, <3>3
  <2> QED BY <1>14, <2>1, <2>2, <2>3
<1>17. PushIs'
  BY <1>6, <1>12 DEF PushIs
<1>18. PlacesInv'
  <2>1. frames'[c] = <<f>> \o frames[c] /\ \A d \in Coroutines : d # c => frames'[d] = frames[d]
    BY <1>1, <1>4
  <2>2. InFrames \cup {f} \subseteq InFrames'
    <3>1. ASSUME NEW d \in Coroutines, NEW i \in DOMAIN frames[d]
          PROVE  \E j \in DOMAIN frames'[d] : frames'[d][j] = frames[d][i]
      <4>1. CASE d = c
        <5>1. i + 1 \in DOMAIN (<<f>> \o frames[c]) /\ (<<f>> \o frames[c])[i + 1] = frames[c][i]
          BY <1>4, <4>1, OnTop
        <5> QED BY <2>1, <4>1, <5>1
      <4> QED BY <2>1, <4>1
    <3>2. 1 \in DOMAIN frames'[c] /\ frames'[c][1] = f
      <4>1. 1 \in DOMAIN (<<f>> \o frames[c]) /\ (<<f>> \o frames[c])[1] = f
        BY <1>4, OnTop
      <4> QED BY <2>1, <4>1
    <3> QED BY <1>4, <3>1, <3>2 DEF InFrames
  <2>3. InPushes \subseteq InPushes' \cup {f}
    <3> SUFFICES ASSUME NEW g \in InPushes, g # f PROVE g \in InPushes'
      OBVIOUS
    <3>1. PICK d \in Coroutines : \E i \in DOMAIN calls[d] : calls[d][i].op = "push-frame" /\ calls[d][i].frame = g
      BY DEF InPushes
    <3>2. PICK i \in DOMAIN calls[d] : calls[d][i].op = "push-frame" /\ calls[d][i].frame = g
      BY <3>1
    <3>3. CASE d # current
      BY <1>12, <3>2, <3>3 DEF InPushes
    <3>4. CASE d = current
      <4>1. Holds(<<Top>> \o r, calls[d][i])
        BY <1>3, <3>2, <3>4 DEF Holds
      <4>2. calls[d][i] # Top
        BY <3>2 DEF f
      <4>3. Holds(r, calls[d][i])
        BY <1>2, <1>3, <4>1, <4>2, PassesCons
      <4>4. \E j \in DOMAIN calls'[current] : calls'[current][j] = calls[d][i]
        BY <1>12, <4>3 DEF Holds
      <4> QED BY <1>2, <3>2, <3>4, <4>4 DEF InPushes
    <3> QED BY <3>3, <3>4
  <2>4. \A g \in PlainFrames : ins'[g] = outs'[g] + 1 => g \in InFrames' \cup InPushes'
    <3> SUFFICES ASSUME NEW g \in PlainFrames, ins[g] = outs[g] + 1
                 PROVE  g \in InFrames' \cup InPushes'
      BY <1>1
    <3>1. g \in InFrames \cup InPushes
      BY <1>2 DEF PlacesInv
    <3> QED BY <2>2, <2>3, <3>1
  <2>5. \A d \in Coroutines : frames'[d] = frames[d] \/ d \in Active
    BY <1>7, <2>1
  <2> QED BY <1>2, <1>10, <2>4, <2>5, PlacesRun
<1> QED BY <1>1, <1>2, <1>6, <1>10, <1>11, <1>15, <1>16, <1>17, <1>18, RunParts

(* A frame is entered: its in thunk is called, if it has one.               *)
LEMMA ScopeEnter ==
  ASSUME TypeInv, PlacesInv, NEW f \in Frames, CallIn(f), UNCHANGED <<frames, outs>>,
         InPushes \cup {f} \subseteq InPushes'
  PROVE  \A g \in PlainFrames : ins'[g] = outs'[g] + 1 => g \in InFrames' \cup InPushes'
<1> SUFFICES ASSUME NEW g \in PlainFrames, ins'[g] = outs[g] + 1, g # f
             PROVE  g \in InFrames' \cup InPushes'
  OBVIOUS
<1>1. ins'[g] = ins[g]
  BY DEF CallIn, TypeInv, TypeOK, Frames
<1>2. InFrames' = InFrames
  BY DEF InFrames
<1> QED BY <1>1, <1>2 DEF PlacesInv

(* What is put on the stack then.                                           *)
LEMMA PushingOn ==
  ASSUME NEW f \in Frames, NEW c \in Coroutines, NEW s, Good(s), s # << >>,
         Head(s).op \in {"wind-in", "wind-in-out"} \/ (Head(s).op = "body" /\ ~Head(s).thunk)
  PROVE  /\ Good(Pushing(f, c) \o s)
         /\ JobOf(Pushing(f, c) \o s) = Head(s)
         /\ ToPush(Pushing(f, c) \o s) /\ Head(Bare(Pushing(f, c) \o s)).co = c
         /\ \A d : PendOf(Pushing(f, c) \o s, d) = IF c = d THEN <<f>> ELSE << >>
         /\ WindingsOf(Pushing(f, c) \o s) = WindingsOf(s)
         /\ \A ops, t : Passes(t, s, ops) => Passes(t, Pushing(f, c) \o s, ops)
         /\ Holds(Pushing(f, c) \o s, [op |-> "push-frame", frame |-> f, co |-> c])
<1> DEFINE p == [op |-> "push-frame", frame |-> f, co |-> c]
           b == Body(TRUE)
           u == <<p>> \o s
<1>1. p \in Activations /\ p.op = "push-frame" /\ p.co = c /\ p.frame = f
  BY DEF Activations
<1>2. b \in Activations /\ b.op = "body" /\ b.thunk
  BY DEF Body, Activations
<1>3. Pushing(f, c) = (IF f \in PlainFrames THEN <<b>> ELSE << >>) \o <<p>>
  BY DEF Pushing
<1>4. p = [op |-> "push-frame", frame |-> f, co |-> c]
  OBVIOUS
<1> HIDE DEF p, b
<1>5. s \in Seq(Activations) /\ Words(s)
  BY DEF Good
<1>6. Good(u) /\ u # << >> /\ Head(u) = p
  <2>1. Follows(p, Head(s)) /\ ~Settled(p)
    BY <1>1 DEF Follows, Thunk, Settled
  <2> QED BY <1>1, <2>1, GoodCons
<1>7. JobOf(s) = Head(s)
  <2>1. Head(s) \in Activations /\ Tail(s) \in Seq(Activations) /\ s = <<Head(s)>> \o Tail(s)
    BY <1>5, Split
  <2>2. ~Thunk(Head(s)) /\ Head(s).op # "push-frame"
    BY DEF Thunk
  <2>3. JobOf(<<Head(s)>> \o Tail(s)) = Head(s)
    BY <2>1, <2>2, ViewJob
  <2> QED BY <2>1, <2>3
<1>8. /\ Bare(u) = u /\ ToPush(u) /\ JobOf(u) = JobOf(s)
      /\ \A d : PendOf(u, d) = IF c = d THEN <<f>> ELSE << >>
      /\ WindingsOf(u) = WindingsOf(s)
  <2>1. Words(<<p>> \o s)
    BY <1>6 DEF Good
  <2> QED BY <1>1, <1>5, <2>1, ViewPush
<1>9. Holds(u, p) /\ \A ops, t : Passes(t, s, ops) => Passes(t, u, ops)
  BY <1>1, <1>5, PassesCons
<1>10. u \in Seq(Activations) /\ Words(u)
  BY <1>6 DEF Good
<1>11. Bare(u) = u /\ Head(Bare(u)).co = c
  BY <1>1, <1>6, <1>8
<1>12. CASE f \in PlainFrames
  <2> DEFINE v == <<b>> \o u
  <2>1. Pushing(f, c) \o s = v
    <3>1. <<b>> \in Seq(Activations) /\ <<p>> \in Seq(Activations)
      BY <1>1, <1>2
    <3>2. (<<b>> \o <<p>>) \o s = <<b>> \o (<<p>> \o s)
      BY <1>5, <3>1, ConcatAssociative
    <3> QED BY <1>3, <1>12, <3>2
  <2> HIDE DEF u
  <2>2. Good(v)
    <3>1. Follows(b, Head(u)) /\ ~Settled(b)
      BY <1>1, <1>2, <1>6 DEF Follows, Thunk, Settled
    <3> QED BY <1>2, <1>6, <3>1, GoodCons
  <2>3. /\ Bare(v) = u /\ JobOf(v) = JobOf(u) /\ ToPush(v) = ToPush(u) /\ WindingsOf(v) = WindingsOf(u)
    <3>1. Words(<<b>> \o u) /\ Thunk(b)
      BY <1>2, <2>2 DEF Good, Thunk
    <3> QED BY <1>2, <1>10, <3>1, ViewThunk
  <2>4. Holds(v, p) /\ \A ops, t : Passes(t, s, ops) => Passes(t, v, ops)
    BY <1>2, <1>9, <1>10, PassesCons
  <2>5. \A d : PendOf(v, d) = PendOf(u, d)
    BY <1>8, <2>3 DEF PendOf
  <2> QED BY <1>4, <1>7, <1>8, <1>11, <2>1, <2>2, <2>3, <2>4, <2>5
<1>13. CASE f \notin PlainFrames
  <2>1. Pushing(f, c) \o s = u
    <3>1. <<p>> \in Seq(Activations)
      BY <1>1
    <3>2. << >> \o <<p>> = <<p>>
      BY <3>1, ConcatEmptySeq
    <3> QED BY <1>3, <1>13, <3>2
  <2> HIDE DEF u
  <2> QED BY <1>4, <1>6, <1>7, <1>8, <1>9, <1>11, <2>1
<1> QED BY <1>12, <1>13

(* Two activations put on a stack at once.                                  *)
LEMMA PairOn ==
  ASSUME NEW x \in Activations, NEW y \in Activations, NEW s \in Seq(Activations)
  PROVE  /\ <<x, y>> \in Seq(Activations)
         /\ <<x, y>> \o s = <<x>> \o (<<y>> \o s)
<1>1. <<x>> \in Seq(Activations) /\ <<y>> \in Seq(Activations) /\ <<x, y>> \in Seq(Activations)
  OBVIOUS
<1>2. <<x, y>> = <<x>> \o <<y>>
  <2>1. <<x>> \o <<y>> \in Seq(Activations) /\ Len(<<x>> \o <<y>>) = 2 /\ Len(<<x, y>>) = 2
    BY <1>1
  <2>2. (<<x>> \o <<y>>)[1] = x /\ (<<x>> \o <<y>>)[2] = y
    BY <1>1
  <2>3. \A i \in 1 .. 2 : (<<x>> \o <<y>>)[i] = <<x, y>>[i]
    BY <2>2
  <2> QED BY <1>1, <2>1, <2>3, SeqEqual
<1>3. (<<x>> \o <<y>>) \o s = <<x>> \o (<<y>> \o s)
  BY <1>1, ConcatAssociative
<1> QED BY <1>1, <1>2, <1>3

(* A dynamic-wind is begun.                                                 *)
LEMMA DynamicWindKeeps ==
  ASSUME IInv, IInv', SInv, DInv, ~thrown', NEW f \in Frames, DynamicWind(f)
  PROVE  DInv'
<1> DEFINE s == calls[current]
           x == Body(FALSE)
           y == [op |-> "dynamic-wind", frame |-> f]
           u == <<y>> \o s
           v == <<x>> \o u
           t == Pushing(f, current) \o v
<1>1. /\ s # << >> /\ Top.op = "body" /\ ~Top.thunk
      /\ UNCHANGED <<current, status, parent, frames, saved, registered, winders, used, dead, outs>>
      /\ CallIn(f)
      /\ calls' = [calls EXCEPT ![current] = (Pushing(f, current) \o <<Body(Top.thunk), y>>) \o s]
  BY DEF DynamicWind, May, AtTop, Call
<1>2. /\ TypeInv /\ LinkInv /\ WaitingInv /\ PlacesInv /\ ShapeInv
      /\ current \in Coroutines /\ current \in Active /\ Job = Top /\ Framed
      /\ Windings(current) = AddWinding(Top, WindingsOf(Tail(s)))
  BY <1>1, AtStep DEF Thunk, Idle
<1>3. /\ Top \in Activations /\ Good(Tail(s)) /\ Good(s) /\ s = <<Top>> \o Tail(s) /\ Settled(Top)
      /\ AllStable(Tail(s))
  BY <1>1, <1>2, TopSplit DEF Settled
<1>4. x \in Activations /\ x.op = "body" /\ ~x.thunk /\ y \in Activations /\ y.op = "dynamic-wind" /\ y.frame = f
  BY DEF Body, Activations
<1> HIDE DEF x, y
<1>5. calls' = [calls EXCEPT ![current] = t]
  <2>1. Body(Top.thunk) = x
    <3>1. Top.thunk \in BOOLEAN
      BY <1>1, <1>3, Fields
    <3> QED BY <1>1, <3>1 DEF x
  <2>2. Pushing(f, current) \in Seq(Activations)
    BY <1>2, PushingIs DEF OnePush
  <2>3. s \in Seq(Activations)
    BY <1>2 DEF TypeInv, TypeOK
  <2>4. calls' = [calls EXCEPT ![current] = (Pushing(f, current) \o <<x, y>>) \o s]
    BY <1>1, <2>1
  <2> HIDE DEF s
  <2>5. (Pushing(f, current) \o <<x, y>>) \o s = Pushing(f, current) \o (<<x>> \o (<<y>> \o s))
    <3>1. PICK p \in Seq(Activations) : p = Pushing(f, current)
      BY <2>2
    <3>2. PICK a \in Activations, b \in Activations, z \in Seq(Activations) : a = x /\ b = y /\ z = s
      BY <1>4, <2>3
    <3>3. <<a, b>> \in Seq(Activations) /\ <<a, b>> \o z = <<a>> \o (<<b>> \o z)
      BY PairOn
    <3>4. (p \o <<a, b>>) \o z = p \o (<<a, b>> \o z)
      BY <3>3, ConcatAssociative
    <3> QED BY <3>1, <3>2, <3>3, <3>4
  <2> QED BY <2>4, <2>5
<1> HIDE DEF s
<1>6. Good(u) /\ u # << >> /\ Head(u) = y /\ AllStable(u) /\ WindingsOf(u) = <<f>> \o WindingsOf(s)
  <2>1. Follows(y, Head(s)) /\ ~Settled(y) /\ Stable(y) /\ AllStable(s)
    <3>1. Head(s) = Top
      BY DEF Top, s
    <3>2. AllStable(s)
      BY <1>3, SortedCons DEF Stable, Good
    <3> QED BY <1>3, <1>4, <3>1, <3>2 DEF Follows, Thunk, Settled, Stable
  <2>2. s \in Seq(Activations)
    BY <1>3 DEF Good
  <2>3. WindingsOf(u) = AddWinding(y, WindingsOf(s))
    BY <1>4, <2>2, WindingsCons
  <2> QED BY <1>3, <1>4, <2>1, <2>3, GoodCons DEF AddWinding
<1>7. Good(v) /\ v # << >> /\ Head(v) = x /\ WindingsOf(v) = <<f>> \o WindingsOf(s)
  <2>1. Follows(x, Head(u))
    BY <1>4 DEF Follows, Thunk
  <2>2. WindingsOf(v) = AddWinding(x, WindingsOf(u))
    BY <1>4, <1>6, WindingsCons DEF Good
  <2> HIDE DEF u
  <2> QED BY <1>4, <1>6, <2>1, <2>2, GoodCons DEF AddWinding
<1>8. /\ \A ops : Passes(s, v, ops)
  <2>1. \A ops : Passes(s, s, ops) /\ Passes(s, u, ops)
    BY <1>3, <1>4, PassesCons DEF Good
  <2> QED BY <1>4, <1>6, <2>1, PassesCons DEF Good
<1> HIDE DEF u, v
<1>9. /\ Good(t) /\ JobOf(t) = x /\ ToPush(t) /\ Head(Bare(t)).co = current
      /\ \A d : PendOf(t, d) = IF current = d THEN <<f>> ELSE << >>
      /\ WindingsOf(t) = <<f>> \o WindingsOf(s)
      /\ \A ops : Passes(s, t, ops)
      /\ Holds(t, [op |-> "push-frame", frame |-> f, co |-> current])
  BY <1>2, <1>4, <1>7, <1>8, PushingOn
<1> HIDE DEF t
<1>10. RunsOn(t)
  BY <1>1, <1>2, <1>5, <1>9, RunsOnQuiet DEF s
<1>11. ~Winds(x) /\ x.op # "wind-in-out" /\ Job.op # "suspended"
  BY <1>1, <1>2, <1>4 DEF Winds
<1>12. /\ Active' = Active /\ Job' = x /\ calls'[current] = t /\ current' = current
       /\ \A d \in Coroutines : d # current => calls'[d] = calls[d]
  BY <1>1, <1>2, <1>9, <1>10, <1>11, RunKeeps DEF DInv
<1>13. PushIs'
  BY <1>2, <1>9, <1>12 DEF PushIs
<1>14. PICK a : a = x /\ a.op = "body"
  BY <1>4
<1>15. Leaving(a)' = {} /\ WorkOf(a)' = << >> /\ JobIs(Job)'
  BY <1>12, <1>14 DEF Leaving, WorkOf, Winds, JobIs
<1>16. Context'
  <2> SUFFICES ASSUME NEW d \in Active
               PROVE  Replays(<< >>, d, PendOf(t, d) \o frames'[d], WindingsOf(calls'[d]))
    BY <1>12, <1>14, <1>15 DEF Context, Windings, WorkOf, Winds, Leaving
  <2>1. frames[d] = WindingsOf(calls[d]) /\ frames'[d] = frames[d] /\ frames[d] \in Seq(Frames)
    BY <1>1, <1>2 DEF Framed, Windings, Active, TypeInv, TypeOK
  <2>2. PendOf(t, d) \o frames'[d] = WindingsOf(calls'[d])
    <3>1. << >> \o frames[d] = frames[d]
      BY <2>1, ConcatEmptySeq
    <3> QED BY <1>9, <1>12, <2>1, <3>1 DEF s, Active
  <2> QED BY <2>2, ReplaysNone
<1>17. PlacesInv'
  <2>1. InPushes \subseteq InPushes'
    BY <1>1, <1>2, <1>5, <1>9, PassesOn DEF s
  <2>2. f \in InPushes'
    <3>1. PICK i \in DOMAIN t : t[i] = [op |-> "push-frame", frame |-> f, co |-> current]
      BY <1>9 DEF Holds
    <3>2. t[i].op = "push-frame" /\ t[i].frame = f
      BY <3>1
    <3> QED BY <1>2, <1>12, <3>2 DEF InPushes
  <2>3. \A g \in PlainFrames : ins'[g] = outs'[g] + 1 => g \in InFrames' \cup InPushes'
    BY <1>1, <1>2, <2>1, <2>2, ScopeEnter
  <2>4. \A d \in Coroutines : frames'[d] = frames[d] \/ d \in Active
    BY <1>1
  <2> QED BY <1>2, <1>10, <2>3, <2>4, PlacesRun
<1> QED BY <1>2, <1>9, <1>10, <1>11, <1>13, <1>15, <1>16, <1>17, RunParts

(* An activation with one of its fields changed.                            *)
LEMMA Changed ==
  ASSUME NEW a \in Activations
  PROVE  /\ a.op = "wind-out" => \A c \in Coroutines : \E b \in Activations :
              /\ b = [a EXCEPT !.at = c] /\ b.op = "wind-out" /\ b.at = c
              /\ b.target = a.target /\ b.winder = a.winder /\ b.callFinally = a.callFinally
         /\ a.op = "suspend" => \E b \in Activations :
              b = [a EXCEPT !.op = "suspended"] /\ b.op = "suspended" /\ b.co = a.co /\ b.winder = a.winder
         /\ a.op = "wind-in" => \A s \in Seq(Coroutines) : \E b \in Activations :
              b = [a EXCEPT !.cos = s] /\ b.op = "wind-in" /\ b.winder = a.winder /\ b.cos = s
         /\ a.op = "wind-in-out" => \A n \in Nat : \E b \in Activations :
              b = [a EXCEPT !.left = n] /\ b.op = "wind-in-out" /\ b.winder = a.winder /\ b.left = n
<1>1. ASSUME a.op = "wind-out", NEW c \in Coroutines
      PROVE  \E b \in Activations :
               /\ b = [a EXCEPT !.at = c] /\ b.op = "wind-out" /\ b.at = c
               /\ b.target = a.target /\ b.winder = a.winder /\ b.callFinally = a.callFinally
  <2>1. [a EXCEPT !.at = c] \in Activations
    BY <1>1, Fields
  <2>2. a \in [op : {"wind-out"}, at : Coroutines, target : Coroutines, winder : {NoWinder},
               callFinally : {TRUE}]
        \/ a \in [op : {"wind-out"}, at : Coroutines, target : Coroutines, winder : Winders,
                  callFinally : {FALSE}]
    BY <1>1 DEF Activations
  <2>3. PICK b \in Activations : b = [a EXCEPT !.at = c]
    BY <2>1
  <2>4. /\ b.op = "wind-out" /\ b.at = c
        /\ b.target = a.target /\ b.winder = a.winder /\ b.callFinally = a.callFinally
    BY <2>2, <2>3
  <2> QED BY <2>3, <2>4
<1>2. ASSUME a.op = "suspend"
      PROVE  \E b \in Activations :
               b = [a EXCEPT !.op = "suspended"] /\ b.op = "suspended" /\ b.co = a.co /\ b.winder = a.winder
  <2>1. [a EXCEPT !.op = "suspended"] \in Activations
    BY <1>2, Fields
  <2>2. a \in [op : {"suspend", "suspended"}, co : Coroutines, winder : Winders]
    BY <1>2 DEF Activations
  <2>3. PICK b \in Activations : b = [a EXCEPT !.op = "suspended"]
    BY <2>1
  <2>4. b.op = "suspended" /\ b.co = a.co /\ b.winder = a.winder
    BY <2>2, <2>3
  <2> QED BY <2>3, <2>4
<1>3. ASSUME a.op = "wind-in", NEW s \in Seq(Coroutines)
      PROVE  \E b \in Activations :
               b = [a EXCEPT !.cos = s] /\ b.op = "wind-in" /\ b.winder = a.winder /\ b.cos = s
  <2>1. [a EXCEPT !.cos = s] \in Activations
    BY <1>3, Fields
  <2>2. a \in [op : {"wind-in"}, winder : Winders, cos : Seq(Coroutines)]
    BY <1>3 DEF Activations
  <2>3. PICK b \in Activations : b = [a EXCEPT !.cos = s]
    BY <2>1
  <2>4. b.op = "wind-in" /\ b.winder = a.winder /\ b.cos = s
    BY <2>2, <2>3
  <2> QED BY <2>3, <2>4
<1>4. ASSUME a.op = "wind-in-out", NEW n \in Nat
      PROVE  \E b \in Activations :
               b = [a EXCEPT !.left = n] /\ b.op = "wind-in-out" /\ b.winder = a.winder /\ b.left = n
  <2>1. [a EXCEPT !.left = n] \in Activations
    BY <1>4, Fields
  <2>2. a \in [op : {"wind-in-out"}, winder : Winders, left : Nat]
    BY <1>4 DEF Activations
  <2>3. PICK b \in Activations : b = [a EXCEPT !.left = n]
    BY <2>1
  <2>4. b.op = "wind-in-out" /\ b.winder = a.winder /\ b.left = n
    BY <2>2, <2>3
  <2> QED BY <2>3, <2>4
<1> QED BY <1>1, <1>2, <1>3, <1>4

(* A suspend or a break has begun: frames are to be wound out.              *)
Leaves(r, c, w, x, y) ==
  /\ Good(r) /\ (r # << >> => Settled(Head(r))) /\ c \in Active
  /\ x \in Activations /\ x.op = "wind-out" /\ x.at = current /\ x.target = c /\ x.winder = w
  /\ y \in Activations /\ y.op = (IF w = NoWinder THEN "break" ELSE "suspend") /\ y.co = c
  /\ w # NoWinder => y.winder = w /\ w = used + 1 /\ w \in Winders
  /\ used' = IF w = NoWinder THEN used ELSE used + 1
  /\ calls' = [calls EXCEPT ![current] = <<x>> \o (<<y>> \o r)]
  /\ Passes(calls[current], r, {"close"}) /\ Passes(calls[current], r, {"push-frame"})
  /\ Framed /\ WindingsOf(r) = Windings(current) /\ Job.op # "suspended"
  /\ UNCHANGED <<current, status, parent, frames, saved, registered, winders, dead, ins, outs>>
(* A winding that begins keeps the invariant.                               *)
LEMMA LeaveOn ==
  ASSUME IInv, IInv', SInv, DInv, NEW r, NEW c, NEW w, NEW x, NEW y, Leaves(r, c, w, x, y)
  PROVE  DInv'
<1> DEFINE u == <<y>> \o r
           s == <<x>> \o u
<1> USE DEF Leaves
<1>1. /\ TypeInv /\ TypeInv' /\ LinkInv /\ ShapeInv /\ WaitingInv /\ SavedInv /\ PlacesInv /\ used \in Nat
      /\ frames \in [Coroutines -> Seq(Frames)]
  <2>1. TypeInv /\ TypeInv' /\ LinkInv /\ ShapeInv /\ WaitingInv /\ SavedInv /\ PlacesInv
    BY DEF IInv, SInv, DInv
  <2> QED BY <2>1, WindersTyped
<1>2. Good(u) /\ u # << >> /\ Head(u) = y /\ WindingsOf(u) = WindingsOf(r)
  <2>1. r # << >> => Follows(y, Head(r))
    BY DEF Follows, Thunk
  <2>2. ~Settled(y)
    BY DEF Settled
  <2>3. WindingsOf(u) = AddWinding(y, WindingsOf(r))
    BY WindingsCons DEF Good
  <2> QED BY <2>1, <2>2, <2>3, GoodCons DEF AddWinding
<1>3. Passes(calls[current], u, {"close"}) /\ Passes(calls[current], u, {"push-frame"})
  BY PassesCons DEF Good
<1> HIDE DEF u
<1>4. Good(s)
  <2>1. Follows(x, Head(u))
    BY <1>2 DEF Follows, Thunk
  <2>2. ~Settled(x)
    BY DEF Settled
  <2> QED BY <1>2, <2>1, <2>2, GoodCons
<1>5. /\ ~ToPush(s) /\ JobOf(s) = x /\ \A d : PendOf(s, d) = << >>
      /\ WindingsOf(s) = WindingsOf(r)
  <2>1. ~Thunk(x) /\ x.op # "push-frame" /\ u \in Seq(Activations)
    BY <1>2 DEF Thunk, Good
  <2>2. WindingsOf(s) = AddWinding(x, WindingsOf(u))
    BY <2>1, ViewJob
  <2> QED BY <1>2, <2>1, <2>2, ViewJob DEF AddWinding
<1>6. Passes(calls[current], s, {"close"}) /\ Passes(calls[current], s, {"push-frame"})
  BY <1>2, <1>3, PassesCons DEF Good
<1>7. calls' = [calls EXCEPT ![current] = s]
  BY DEF u
<1> HIDE DEF s
<1>8. RunsOn(s)
  <2>1. Passes(calls[current], s, {"close"}) /\ used' \in {used, used + 1}
    BY <1>6
  <2> QED BY <1>1, <1>4, <1>7, <2>1, RunsOnQuiet
<1>9. Winds(JobOf(s)) => WinderIs(w)
  <2> SUFFICES ASSUME w # NoWinder PROVE WinderIs(w)
    BY <1>5 DEF Winds
  <2>1. w \in Winders /\ w <= used' /\ w = used + 1
    BY <1>1
  <2>2. ASSUME NEW e \in Coroutines, Keeps(e, w) PROVE FALSE
    <3>1. PICK l \in Up(e) : parent[l] = None /\ Head(calls[l]).op = "suspended" /\ Head(calls[l]).winder = w
      BY <2>2 DEF Keeps
    <3>2. WaitsWell(e, l)
      BY <1>1, <2>2, <3>1 DEF Keeps, WaitingInv
    <3>3. w <= used
      BY <3>1, <3>2 DEF WaitsWell
    <3> QED BY <1>1, <2>1, <3>3
  <2> QED BY <2>1, <2>2 DEF WinderIs
<1>10. JobOf(s).op # "wind-in-out" /\ (Winds(JobOf(s)) => WinderIs(JobOf(s).winder))
  BY <1>5, <1>9
<1>11. /\ Active' = Active /\ Job' = x /\ calls'[current] = s /\ current' = current
       /\ \A d \in Coroutines : d # current => calls'[d] = calls[d]
       /\ \A d \in Coroutines : Between(d)' = Between(d)
  BY <1>1, <1>5, <1>8, <1>10, RunKeeps
<1>12. /\ current \in Between(c) /\ Between(current) = {current}
       /\ current \in Coroutines /\ c \in Coroutines /\ current \in Active
  BY <1>1, BetweenIs, BetweenFirst DEF Active, TypeInv, TypeOK
<1>13. w # NoWinder => winders'[w] = << >>
  BY <1>1 DEF PlacesInv
<1>14. PICK a : a = x /\ a = Job'
  BY <1>11
<1>15. JobIs(a)'
  <2>1. a.target \in Active' /\ a.at \in Between(a.target)'
    BY <1>11, <1>12, <1>14
  <2>2. \A d \in Between(a.at)' \ {a.at} : frames'[d] = << >>
    BY <1>11, <1>12, <1>14
  <2>3. a.winder # NoWinder => EntriesIn(a.winder, Between(a.target))'
    BY <1>13, <1>14 DEF EntriesIn
  <2>4. a.op = "wind-out"
    BY <1>14
  <2> QED BY <2>1, <2>2, <2>3, <2>4 DEF JobIs, EntriesIn
<1>16. JobIs(Job)'
  BY <1>14, <1>15 DEF JobIs, OutOf, EntriesIn
<1>17. WorkOf(a)' = << >>
  BY <1>13, <1>14 DEF WorkOf, Winds
<1>18. Context'
  <2>1. ASSUME NEW d \in Active
        PROVE  Replays(WorkOf(a)', d, PendOf(calls'[current], d) \o frames'[d], Windings(d)')
    <3>1. frames[d] = Windings(d) /\ frames[d] \in Seq(Frames) /\ d \in Coroutines
      BY <1>1 DEF Framed, Active
    <3>2. Windings(d)' = Windings(d)
      BY <1>5, <1>11, <3>1 DEF Windings
    <3>3. << >> \o frames[d] = frames[d] /\ PendOf(calls'[current], d) = << >>
      BY <1>5, <1>11, <3>1, ConcatEmptySeq
    <3>4. Replays(<< >>, d, frames[d], Windings(d))
      BY <3>1, ReplaysNone
    <3> QED BY <1>17, <3>2, <3>3, <3>4
  <2> QED BY <1>11, <1>14, <2>1 DEF Context, WorkOf, Winds
<1>19. PushIs'
  BY <1>5, <1>11 DEF PushIs
<1>20. PlacesInv'
  <2>1. InPushes \subseteq InPushes'
    BY <1>1, <1>6, <1>7, PassesOn
  <2>2. used' \in Nat /\ used <= used'
    BY <1>1
  <2> QED BY <1>1, <1>11, <2>1, <2>2, PlacesQuiet
<1> QED BY <1>1, <1>5, <1>8, <1>10, <1>16, <1>18, <1>19, <1>20, RunParts

(* suspend.                                                                 *)
LEMMA SuspendKeeps ==
  ASSUME IInv, IInv', SInv, DInv, ~thrown', NEW c \in Coroutines, Suspend(c)
  PROVE  DInv'
<1> DEFINE r == calls[current]
           w == used + 1
           x == WindingOut(c, w, FALSE)
           y == [op |-> "suspend", co |-> c, winder |-> w]
<1>1. /\ r # << >> /\ Top.op = "body" /\ ~Top.thunk
      /\ status[c] = "active" /\ w \in Winders /\ used' = w
      /\ calls' = [calls EXCEPT ![current] = <<x, y>> \o r]
      /\ UNCHANGED <<current, status, parent, frames, saved, registered, winders, dead, ins, outs>>
  BY DEF Suspend, May, AtTop, Call
<1>2. /\ TypeInv /\ ShapeInv /\ current \in Coroutines /\ Job = Top /\ Framed
  BY <1>1, AtStep DEF Thunk, Idle
<1>3. Top \in Activations /\ Good(r)
  BY <1>1, <1>2, TopSplit
<1>4. /\ x \in Activations /\ x.op = "wind-out" /\ x.at = current /\ x.target = c /\ x.winder = w
      /\ y \in Activations /\ y.op = "suspend" /\ y.co = c /\ y.winder = w
  BY <1>1, <1>2 DEF WindingOut, Activations
<1>5. Settled(Head(r)) /\ WindingsOf(r) = Windings(current)
  BY <1>1 DEF Settled, Top, Windings
<1> HIDE DEF x, y, r
<1>6. calls' = [calls EXCEPT ![current] = <<x>> \o (<<y>> \o r)]
  BY <1>1, <1>3, <1>4, PairOn DEF Good
<1>7. \A ops : Passes(r, r, ops)
  BY DEF Passes
<1>8. w # NoWinder /\ c \in Active
  BY <1>1 DEF Winders, NoWinder, BoundsAssumption, Active
<1>9. Job.op # "suspended"
  BY <1>1, <1>2
<1> HIDE DEF w
<1>10. used' = used + 1 /\ w = used + 1
  BY <1>1 DEF w
<1>11. r = calls[current]
  BY DEF r
<1>12. y.op = (IF w = NoWinder THEN "break" ELSE "suspend")
       /\ used' = IF w = NoWinder THEN used ELSE used + 1
  BY <1>4, <1>8, <1>10
<1>13. Passes(calls[current], r, {"close"}) /\ Passes(calls[current], r, {"push-frame"})
  BY <1>7, <1>11
<1>20. Leaves(r, c, w, x, y)
  BY <1>1, <1>2, <1>3, <1>4, <1>5, <1>6, <1>8, <1>9, <1>10, <1>12, <1>13 DEF Leaves
<1> QED BY <1>20, LeaveOn

(* break.                                                                   *)
LEMMA BreakKeeps ==
  ASSUME IInv, IInv', SInv, DInv, ~thrown', NEW c \in Coroutines, Break(c)
  PROVE  DInv'
<1> DEFINE r == calls[current]
           w == NoWinder
           x == WindingOut(c, w, TRUE)
           y == [op |-> "break", co |-> c]
<1>1. /\ r # << >> /\ Top.op = "body" /\ ~Top.thunk
      /\ status[c] = "active"
      /\ calls' = [calls EXCEPT ![current] = <<x, y>> \o r]
      /\ UNCHANGED <<current, status, parent, frames, saved, registered, winders, used, dead, ins, outs>>
  BY DEF Break, Breaking, May, AtTop, Call
<1>2. /\ TypeInv /\ ShapeInv /\ current \in Coroutines /\ Job = Top /\ Framed
  BY <1>1, AtStep DEF Thunk, Idle
<1>3. Top \in Activations /\ Good(r)
  BY <1>1, <1>2, TopSplit
<1>4. /\ x \in Activations /\ x.op = "wind-out" /\ x.at = current /\ x.target = c /\ x.winder = w
      /\ y \in Activations /\ y.op = "break" /\ y.co = c
  BY <1>1, <1>2 DEF WindingOut, Activations
<1>5. Settled(Head(r)) /\ WindingsOf(r) = Windings(current)
  BY <1>1 DEF Settled, Top, Windings
<1> HIDE DEF x, y, r
<1>6. calls' = [calls EXCEPT ![current] = <<x>> \o (<<y>> \o r)]
  BY <1>1, <1>3, <1>4, PairOn DEF Good
<1>7. r = calls[current]
  BY DEF r
<1>8. Passes(calls[current], r, {"close"}) /\ Passes(calls[current], r, {"push-frame"})
  BY <1>7 DEF Passes
<1>9. Job.op # "suspended" /\ c \in Active
  BY <1>1, <1>2 DEF Active
<1> HIDE DEF w
<1>10. w = NoWinder
  BY DEF w
<1>11. y.op = (IF w = NoWinder THEN "break" ELSE "suspend")
       /\ used' = IF w = NoWinder THEN used ELSE used + 1
  BY <1>1, <1>4, <1>10
<1>20. Leaves(r, c, w, x, y)
  BY <1>1, <1>2, <1>3, <1>4, <1>5, <1>6, <1>8, <1>9, <1>10, <1>11 DEF Leaves
<1> QED BY <1>20, LeaveOn

(* The body of a coroutine has returned: it is broken out of.               *)
LEMMA CoroutineEndsKeeps ==
  ASSUME IInv, IInv', SInv, DInv, CoroutineEnds
  PROVE  DInv'
<1> DEFINE r == Tail(calls[current])
           c == Top.co
           w == NoWinder
           x == WindingOut(c, w, TRUE)
           y == [op |-> "break", co |-> c]
<1>1. /\ calls[current] # << >> /\ Top.op = "end"
      /\ status[c] = "active"
      /\ calls' = [calls EXCEPT ![current] = <<x, y>> \o r]
      /\ UNCHANGED <<current, status, parent, frames, saved, registered, winders, used, dead, ins, outs>>
  BY DEF CoroutineEnds, Breaking, AtTop, Continue
<1>2. /\ TypeInv /\ ShapeInv /\ current \in Coroutines /\ Job = Top /\ Framed /\ r \in Seq(Activations)
      /\ Windings(current) = AddWinding(Top, WindingsOf(r))
  BY <1>1, AtStep DEF Thunk, Idle
<1>3. /\ Top \in Activations /\ Good(r) /\ calls[current] = <<Top>> \o r
      /\ r # << >> => Follows(Top, Head(r))
  BY <1>1, <1>2, TopSplit
<1>4. c \in Coroutines
  BY <1>1, <1>3, Fields
<1>5. /\ x \in Activations /\ x.op = "wind-out" /\ x.at = current /\ x.target = c /\ x.winder = w
      /\ y \in Activations /\ y.op = "break" /\ y.co = c
  BY <1>1, <1>2, <1>4 DEF WindingOut, Activations
<1>6. (r # << >> => Settled(Head(r))) /\ WindingsOf(r) = Windings(current)
  BY <1>1, <1>2, <1>3 DEF Follows, AddWinding
<1> HIDE DEF x, y, r
<1>7. calls' = [calls EXCEPT ![current] = <<x>> \o (<<y>> \o r)]
  BY <1>1, <1>3, <1>5, PairOn DEF Good
<1>8. Passes(calls[current], r, {"close"}) /\ Passes(calls[current], r, {"push-frame"})
  <2>1. \A ops : Passes(r, r, ops)
    BY DEF Passes
  <2>2. Top.op \notin {"close"} /\ Top.op \notin {"push-frame"}
    BY <1>1
  <2> QED BY <1>2, <1>3, <2>1, <2>2, PassesCons
<1>9. Job.op # "suspended" /\ c \in Active
  BY <1>1, <1>2, <1>4 DEF Active
<1> HIDE DEF w
<1>10. w = NoWinder
  BY DEF w
<1>11. y.op = (IF w = NoWinder THEN "break" ELSE "suspend")
       /\ used' = IF w = NoWinder THEN used ELSE used + 1
  BY <1>1, <1>5, <1>10
<1> HIDE DEF c
<1>20. Leaves(r, c, w, x, y)
  BY <1>1, <1>2, <1>3, <1>5, <1>6, <1>7, <1>8, <1>9, <1>10, <1>11 DEF Leaves
<1> QED BY <1>20, LeaveOn

(* A step of a winding: what is worked at afterwards, at b, goes on with    *)
(* the same winder, for the same coroutines.                                *)
LEMMA GoOn ==
  ASSUME TypeInv, TypeInv', LinkInv, DInv, NEW s, RunsOn(s),
         Winds(Job) => Job.op # "wind-in-out",
         NEW b, b = JobOf(s), b.op # "wind-in-out",
         Winds(b) => Winds(Job) /\ b.winder = Job.winder,
         Job.op = "suspended" => saved'[Job.co] = NoWinder,
         JobIs(b)',
         ToPush(s) => Head(Bare(s)).co \in Active,
         \A d \in Active \ Leaving(b) :
           Replays(WorkOf(b)', d, PendOf(s, d) \o frames'[d],
                   IF d = current THEN WindingsOf(s) ELSE Windings(d)),
         PlacesInv'
  PROVE  DInv'
<1>1. ShapeInv /\ WaitingInv /\ SavedInv
  BY DEF DInv
<1>2. Winds(JobOf(s)) \/ JobOf(s).op = "wind-in-out" => WinderIs(JobOf(s).winder)
  BY <1>1, SameWinder
<1>3. /\ Active' = Active /\ Job' = b /\ calls'[current] = s /\ current' = current
      /\ \A d \in Coroutines : d # current => calls'[d] = calls[d]
      /\ \A d \in Coroutines : Between(d)' = Between(d)
  BY <1>1, <1>2, RunKeeps DEF RunsOn
<1>4. JobIs(Job)'
  BY <1>3 DEF JobIs, OutOf, EntriesIn
<1>5. PushIs'
  BY <1>3 DEF PushIs
<1>6. Leaving(b)' = Leaving(b)
  <2>1. /\ b.op = "wind-out" => b.target \in Coroutines
        /\ b.op = "break" => b.co \in Coroutines
    BY <1>3 DEF JobIs, Active
  <2> QED BY <1>3, <2>1 DEF Leaving
<1>7. Context'
  <2>1. \A d \in Active : Windings(d)' = IF d = current THEN WindingsOf(s) ELSE Windings(d)
    BY <1>3 DEF Windings, Active
  <2> QED BY <1>3, <1>6, <2>1 DEF Context, WorkOf, Winds, Leaving
<1> QED BY <1>2, <1>4, <1>5, <1>7, RunParts

(* Frames are wound out.                                                    *)
LEMMA WindOutBelow ==
  ASSUME IInv, SInv, DInv, AtTop("wind-out")
  PROVE  /\ Tail(calls[current]) # << >>
         /\ Follows(Top, Head(Tail(calls[current])))
         /\ Head(Tail(calls[current])).op \in {"suspend", "break"}
         /\ Head(Tail(calls[current])).co = Top.target
         /\ Head(Tail(calls[current])).op = "break" <=> Top.winder = NoWinder
         /\ Head(Tail(calls[current])).op = "suspend" =>
              Head(Tail(calls[current])).winder = Top.winder
<1>1. TypeInv /\ ShapeInv /\ StackInv /\ calls[current] # << >> /\ Top.op = "wind-out"
      /\ current \in Coroutines /\ calls[current] \in Seq(Activations)
  BY DEF IInv, SInv, DInv, AtTop, TypeInv, TypeOK
<1>2. /\ Top \in Activations /\ Good(Tail(calls[current])) /\ calls[current] = <<Top>> \o Tail(calls[current])
      /\ Tail(calls[current]) # << >> => Follows(Top, Head(Tail(calls[current])))
                                         /\ Head(Tail(calls[current])) \in Activations
  BY <1>1, TopSplit
<1>3. Tail(calls[current]) # << >>
  <2> SUFFICES ASSUME Tail(calls[current]) = << >> PROVE FALSE
    OBVIOUS
  <2>1. Len(calls[current]) = 1
    <3>1. Len(Tail(calls[current])) = Len(calls[current]) - 1 /\ Len(calls[current]) \in Nat
      BY <1>1, Split
    <3>2. Len(<< >>) = 0
      OBVIOUS
    <3>3. Len(Tail(calls[current])) = 0
      BY <3>2
    <3> QED BY <3>1, <3>3
  <2>2. Head(calls[current]) = calls[current][1]
    BY <1>1
  <2>3. Based(current, calls[current])
    BY <1>1 DEF StackInv
  <2> QED BY <1>1, <2>1, <2>2, <2>3 DEF Based, Top
<1> DEFINE b == Head(Tail(calls[current]))
<1>4. b \in Activations /\ Follows(Top, b) /\ b.op \in {"suspend", "break"} /\ b.co = Top.target
  BY <1>1, <1>2, <1>3 DEF Follows
<1>5. b.op = "suspend" => b.winder \in Winders
  BY <1>4, Fields
<1>6. \A w \in Winders : w # NoWinder
  BY DEF Winders, NoWinder, BoundsAssumption
<1> HIDE DEF b
<1>7. (b.op = "break" => Top.winder = NoWinder) /\ (b.op = "suspend" => b.winder = Top.winder)
  BY <1>1, <1>4 DEF Follows
<1>8. b.op = "break" <=> Top.winder = NoWinder
  BY <1>4, <1>5, <1>6, <1>7
<1> QED BY <1>2, <1>3, <1>4, <1>7, <1>8 DEF b

(* The target has no frames left: what waits for the winding goes on.       *)
LEMMA WindOutEnds ==
  ASSUME IInv, IInv', SInv, DInv, AtTop("wind-out"), frames[Top.at] = << >>, Top.at = Top.target,
         calls' = [calls EXCEPT ![current] = Tail(calls[current])],
         UNCHANGED <<current, status, parent, frames, saved, registered, winders, used, dead, ins, outs>>
  PROVE  DInv'
<1> DEFINE r == Tail(calls[current])
<1>1. /\ calls[current] # << >> /\ Top.op = "wind-out"
  BY DEF AtTop
<1>2. /\ TypeInv /\ TypeInv' /\ LinkInv /\ WaitingInv /\ PlacesInv /\ ShapeInv /\ used \in Nat
      /\ current \in Coroutines /\ current \in Active /\ r \in Seq(Activations)
      /\ Job = Top /\ ~ToPush(calls[current]) /\ \A d : PendOf(calls[current], d) = << >>
      /\ Windings(current) = AddWinding(Top, WindingsOf(r))
  BY <1>1, AtStep DEF Thunk, IInv
<1>3. /\ Top \in Activations /\ Good(r) /\ calls[current] = <<Top>> \o r
  BY <1>1, <1>2, TopSplit
<1>4. PICK b : b = Head(r)
  OBVIOUS
<1>5. /\ r # << >> /\ b.op \in {"suspend", "break"} /\ b.co = Top.target
      /\ b.op = "break" <=> Top.winder = NoWinder
      /\ b.op = "suspend" => b.winder = Top.winder
  BY <1>4, WindOutBelow
<1> HIDE DEF r
<1>6. b \in Activations /\ Tail(r) \in Seq(Activations) /\ r = <<b>> \o Tail(r)
  BY <1>2, <1>4, <1>5, Split
<1>7. JobOf(r) = b /\ ~ToPush(r) /\ \A d : PendOf(r, d) = << >>
  BY <1>5, <1>6, ViewJob DEF Thunk
<1>8. Passes(calls[current], r, {"close"}) /\ Passes(calls[current], r, {"push-frame"})
  <2>1. \A ops : Passes(r, r, ops)
    BY DEF Passes
  <2> QED BY <1>1, <1>2, <1>3, <2>1, PassesCons
<1>9. calls' = [calls EXCEPT ![current] = r]
  BY DEF r
<1>10. RunsOn(r)
  BY <1>2, <1>3, <1>8, <1>9, RunsOnQuiet
<1>11. JobIs(Top)
  BY <1>2 DEF DInv
<1>12. /\ Active' = Active /\ \A d \in Coroutines : Between(d)' = Between(d)
  BY DEF Active, Between, ChainTo, ChainFrom, Links
<1>13. JobIs(b)'
  <2>1. Top.target \in Active /\ Top.target \in Coroutines
    BY <1>1, <1>11 DEF JobIs, Active
  <2>2. \A d \in Between(Top.target) : frames[d] = << >>
    BY <1>1, <1>11 DEF JobIs
  <2>3. b.op = "suspend" => EntriesIn(b.winder, Between(b.co))
    BY <1>1, <1>5, <1>11 DEF JobIs
  <2>4. Between(b.co)' = Between(b.co) /\ b.co = Top.target
    BY <1>5, <1>12, <2>1
  <2>5. b.co \in Active'
    BY <1>5, <1>12, <2>1
  <2>6. b.op = "suspend" => EntriesIn(b.winder, Between(b.co))'
    BY <2>3, <2>4 DEF EntriesIn
  <2>7. OutOf(b.co)'
    BY <2>2, <2>4 DEF OutOf
  <2> QED BY <1>5, <2>5, <2>6, <2>7 DEF JobIs
<1>14. Leaving(b) = Leaving(Top) /\ WorkOf(b)' = WorkOf(Top)
       /\ (Winds(b) => Winds(Job) /\ b.winder = Job.winder)
  <2> QED BY <1>1, <1>2, <1>5 DEF Leaving, WorkOf, Winds
<1>15. \A d \in Active \ Leaving(b) :
         Replays(WorkOf(b)', d, PendOf(r, d) \o frames'[d],
                 IF d = current THEN WindingsOf(r) ELSE Windings(d))
  <2> SUFFICES ASSUME NEW d \in Active \ Leaving(b)
               PROVE  Replays(WorkOf(b)', d, PendOf(r, d) \o frames'[d],
                              IF d = current THEN WindingsOf(r) ELSE Windings(d))
    OBVIOUS
  <2>1. Replays(WorkOf(Top), d, PendOf(calls[current], d) \o frames[d], Windings(d))
    BY <1>2, <1>14 DEF DInv, Context
  <2>2. Windings(current) = WindingsOf(r)
    BY <1>1, <1>2 DEF AddWinding
  <2> QED BY <1>2, <1>7, <1>14, <2>1, <2>2
<1>16. PlacesInv'
  <2>1. InPushes \subseteq InPushes'
    BY <1>2, <1>8, <1>9, PassesOn
  <2> QED BY <1>2, <1>12, <2>1, PlacesQuiet
<1> QED BY <1>1, <1>2, <1>5, <1>7, <1>10, <1>13, <1>14, <1>15, <1>16, GoOn

(* A coroutine on the way has no frames left: the next one is turned to.    *)
LEMMA WindOutMoves ==
  ASSUME IInv, IInv', SInv, DInv, AtTop("wind-out"), frames[Top.at] = << >>, Top.at # Top.target,
         calls' = [calls EXCEPT ![current] = <<[Top EXCEPT !.at = parent[Top.at]]>> \o Tail(calls[current])],
         UNCHANGED <<current, status, parent, frames, saved, registered, winders, used, dead, ins, outs>>
  PROVE  DInv'
<1> DEFINE r == Tail(calls[current])
<1>1. /\ calls[current] # << >> /\ Top.op = "wind-out"
  BY DEF AtTop
<1>2. /\ TypeInv /\ TypeInv' /\ LinkInv /\ WaitingInv /\ PlacesInv /\ ShapeInv /\ used \in Nat
      /\ current \in Coroutines /\ current \in Active /\ r \in Seq(Activations)
      /\ Job = Top /\ ~ToPush(calls[current]) /\ \A d : PendOf(calls[current], d) = << >>
      /\ Windings(current) = AddWinding(Top, WindingsOf(r))
  BY <1>1, AtStep DEF Thunk, IInv
<1>3. /\ Top \in Activations /\ Good(r) /\ calls[current] = <<Top>> \o r
      /\ r # << >> => Follows(Top, Head(r))
  BY <1>1, <1>2, TopSplit
<1>4. JobIs(Top)
  BY <1>2 DEF DInv
<1>5. /\ Top.target \in Active /\ Top.at \in Between(Top.target)
      /\ Top.target \in Coroutines /\ Top.at \in Coroutines
      /\ \A d \in Between(Top.at) \ {Top.at} : frames[d] = << >>
      /\ Top.winder # NoWinder => EntriesIn(Top.winder, Between(Top.target))
  BY <1>1, <1>3, <1>4, Fields DEF JobIs
<1>6. /\ parent[Top.at] \in Between(Top.target) /\ parent[Top.at] \in Coroutines
      /\ Between(parent[Top.at]) \subseteq Between(Top.at) \cup {parent[Top.at]}
  BY <1>2, <1>5, BetweenNext DEF Active
<1>7. PICK b \in Activations :
        /\ b = [Top EXCEPT !.at = parent[Top.at]] /\ b.op = "wind-out" /\ b.at = parent[Top.at]
        /\ b.target = Top.target /\ b.winder = Top.winder
  BY <1>1, <1>3, <1>6, Changed
<1> DEFINE s == <<b>> \o r
<1> HIDE DEF r
<1>8. Good(s)
  <2>1. r # << >> => Follows(b, Head(r))
    BY <1>1, <1>3, <1>7 DEF Follows, Thunk
  <2> QED BY <1>3, <1>7, <2>1, GoodCons DEF Settled
<1>9. /\ JobOf(s) = b /\ ~ToPush(s) /\ (\A d : PendOf(s, d) = << >>)
      /\ WindingsOf(s) = Windings(current)
  BY <1>1, <1>2, <1>7, ViewJob DEF Thunk, AddWinding
<1>10. Passes(calls[current], s, {"close"}) /\ Passes(calls[current], s, {"push-frame"})
  <2>1. \A ops : Passes(r, s, ops)
    BY <1>2, <1>7, PassesCons
  <2> QED BY <1>1, <1>2, <1>3, <2>1, PassesCons
<1>11. calls' = [calls EXCEPT ![current] = s]
  BY <1>7 DEF r
<1> HIDE DEF s
<1>12. RunsOn(s)
  BY <1>2, <1>8, <1>10, <1>11, RunsOnQuiet
<1>13. /\ Active' = Active /\ \A d \in Coroutines : Between(d)' = Between(d)
  BY DEF Active, Between, ChainTo, ChainFrom, Links
<1>14. JobIs(b)'
  <2>1. Between(b.target)' = Between(b.target) /\ Between(b.at)' = Between(b.at)
    BY <1>5, <1>6, <1>7, <1>13
  <2>2. b.target \in Active' /\ b.at \in Between(b.target)'
    BY <1>5, <1>6, <1>7, <1>13
  <2>3. \A d \in Between(b.at)' \ {b.at} : frames'[d] = << >>
    BY <1>5, <1>6, <1>7, <2>1
  <2>4. b.winder # NoWinder => EntriesIn(b.winder, Between(b.target))'
    BY <1>5, <1>7, <2>1 DEF EntriesIn
  <2> QED BY <1>7, <2>2, <2>3, <2>4 DEF JobIs, EntriesIn
<1>15. Leaving(b) = Leaving(Top) /\ WorkOf(b)' = WorkOf(Top)
       /\ (Winds(b) => Winds(Job) /\ b.winder = Job.winder)
  BY <1>1, <1>2, <1>7 DEF Leaving, WorkOf, Winds
<1>16. \A d \in Active \ Leaving(b) :
         Replays(WorkOf(b)', d, PendOf(s, d) \o frames'[d],
                 IF d = current THEN WindingsOf(s) ELSE Windings(d))
  <2> SUFFICES ASSUME NEW d \in Active \ Leaving(b)
               PROVE  Replays(WorkOf(b)', d, PendOf(s, d) \o frames'[d],
                              IF d = current THEN WindingsOf(s) ELSE Windings(d))
    OBVIOUS
  <2>1. Replays(WorkOf(Top), d, PendOf(calls[current], d) \o frames[d], Windings(d))
    BY <1>2, <1>15 DEF DInv, Context
  <2> QED BY <1>2, <1>9, <1>15, <2>1
<1>17. PlacesInv'
  <2>1. InPushes \subseteq InPushes'
    BY <1>2, <1>10, <1>11, PassesOn
  <2> QED BY <1>2, <1>13, <2>1, PlacesQuiet
<1> QED BY <1>1, <1>2, <1>7, <1>9, <1>12, <1>14, <1>15, <1>16, <1>17, GoOn

(* A frame is popped, and put on the winder if there is one.                *)
LEMMA WindOutPops ==
  ASSUME IInv, IInv', SInv, DInv, AtTop("wind-out"), frames[Top.at] # << >>,
         Popping(Top.at, Top.callFinally, <<Top>>),
         winders' = IF Top.winder = NoWinder THEN winders
                    ELSE Pushed(Top.winder, [co |-> Top.at, frame |-> Head(frames[Top.at])]),
         UNCHANGED <<current, status, parent, saved, registered, used, dead, ins>>
  PROVE  DInv'
<1> DEFINE r == Tail(calls[current])
           c == Top.at
           f == Head(frames[c])
           w == Top.winder
           e == [co |-> c, frame |-> f]
           x == Body(TRUE)
           u == <<Top>> \o r
           s == IF CallsOut(f, Top.callFinally) THEN <<x>> \o u ELSE u
<1>1. /\ calls[current] # << >> /\ Top.op = "wind-out" /\ frames[c] # << >>
      /\ frames' = [frames EXCEPT ![c] = Tail(@)]
      /\ outs' = [outs EXCEPT ![f] = @ + 1] \/ (f \notin PlainFrames /\ outs' = outs)
      /\ calls' = [calls EXCEPT ![current] =
                     (IF CallsOut(f, Top.callFinally) THEN <<x>> \o <<Top>> ELSE <<Top>>) \o r]
      /\ winders' = IF w = NoWinder THEN winders ELSE [winders EXCEPT ![w] = <<e>> \o @]
  BY DEF AtTop, Popping, Continue, CallsOut, Pushed
<1>2. /\ TypeInv /\ TypeInv' /\ LinkInv /\ WaitingInv /\ PlacesInv /\ ShapeInv /\ used \in Nat
      /\ current \in Coroutines /\ current \in Active /\ r \in Seq(Activations)
      /\ Job = Top /\ ~ToPush(calls[current]) /\ (\A d : PendOf(calls[current], d) = << >>)
      /\ Windings(current) = AddWinding(Top, WindingsOf(r))
      /\ frames \in [Coroutines -> Seq(Frames)] /\ winders \in [Winders -> Seq(Entries)]
  BY <1>1, AtStep DEF Thunk, IInv, TypeInv, TypeOK
<1>3. /\ Top \in Activations /\ Good(r) /\ calls[current] = u /\ Good(u)
      /\ r # << >> => Follows(Top, Head(r))
  BY <1>1, <1>2, TopSplit
<1>4. JobIs(Top)
  BY <1>2 DEF DInv
<1>5. /\ Top.target \in Active /\ c \in Between(Top.target) /\ Top.target \in Coroutines
      /\ c \in Coroutines /\ c \in Active
      /\ \A d \in Between(c) \ {c} : frames[d] = << >>
      /\ w # NoWinder => EntriesIn(w, Between(Top.target))
      /\ w = NoWinder \/ w \in Winders
  <2>1. /\ Top.target \in Active /\ c \in Between(Top.target) /\ Top.target \in Coroutines
        /\ c \in Coroutines /\ (w = NoWinder \/ w \in Winders)
    BY <1>1, <1>3, <1>4, Fields DEF JobIs
  <2>2. /\ \A d \in Between(c) \ {c} : frames[d] = << >>
        /\ w # NoWinder => EntriesIn(w, Between(Top.target))
    BY <1>1, <1>4 DEF JobIs
  <2>3. c \in Active
    <3>1. PICK t \in Active : t = Top.target
      BY <2>1
    <3>2. Between(t) \subseteq Active
      BY <1>2, BetweenIs
    <3> QED BY <2>1, <3>1, <3>2
  <2> HIDE DEF c, w
  <2> QED BY <2>1, <2>2, <2>3
<1>6. x \in Activations /\ x.op = "body" /\ x.thunk
  BY DEF Body, Activations
<1>7. f \in Frames /\ e \in Entries /\ frames[c] = <<f>> \o Tail(frames[c]) /\ Tail(frames[c]) \in Seq(Frames)
  <2>1. f \in Frames /\ frames[c] = <<f>> \o Tail(frames[c]) /\ Tail(frames[c]) \in Seq(Frames)
    BY <1>1, <1>2, <1>5, Split
  <2> QED BY <1>5, <2>1 DEF Entries
<1>8. e.co = c /\ e.frame = f
  OBVIOUS
<1> HIDE DEF r, x, e
<1>9. calls' = [calls EXCEPT ![current] = s]
  <2>1. <<x>> \in Seq(Activations) /\ <<Top>> \in Seq(Activations)
    BY <1>3, <1>6
  <2>2. (<<x>> \o <<Top>>) \o r = <<x>> \o (<<Top>> \o r)
    BY <1>2, <2>1, ConcatAssociative
  <2> QED BY <1>1, <2>2
<1>10. /\ JobOf(u) = Top /\ ~ToPush(u) /\ (\A d : PendOf(u, d) = << >>)
       /\ WindingsOf(u) = Windings(current)
  BY <1>1, <1>2, <1>3, ViewJob DEF Thunk, AddWinding
<1>11. \A ops : Passes(u, u, ops) /\ Passes(u, <<x>> \o u, ops)
  BY <1>3, <1>6, PassesCons DEF Good
<1>12. Good(<<x>> \o u)
  <2>1. Follows(x, Top) /\ ~Settled(x)
    BY <1>1, <1>6 DEF Follows, Settled, Thunk
  <2>2. Head(u) = Top
    BY <1>2, <1>3, OnTop
  <2> QED BY <1>3, <1>6, <2>1, <2>2, GoodCons
<1> HIDE DEF u
<1>13. /\ JobOf(<<x>> \o u) = Top /\ ~ToPush(<<x>> \o u)
       /\ WindingsOf(<<x>> \o u) = Windings(current)
  BY <1>3, <1>6, <1>10, <1>12, ViewThunk DEF Thunk, Good
<1>14. /\ Good(s) /\ JobOf(s) = Top /\ ~ToPush(s) /\ WindingsOf(s) = Windings(current)
       /\ Passes(calls[current], s, {"close"}) /\ Passes(calls[current], s, {"push-frame"})
  BY <1>3, <1>10, <1>11, <1>12, <1>13
<1> HIDE DEF s
<1>15. \A d : PendOf(s, d) = << >>
  BY <1>14 DEF PendOf
<1>16. InPushes \subseteq InPushes' /\ \A d : Closing(d) => Closing(d)'
  BY <1>2, <1>9, <1>14, PassesOn
<1>17. RunsOn(s)
  <2>1. \A v \in Winders : winders'[v] = winders[v] \/ (Winds(Job) /\ v = Job.winder)
    BY <1>1, <1>2, <1>5 DEF Winds
  <2> QED BY <1>2, <1>9, <1>14, <1>16, <2>1 DEF RunsOn, Good
<1>18. /\ Active' = Active /\ \A d \in Coroutines : Between(d)' = Between(d)
  BY DEF Active, Between, ChainTo, ChainFrom, Links
<1>19. w # NoWinder => winders'[w] = <<e>> \o winders[w] /\ winders[w] \in Seq(Entries)
  BY <1>1, <1>2, <1>5
<1>20. frames'[c] = Tail(frames[c]) /\ \A d \in Coroutines : d # c => frames'[d] = frames[d]
  BY <1>1, <1>2, <1>5
<1> HIDE DEF f
<1>21. PlacesInv'
  <2>1. \A g \in PlainFrames : ins'[g] = outs'[g] + 1 => g \in InFrames' \cup InPushes'
    BY <1>1, <1>2, <1>5, <1>16, ScopePop DEF IInv, f
  <2>2. \A d \in Coroutines : frames'[d] = frames[d] \/ d \in Active
    BY <1>5, <1>20
  <2> QED BY <1>2, <1>17, <2>1, <2>2, PlacesRun
<1>22. PICK b : b = Top
  OBVIOUS
<1> HIDE DEF c, w
<1>23. /\ b \in Activations /\ b.op = "wind-out" /\ b.at = c /\ b.winder = w /\ b.target = Top.target
  BY <1>1, <1>3, <1>22 DEF c, w
<1>24. JobIs(b)'
  <2>1. Between(b.target)' = Between(b.target) /\ Between(b.at)' = Between(b.at)
    BY <1>5, <1>18, <1>23
  <2>2. b.target \in Active' /\ b.at \in Between(b.target)'
    BY <1>5, <1>18, <1>23, <2>1
  <2>3. \A d \in Between(b.at)' \ {b.at} : frames'[d] = << >>
    <3> SUFFICES ASSUME NEW d \in Between(c) \ {c} PROVE frames'[d] = << >>
      BY <1>23, <2>1
    <3>1. d \in Coroutines
      BY <1>2, <1>5, BetweenIs DEF Active
    <3> QED BY <1>5, <1>20, <3>1
  <2>4. b.winder # NoWinder => EntriesIn(b.winder, Between(b.target))'
    <3> SUFFICES ASSUME w # NoWinder, NEW i \in DOMAIN winders'[w]
                 PROVE  winders'[w][i].co \in Between(Top.target)
      BY <1>23, <2>1 DEF EntriesIn
    <3>1. \/ i = 1 /\ winders'[w][i] = e
          \/ i # 1 /\ i - 1 \in DOMAIN winders[w] /\ winders'[w][i] = winders[w][i - 1]
      <4>1. PICK q \in Seq(Entries) : q = winders[w] /\ winders'[w] = <<e>> \o q
        BY <1>19
      <4>2. i \in DOMAIN (<<e>> \o q)
        BY <4>1
      <4>3. \/ i = 1 /\ (<<e>> \o q)[i] = e
            \/ i # 1 /\ i - 1 \in DOMAIN q /\ (<<e>> \o q)[i] = q[i - 1]
        BY <1>7, <4>2, OnTopIs
      <4> QED BY <4>1, <4>3
    <3> QED BY <1>5, <1>8, <3>1 DEF EntriesIn
  <2> QED BY <1>23, <2>2, <2>3, <2>4 DEF JobIs, EntriesIn
<1>25. \A d \in Active \ Leaving(b) :
         Replays(WorkOf(b)', d, PendOf(s, d) \o frames'[d],
                 IF d = current THEN WindingsOf(s) ELSE Windings(d))
  <2> SUFFICES ASSUME NEW d \in Active \ Leaving(b)
               PROVE  Replays(WorkOf(b)', d, frames'[d], Windings(d))
    <3>1. \A d \in Active : frames'[d] \in Seq(Frames)
      BY <1>2 DEF TypeInv, TypeOK, Active
    <3>2. \A d \in Active : << >> \o frames'[d] = frames'[d]
      BY <3>1, ConcatEmptySeq
    <3> QED BY <1>14, <1>15, <3>2
  <2>1. Replays(WorkOf(b), d, frames[d], Windings(d))
    <3>1. d \in Active \ Leaving(Job) /\ d \in Coroutines /\ frames[d] \in Seq(Frames)
      BY <1>2, <1>22 DEF Active
    <3>2. Replays(WorkOf(Job), d, PendOf(calls[current], d) \o frames[d], Windings(d))
      BY <3>1 DEF DInv, Context
    <3>3. << >> \o frames[d] = frames[d]
      BY <3>1, ConcatEmptySeq
    <3> QED BY <1>2, <1>22, <3>2, <3>3
  <2>2. d \in Coroutines
    BY DEF Active
  <2>3. CASE w = NoWinder
    <3>1. d # c
      BY <1>5, <1>23, <2>3 DEF Leaving
    <3>2. WorkOf(b)' = WorkOf(b)
      BY <1>23, <2>3 DEF WorkOf, Winds
    <3> QED BY <1>20, <2>1, <2>2, <3>1, <3>2
  <2>4. CASE w # NoWinder
    <3>1. WorkOf(b) = winders[w] /\ WorkOf(b)' = <<e>> \o winders[w]
      BY <1>19, <1>23, <2>4 DEF WorkOf, Winds
    <3>2. Wound(e, d, frames'[d]) = frames[d]
      BY <1>7, <1>8, <1>20, <2>2 DEF Wound
    <3>3. Replays(<<e>> \o winders[w], d, frames'[d], Windings(d))
      BY <1>7, <1>19, <2>1, <2>4, <3>1, <3>2, ReplaysCons
    <3> QED BY <3>1, <3>3
  <2> QED BY <2>3, <2>4
<1>26. b = JobOf(s) /\ (Winds(b) => Winds(Job) /\ b.winder = Job.winder)
  BY <1>2, <1>14, <1>22
<1> QED BY <1>1, <1>2, <1>14, <1>17, <1>21, <1>23, <1>24, <1>25, <1>26, GoOn

(* wind-out.                                                                *)
LEMMA WindOutKeeps ==
  ASSUME IInv, IInv', SInv, DInv, WindOut
  PROVE  DInv'
<1>1. /\ AtTop("wind-out")
      /\ UNCHANGED <<current, status, parent, saved, registered, used, dead, around, ins>>
      /\ Tail(calls[current]) \in Seq(Activations) /\ calls[current] # << >>
  BY AtStep DEF WindOut, AtTop
<1>2. CASE frames[Top.at] = << >>
  <2>1. UNCHANGED <<frames, winders, outs>>
    BY <1>2 DEF WindOut
  <2>2. CASE Top.at = Top.target /\ Continue(<< >>)
    <3>1. calls' = [calls EXCEPT ![current] = Tail(calls[current])]
      BY <1>1, <2>2, ConcatEmptySeq DEF Continue
    <3> QED BY <1>1, <1>2, <2>1, <2>2, <3>1, WindOutEnds
  <2>3. CASE Top.at # Top.target /\ Continue(<<[Top EXCEPT !.at = parent[Top.at]]>>)
    <3>1. calls' = [calls EXCEPT ![current] = <<[Top EXCEPT !.at = parent[Top.at]]>> \o Tail(calls[current])]
      BY <2>3 DEF Continue
    <3> QED BY <1>1, <1>2, <2>1, <2>3, <3>1, WindOutMoves
  <2> QED BY <1>2, <2>2, <2>3 DEF WindOut
<1>3. CASE frames[Top.at] # << >>
  <2>1. /\ Popping(Top.at, Top.callFinally, <<Top>>)
        /\ winders' = IF Top.winder = NoWinder THEN winders
                      ELSE Pushed(Top.winder, [co |-> Top.at, frame |-> Head(frames[Top.at])])
    BY <1>3 DEF WindOut
  <2> QED BY <1>1, <1>3, <2>1, WindOutPops
<1> QED BY <1>2, <1>3

(* The coroutine that suspended runs again: its frames are to be wound in.  *)
LEMMA ReattachedKeeps ==
  ASSUME IInv, IInv', SInv, DInv, Reattached
  PROVE  DInv'
<1> DEFINE r == Tail(calls[current])
           w == Top.winder
<1>1. /\ calls[current] # << >> /\ Top.op = "suspended"
      /\ UNCHANGED <<current, status, parent, frames, registered, winders, used, dead, around, ins, outs>>
      /\ saved' = [saved EXCEPT ![Top.co] = NoWinder]
  BY DEF Reattached, AtTop
<1>2. /\ TypeInv /\ TypeInv' /\ LinkInv /\ WaitingInv /\ PlacesInv /\ ShapeInv /\ SavedInv /\ used \in Nat
      /\ current \in Coroutines /\ current \in Active /\ r \in Seq(Activations)
      /\ Job = Top /\ ~ToPush(calls[current]) /\ (\A d : PendOf(calls[current], d) = << >>)
      /\ Windings(current) = AddWinding(Top, WindingsOf(r))
      /\ frames \in [Coroutines -> Seq(Frames)] /\ winders \in [Winders -> Seq(Entries)]
      /\ saved \in [Coroutines -> Winders \cup {NoWinder}]
  BY <1>1, AtStep DEF Thunk, IInv, TypeInv, TypeOK
<1>3. /\ Top \in Activations /\ Good(r) /\ calls[current] = <<Top>> \o r
      /\ r # << >> => Follows(Top, Head(r))
  BY <1>1, <1>2, TopSplit
<1>4. Top.co \in Coroutines /\ w \in Winders /\ w # NoWinder
  <2>1. Top.co \in Coroutines /\ w \in Winders
    BY <1>1, <1>3, Fields
  <2>2. \A v \in Winders : v # NoWinder
    BY DEF Winders, NoWinder, BoundsAssumption
  <2> QED BY <2>1, <2>2
<1>5. /\ saved'[Top.co] = NoWinder
      /\ \A d \in Coroutines : saved'[d] \in {saved[d], NoWinder}
  BY <1>1, <1>2, <1>4
<1>6. Active' = Active /\ \A d \in Coroutines : Between(d)' = Between(d)
  BY <1>1 DEF Active, Between, ChainTo, ChainFrom, Links
<1>7. r # << >> => Settled(Head(r))
  BY <1>1, <1>3 DEF Follows
<1>8. WindingsOf(r) = Windings(current)
  BY <1>1, <1>2 DEF AddWinding
<1>9. Winds(Top) /\ WorkOf(Top) = winders[w] /\ Leaving(Top) = {}
  BY <1>1, <1>4 DEF Winds, WorkOf, Leaving
<1>10. \A d \in Active : Replays(winders[w], d, frames[d], Windings(d))
  <2> SUFFICES ASSUME NEW d \in Active PROVE Replays(winders[w], d, frames[d], Windings(d))
    OBVIOUS
  <2>1. Replays(winders[w], d, PendOf(calls[current], d) \o frames[d], Windings(d))
    BY <1>2, <1>9 DEF DInv, Context
  <2>2. << >> \o frames[d] = frames[d]
    <3>1. frames[d] \in Seq(Frames)
      BY <1>2 DEF Active
    <3> QED BY <3>1, ConcatEmptySeq
  <2> QED BY <1>2, <2>1, <2>2
<1> HIDE DEF r, w
<1>11. \A ops : Passes(r, r, ops)
  BY DEF Passes
<1>12. CASE winders[w] = << >>
  <2>1. calls' = [calls EXCEPT ![current] = r]
    BY <1>2, <1>12, ConcatEmptySeq DEF Reattached, Continue, r, w
  <2>2. Passes(calls[current], r, {"close"}) /\ Passes(calls[current], r, {"push-frame"})
    BY <1>1, <1>2, <1>3, <1>11, PassesCons
  <2>3. RunsOn(r)
    BY <1>1, <1>2, <1>3, <1>5, <2>1, <2>2, RunsOnQuiet
  <2>4. Idle(JobOf(r)) /\ ~ToPush(r) /\ JobOf(r).op # "wind-in-out"
    BY <1>2, <1>7, StableView DEF Stable
  <2>5. \A d \in Active : frames'[d] = IF d = current THEN WindingsOf(r) ELSE Windings(d)
    <3> SUFFICES ASSUME NEW d \in Active PROVE frames[d] = Windings(d)
      BY <1>1, <1>8
    <3> QED BY <1>10, <1>12, ReplaysNone
  <2>6. PlacesInv'
    <3>1. InPushes \subseteq InPushes'
      BY <1>1, <1>2, <2>1, <2>2, PassesOn
    <3> QED BY <1>1, <1>2, <1>6, <3>1, PlacesQuiet
  <2>7. saved'[Job.co] = NoWinder
    BY <1>2, <1>5
  <2> QED BY <2>3, <2>4, <2>5, <2>6, <2>7, IdleStep
<1>13. CASE winders[w] # << >>
  <2> DEFINE t == Head(winders[w]).co
             cos == Reverse(ChainTo(current, t))
  <2>1. Reaches(current, t)
        /\ calls' = [calls EXCEPT ![current] = <<[op |-> "wind-in", winder |-> w, cos |-> cos]>> \o r]
    BY <1>2, <1>13 DEF Reattached, Continue, r, w
  <2>2. t \in Coroutines /\ LinkType /\ Ranked /\ Active = ToSet(ChainFrom(current))
    <3>1. Head(winders[w]) \in Entries
      BY <1>2, <1>4, <1>13, Split
    <3> QED BY <1>2, <3>1, ActiveChain DEF Entries, LinkInv, TypeInv, TypeOK, LinkType
  <2>3. /\ ChainTo(current, t) \in Seq(Coroutines)
        /\ ToSet(ChainTo(current, t)) \subseteq Active
    BY <1>2, <2>1, <2>2, ChainToSet
  <2> HIDE DEF t
  <2>4. cos \in Seq(Coroutines) /\ \A i \in DOMAIN cos : cos[i] \in Active
    <3>1. PICK q \in Seq(Coroutines) : q = ChainTo(current, t) /\ ToSet(q) \subseteq Active
      BY <2>3
    <3>2. Len(q) \in Nat /\ DOMAIN q = 1 .. Len(q) /\ \A i \in DOMAIN q : q[i] \in Active
      BY <3>1 DEF ToSet
    <3>3. Reverse(q) = [i \in 1 .. Len(q) |-> q[Len(q) - i + 1]]
      BY DEF Reverse
    <3>4. \A i \in 1 .. Len(q) : Len(q) - i + 1 \in 1 .. Len(q)
      BY <3>2
    <3>5. Reverse(q) \in [1 .. Len(q) -> Coroutines]
          /\ \A i \in 1 .. Len(q) : Reverse(q)[i] \in Active
      BY <3>2, <3>3, <3>4
    <3>6. Reverse(q) \in Seq(Coroutines) /\ DOMAIN Reverse(q) = 1 .. Len(q)
      BY <3>2, <3>3, <3>5, SeqDef
    <3> QED BY <3>1, <3>5, <3>6
  <2> HIDE DEF cos
  <2>5. PICK b \in Activations : /\ b = [op |-> "wind-in", winder |-> w, cos |-> cos]
                                 /\ b.op = "wind-in" /\ b.winder = w /\ b.cos = cos
    <3>1. [op |-> "wind-in", winder |-> w, cos |-> cos] \in Activations
      BY <1>4, <2>4 DEF Activations
    <3> QED BY <3>1
  <2> DEFINE s == <<b>> \o r
  <2>6. Good(s)
    <3>1. r # << >> => Follows(b, Head(r))
      BY <1>7, <2>5 DEF Follows, Thunk
    <3> QED BY <1>3, <2>5, <3>1, GoodCons DEF Settled
  <2>7. /\ JobOf(s) = b /\ ~ToPush(s) /\ (\A d : PendOf(s, d) = << >>)
        /\ WindingsOf(s) = Windings(current)
    BY <1>2, <1>8, <2>5, ViewJob DEF Thunk, AddWinding
  <2>8. Passes(calls[current], s, {"close"}) /\ Passes(calls[current], s, {"push-frame"})
    <3>1. \A ops : Passes(r, s, ops)
      BY <1>2, <1>11, <2>5, PassesCons
    <3> HIDE DEF s
    <3>2. Top.op \notin {"close"} /\ Top.op \notin {"push-frame"}
      BY <1>1
    <3>3. Top \in Activations /\ r \in Seq(Activations)
      BY <1>2, <1>3
    <3>4. Passes(<<Top>> \o r, s, {"close"}) /\ Passes(<<Top>> \o r, s, {"push-frame"})
      BY <3>1, <3>2, <3>3, PassesCons
    <3> QED BY <1>3, <3>4
  <2>14. calls' = [calls EXCEPT ![current] = s]
    BY <2>1, <2>5
  <2> HIDE DEF s
  <2>9. RunsOn(s)
    BY <1>1, <1>2, <1>5, <2>6, <2>8, <2>14, RunsOnQuiet
  <2>10. JobIs(b)' /\ Leaving(b) = {} /\ WorkOf(b)' = winders[w] /\ Winds(b)
    BY <1>1, <1>4, <1>6, <2>4, <2>5 DEF JobIs, Leaving, WorkOf, Winds
  <2>11. \A d \in Active \ Leaving(b) :
           Replays(WorkOf(b)', d, PendOf(s, d) \o frames'[d],
                   IF d = current THEN WindingsOf(s) ELSE Windings(d))
    <3> SUFFICES ASSUME NEW d \in Active
                 PROVE  Replays(winders[w], d, << >> \o frames[d], Windings(d))
      BY <1>1, <2>7, <2>10
    <3>1. << >> \o frames[d] = frames[d]
      <4>1. frames[d] \in Seq(Frames)
        BY <1>2 DEF Active
      <4> QED BY <4>1, ConcatEmptySeq
    <3> QED BY <1>10, <3>1
  <2>12. PlacesInv'
    <3>1. InPushes \subseteq InPushes'
      BY <1>1, <1>2, <2>8, <2>14, PassesOn
    <3> QED BY <1>1, <1>2, <1>6, <3>1, PlacesQuiet
  <2>13. Job.winder = w /\ Winds(Job) /\ saved'[Job.co] = NoWinder /\ Job.op # "wind-in-out"
    BY <1>1, <1>2, <1>5, <1>9 DEF w
  <2> QED BY <1>2, <2>5, <2>7, <2>9, <2>10, <2>11, <2>12, <2>13, GoOn
<1> QED BY <1>12, <1>13

(* A winder that is at work, and has nothing left: nothing is to be done.   *)
LEMMA WindInEnds ==
  ASSUME IInv, IInv', SInv, DInv, AtTop("wind-in"), winders[Top.winder] = << >>,
         calls' = [calls EXCEPT ![current] = Tail(calls[current])],
         UNCHANGED <<current, status, parent, frames, saved, registered, winders, used, dead, ins, outs>>
  PROVE  DInv'
<1> DEFINE r == Tail(calls[current])
           w == Top.winder
<1>1. calls[current] # << >> /\ Top.op = "wind-in"
  BY DEF AtTop
<1>2. /\ TypeInv /\ LinkInv /\ WaitingInv /\ PlacesInv /\ ShapeInv /\ SavedInv /\ used \in Nat
      /\ current \in Coroutines /\ current \in Active /\ r \in Seq(Activations)
      /\ Job = Top /\ ~ToPush(calls[current]) /\ (\A d : PendOf(calls[current], d) = << >>)
      /\ Windings(current) = AddWinding(Top, WindingsOf(r))
      /\ frames \in [Coroutines -> Seq(Frames)]
  BY <1>1, AtStep DEF Thunk, TypeInv, TypeOK
<1>3. /\ Top \in Activations /\ Good(r) /\ calls[current] = <<Top>> \o r
      /\ r # << >> => Follows(Top, Head(r))
  BY <1>1, <1>2, TopSplit
<1>4. r # << >> => Settled(Head(r))
  BY <1>1, <1>3 DEF Follows
<1>5. WindingsOf(r) = Windings(current)
  BY <1>1, <1>2 DEF AddWinding
<1>6. WorkOf(Top) = << >> /\ Leaving(Top) = {}
  BY <1>1 DEF Winds, WorkOf, Leaving
<1>7. Framed
  <2> SUFFICES ASSUME NEW d \in Active PROVE frames[d] = Windings(d)
    BY DEF Framed
  <2>1. Replays(<< >>, d, PendOf(calls[current], d) \o frames[d], Windings(d))
    BY <1>2, <1>6 DEF DInv, Context
  <2>2. << >> \o frames[d] = frames[d]
    <3>1. frames[d] \in Seq(Frames)
      BY <1>2 DEF Active
    <3> QED BY <3>1, ConcatEmptySeq
  <2>3. Replays(<< >>, d, frames[d], Windings(d))
    BY <1>2, <2>1, <2>2
  <2> QED BY <2>3, ReplaysNone
<1>8. Active' = Active /\ Job.op # "suspended"
  BY <1>1, <1>2 DEF Active
<1>9. calls' = [calls EXCEPT ![current] = r]
  OBVIOUS
<1> HIDE DEF r
<1>10. Passes(calls[current], r, {"close"}) /\ Passes(calls[current], r, {"push-frame"})
  <2>1. \A ops : Passes(r, r, ops)
    BY DEF Passes
  <2> QED BY <1>1, <1>2, <1>3, <2>1, PassesCons
<1>11. RunsOn(r)
  BY <1>2, <1>3, <1>9, <1>10, RunsOnQuiet
<1>12. Idle(JobOf(r)) /\ ~ToPush(r) /\ JobOf(r).op # "wind-in-out"
  BY <1>2, <1>4, StableView DEF Stable
<1>13. \A d \in Active : frames'[d] = IF d = current THEN WindingsOf(r) ELSE Windings(d)
  BY <1>5, <1>7 DEF Framed
<1>14. PlacesInv'
  <2>1. InPushes \subseteq InPushes'
    BY <1>2, <1>9, <1>10, PassesOn
  <2> QED BY <1>2, <1>8, <2>1, PlacesQuiet
<1> QED BY <1>8, <1>11, <1>12, <1>13, <1>14, IdleStep

(* The next frame is wound in.                                              *)
LEMMA WindInKeeps ==
  ASSUME IInv, IInv', SInv, DInv, WindIn
  PROVE  DInv'
<1> DEFINE r == Tail(calls[current])
           w == Top.winder
           e == Head(winders[w])
<1>1. /\ AtTop("wind-in") /\ calls[current] # << >> /\ Top.op = "wind-in"
      /\ UNCHANGED <<current, status, parent, frames, saved, registered, used, dead, around, outs>>
  BY DEF WindIn, AtTop
<1>2. /\ TypeInv /\ TypeInv' /\ LinkInv /\ WaitingInv /\ PlacesInv /\ ShapeInv /\ SavedInv /\ used \in Nat
      /\ current \in Coroutines /\ current \in Active /\ r \in Seq(Activations)
      /\ Job = Top /\ ~ToPush(calls[current]) /\ (\A d : PendOf(calls[current], d) = << >>)
      /\ Windings(current) = AddWinding(Top, WindingsOf(r))
      /\ frames \in [Coroutines -> Seq(Frames)] /\ winders \in [Winders -> Seq(Entries)]
  BY <1>1, AtStep DEF Thunk, IInv, TypeInv, TypeOK
<1>3. /\ Top \in Activations /\ Good(r) /\ calls[current] = <<Top>> \o r
      /\ r # << >> => Follows(Top, Head(r))
  BY <1>1, <1>2, TopSplit
<1>4. CASE winders[w] = << >>
  <2>1. calls' = [calls EXCEPT ![current] = r]
    BY <1>2, <1>4, ConcatEmptySeq DEF WindIn, Continue
  <2>2. UNCHANGED <<winders, ins>>
    BY <1>4 DEF WindIn
  <2> QED BY <1>1, <1>4, <2>1, <2>2, WindInEnds
<1>5. CASE winders[w] # << >>
  <2>1. PICK n \in DOMAIN Top.cos :
          /\ Top.cos[n] = e.co
          /\ winders' = [winders EXCEPT ![w] = Tail(@)]
          /\ CallIn(e.frame)
          /\ calls' = [calls EXCEPT ![current] =
                         (Pushing(e.frame, e.co) \o <<[Top EXCEPT !.cos = SubSeq(@, n, Len(@))]>>) \o r]
    BY <1>5 DEF WindIn, Continue
  <2>2. w \in Winders /\ w # NoWinder /\ Top.cos \in Seq(Coroutines)
    <3>1. w \in Winders /\ Top.cos \in Seq(Coroutines)
      BY <1>1, <1>3, Fields
    <3>2. \A v \in Winders : v # NoWinder
      BY DEF Winders, NoWinder, BoundsAssumption
    <3> QED BY <3>1, <3>2
  <2>3. /\ e \in Entries /\ Tail(winders[w]) \in Seq(Entries) /\ winders[w] = <<e>> \o Tail(winders[w])
        /\ e.co \in Coroutines /\ e.frame \in Frames
    <3>1. e \in Entries /\ Tail(winders[w]) \in Seq(Entries) /\ winders[w] = <<e>> \o Tail(winders[w])
      BY <1>2, <1>5, <2>2, Split
    <3> QED BY <3>1 DEF Entries
  <2>4. JobIs(Top)
    BY <1>2 DEF DInv
  <2>5. \A i \in DOMAIN Top.cos : Top.cos[i] \in Active
    BY <1>1, <2>4 DEF JobIs
  <2>6. /\ SubSeq(Top.cos, n, Len(Top.cos)) \in Seq(Coroutines)
        /\ \A i \in DOMAIN SubSeq(Top.cos, n, Len(Top.cos)) : SubSeq(Top.cos, n, Len(Top.cos))[i] \in Active
    <3>1. PICK q \in Seq(Coroutines) : q = Top.cos
      BY <2>2
    <3>2. n \in 1 .. Len(q) /\ Len(q) \in Nat /\ DOMAIN q = 1 .. Len(q)
      BY <2>1, <3>1
    <3>3. SubSeq(q, n, Len(q)) \in Seq(Coroutines) /\ DOMAIN SubSeq(q, n, Len(q)) = 1 .. Len(q) - n + 1
          /\ \A i \in 1 .. Len(q) - n + 1 : SubSeq(q, n, Len(q))[i] = q[n + i - 1]
      BY <3>2
    <3>4. \A i \in 1 .. Len(q) - n + 1 : n + i - 1 \in DOMAIN q
      BY <3>2
    <3> QED BY <2>5, <3>1, <3>3, <3>4
  <2>7. PICK b \in Activations :
          /\ b = [Top EXCEPT !.cos = SubSeq(Top.cos, n, Len(Top.cos))]
          /\ b.op = "wind-in" /\ b.winder = w /\ b.cos = SubSeq(Top.cos, n, Len(Top.cos))
    <3>1. PICK q \in Seq(Coroutines) : q = SubSeq(Top.cos, n, Len(Top.cos))
      BY <2>6
    <3>2. \E b \in Activations : b = [Top EXCEPT !.cos = q] /\ b.op = "wind-in" /\ b.winder = Top.winder /\ b.cos = q
      BY <1>1, <1>3, Changed
    <3> QED BY <3>1, <3>2
  <2>8. PICK g \in Entries : g = e
    BY <2>3
  <2>9. g.co \in Coroutines /\ g.frame \in Frames
    BY <2>3, <2>8
  <2> DEFINE u == <<b>> \o r
             s == Pushing(g.frame, g.co) \o u
  <2> HIDE DEF r, e
  <2>10. calls' = [calls EXCEPT ![current] = s]
    <3>1. [Top EXCEPT !.cos = SubSeq(@, n, Len(@))] = b
      BY <2>7
    <3>2. Pushing(g.frame, g.co) \in Seq(Activations)
      BY <2>9, PushingIs DEF OnePush
    <3>3. <<b>> \in Seq(Activations)
      BY <2>7
    <3>4. (Pushing(g.frame, g.co) \o <<b>>) \o r = s
      BY <1>2, <3>2, <3>3, ConcatAssociative
    <3> QED BY <2>1, <2>8, <3>1, <3>4
  <2>11. Good(u) /\ u # << >> /\ Head(u) = b /\ WindingsOf(u) = Windings(current)
    <3>1. r # << >> => Follows(b, Head(r))
      BY <1>1, <1>3, <2>7 DEF Follows, Thunk
    <3>2. WindingsOf(u) = AddWinding(b, WindingsOf(r))
      BY <1>2, <2>7, WindingsCons
    <3> QED BY <1>1, <1>2, <1>3, <2>7, <3>1, <3>2, GoodCons DEF Settled, AddWinding
  <2>12. \A ops : Passes(r, u, ops)
    BY <1>2, <2>7, PassesCons
  <2> HIDE DEF u
  <2>13. /\ Good(s) /\ JobOf(s) = b /\ ToPush(s) /\ Head(Bare(s)).co = g.co
         /\ \A d : PendOf(s, d) = IF g.co = d THEN <<g.frame>> ELSE << >>
         /\ WindingsOf(s) = Windings(current)
         /\ \A ops : Passes(r, s, ops)
         /\ Holds(s, [op |-> "push-frame", frame |-> g.frame, co |-> g.co])
    <3>1. Head(u).op \in {"wind-in", "wind-in-out"}
      BY <2>7, <2>11
    <3>2. PICK f \in Frames, c \in Coroutines : f = g.frame /\ c = g.co
      BY <2>9
    <3>3. /\ Good(Pushing(f, c) \o u) /\ JobOf(Pushing(f, c) \o u) = Head(u)
          /\ ToPush(Pushing(f, c) \o u) /\ Head(Bare(Pushing(f, c) \o u)).co = c
          /\ \A d : PendOf(Pushing(f, c) \o u, d) = IF c = d THEN <<f>> ELSE << >>
          /\ WindingsOf(Pushing(f, c) \o u) = WindingsOf(u)
          /\ \A ops : Passes(r, Pushing(f, c) \o u, ops)
          /\ Holds(Pushing(f, c) \o u, [op |-> "push-frame", frame |-> f, co |-> c])
      BY <2>11, <2>12, <3>1, PushingOn
    <3> QED BY <2>11, <3>2, <3>3
  <2> HIDE DEF s
  <2>14. Passes(calls[current], s, {"close"}) /\ Passes(calls[current], s, {"push-frame"})
    <3>1. Top.op \notin {"close"} /\ Top.op \notin {"push-frame"}
      BY <1>1
    <3>2. Passes(<<Top>> \o r, s, {"close"}) /\ Passes(<<Top>> \o r, s, {"push-frame"})
      BY <1>2, <1>3, <2>13, <3>1, PassesCons
    <3> QED BY <1>3, <3>2
  <2>15. InPushes \subseteq InPushes' /\ \A d : Closing(d) => Closing(d)'
    BY <1>1, <1>2, <2>10, <2>14, PassesOn
  <2>16. Winds(Job) /\ Job.winder = w /\ Job.op # "wind-in-out" /\ Job.op # "suspended"
    BY <1>1, <1>2, <2>2 DEF Winds
  <2>17. RunsOn(s)
    <3>1. \A v \in Winders : winders'[v] = winders[v] \/ (Winds(Job) /\ v = Job.winder)
      BY <1>2, <2>1, <2>2, <2>16
    <3> QED BY <1>1, <1>2, <2>10, <2>13, <2>15, <3>1 DEF RunsOn, Good
  <2>18. winders'[w] = Tail(winders[w])
    BY <1>2, <2>1, <2>2
  <2> HIDE DEF w
  <2>19. Active' = Active
    BY <1>1 DEF Active
  <2>20. JobIs(b)' /\ Leaving(b) = {} /\ WorkOf(b)' = Tail(winders[w]) /\ Winds(b)
    BY <1>1, <2>2, <2>6, <2>7, <2>18, <2>19 DEF JobIs, Leaving, WorkOf, Winds
  <2>21. g.co \in Active
    BY <2>1, <2>5, <2>8
  <2>22. \A d \in Active \ Leaving(b) :
           Replays(WorkOf(b)', d, PendOf(s, d) \o frames'[d],
                   IF d = current THEN WindingsOf(s) ELSE Windings(d))
    <3> SUFFICES ASSUME NEW d \in Active
                 PROVE  Replays(Tail(winders[w]), d, PendOf(s, d) \o frames[d], Windings(d))
      BY <1>1, <2>13, <2>20
    <3>1. frames[d] \in Seq(Frames)
      BY <1>2 DEF Active
    <3>2. << >> \o frames[d] = frames[d]
      BY <3>1, ConcatEmptySeq
    <3>3. Replays(winders[w], d, frames[d], Windings(d))
      <4>1. Leaving(Job) = {} /\ WorkOf(Job) = winders[w]
        BY <1>1, <1>2, <2>16 DEF Leaving, WorkOf
      <4>2. Replays(winders[w], d, PendOf(calls[current], d) \o frames[d], Windings(d))
        BY <4>1 DEF DInv, Context
      <4> QED BY <1>2, <3>2, <4>2
    <3>4. PendOf(s, d) \o frames[d] = Wound(g, d, frames[d])
      BY <2>13, <3>2 DEF Wound
    <3>5. Replays(Tail(winders[w]), d, Wound(g, d, frames[d]), Windings(d))
      BY <2>3, <2>8, <3>3, ReplaysCons
    <3> QED BY <3>4, <3>5
  <2>23. PlacesInv'
    <3>1. g.frame \in InPushes'
      <4>1. PICK i \in DOMAIN s : s[i] = [op |-> "push-frame", frame |-> g.frame, co |-> g.co]
        BY <2>13 DEF Holds
      <4>2. s[i].op = "push-frame" /\ s[i].frame = g.frame
        BY <4>1
      <4>3. calls'[current] = s
        BY <1>2, <2>10 DEF TypeInv
      <4> QED BY <1>2, <2>9, <4>2, <4>3 DEF InPushes
    <3>2. \A f \in PlainFrames : ins'[f] = outs'[f] + 1 => f \in InFrames' \cup InPushes'
      <4>1. CallIn(g.frame) /\ InPushes \cup {g.frame} \subseteq InPushes' /\ UNCHANGED <<frames, outs>>
        BY <1>1, <2>1, <2>8, <2>15, <3>1
      <4> QED BY <1>2, <2>9, <4>1, ScopeEnter
    <3>3. \A d \in Coroutines : frames'[d] = frames[d] \/ d \in Active
      BY <1>1
    <3> QED BY <1>2, <2>17, <3>2, <3>3, PlacesRun
  <2>24. b = JobOf(s) /\ b.op # "wind-in-out" /\ b.winder = Job.winder
    BY <2>7, <2>13, <2>16
  <2> QED BY <1>2, <2>13, <2>16, <2>17, <2>20, <2>21, <2>22, <2>23, <2>24, GoOn
<1> QED BY <1>4, <1>5

(* The finally blocks of a winder have all been called.                     *)
LEMMA WindInOutEnds ==
  ASSUME IInv, IInv', SInv, DInv, AtTop("wind-in-out"),
         calls' = [calls EXCEPT ![current] = Tail(calls[current])],
         UNCHANGED <<current, status, parent, frames, saved, registered, winders, used, dead, ins, outs>>
  PROVE  DInv'
<1> DEFINE r == Tail(calls[current])
<1>1. calls[current] # << >> /\ Top.op = "wind-in-out"
  BY DEF AtTop
<1>2. /\ TypeInv /\ LinkInv /\ WaitingInv /\ PlacesInv /\ ShapeInv /\ SavedInv /\ used \in Nat
      /\ current \in Coroutines /\ current \in Active /\ r \in Seq(Activations)
      /\ Job = Top /\ Framed /\ Windings(current) = AddWinding(Top, WindingsOf(r))
  BY <1>1, AtStep DEF Thunk, Idle
<1>3. /\ Top \in Activations /\ Good(r) /\ calls[current] = <<Top>> \o r
      /\ r # << >> => Follows(Top, Head(r))
  BY <1>1, <1>2, TopSplit
<1>4. r # << >> => Stable(Head(r)) \/ Head(r).op = "close"
  BY <1>1, <1>3 DEF Follows, Stable
<1>5. WindingsOf(r) = Windings(current)
  BY <1>1, <1>2 DEF AddWinding
<1>6. Active' = Active /\ Job.op # "suspended"
  BY <1>1, <1>2 DEF Active
<1>7. calls' = [calls EXCEPT ![current] = r]
  OBVIOUS
<1> HIDE DEF r
<1>8. Passes(calls[current], r, {"close"}) /\ Passes(calls[current], r, {"push-frame"})
  <2>1. \A ops : Passes(r, r, ops)
    BY DEF Passes
  <2>2. Top.op \notin {"close"} /\ Top.op \notin {"push-frame"}
    BY <1>1
  <2> QED BY <1>2, <1>3, <2>1, <2>2, PassesCons
<1>9. RunsOn(r)
  BY <1>2, <1>3, <1>7, <1>8, RunsOnQuiet
<1>10. Idle(JobOf(r)) /\ ~ToPush(r) /\ JobOf(r).op # "wind-in-out"
  BY <1>2, <1>4, StableView
<1>11. \A d \in Active : frames'[d] = IF d = current THEN WindingsOf(r) ELSE Windings(d)
  BY <1>2, <1>5 DEF Framed
<1>12. PlacesInv'
  <2>1. InPushes \subseteq InPushes'
    BY <1>2, <1>7, <1>8, PassesOn
  <2> QED BY <1>2, <1>6, <2>1, PlacesQuiet
<1> QED BY <1>6, <1>9, <1>10, <1>11, <1>12, IdleStep

(* The next one: its frame is entered on the stack of the running coroutine.*)
LEMMA WindInOutKeeps ==
  ASSUME IInv, IInv', SInv, DInv, WindInOut
  PROVE  DInv'
<1> DEFINE r == Tail(calls[current])
           w == Top.winder
<1>1. /\ AtTop("wind-in-out") /\ calls[current] # << >> /\ Top.op = "wind-in-out"
      /\ UNCHANGED <<current, status, parent, frames, saved, registered, used, dead, around, outs>>
  BY DEF WindInOut, AtTop
<1>2. /\ TypeInv /\ TypeInv' /\ LinkInv /\ WaitingInv /\ PlacesInv /\ ShapeInv /\ SavedInv /\ used \in Nat
      /\ current \in Coroutines /\ current \in Active /\ r \in Seq(Activations)
      /\ Job = Top /\ Framed /\ Windings(current) = AddWinding(Top, WindingsOf(r))
      /\ frames \in [Coroutines -> Seq(Frames)] /\ winders \in [Winders -> Seq(Entries)]
  BY <1>1, AtStep DEF Thunk, Idle, IInv, TypeInv, TypeOK
<1>3. /\ Top \in Activations /\ Good(r) /\ calls[current] = <<Top>> \o r
      /\ r # << >> => Follows(Top, Head(r))
  BY <1>1, <1>2, TopSplit
<1>4. CASE Top.left = 0
  <2>1. calls' = [calls EXCEPT ![current] = r]
    BY <1>2, <1>4, ConcatEmptySeq DEF WindInOut, Continue
  <2>2. UNCHANGED <<winders, ins>>
    BY <1>4 DEF WindInOut
  <2> QED BY <1>1, <2>1, <2>2, WindInOutEnds
<1>5. CASE Top.left # 0
  <2>1. /\ winders[w] # << >>
        /\ winders' = [winders EXCEPT ![w] = Tail(@)]
        /\ CallIn(Head(winders[w]).frame)
        /\ calls' = [calls EXCEPT ![current] =
                       (Pushing(Head(winders[w]).frame, current)
                          \o <<[Top EXCEPT !.left = @ - 1],
                               [op |-> "dynamic-wind", frame |-> Head(winders[w]).frame]>>) \o r]
    BY <1>5 DEF WindInOut, Continue
  <2>2. w \in Winders /\ Top.left - 1 \in Nat
    <3>1. w \in Winders /\ Top.left \in Nat
      BY <1>1, <1>3, Fields
    <3> QED BY <1>5, <3>1
  <2>3. PICK f \in Frames : f = Head(winders[w]).frame
    <3>1. Head(winders[w]) \in Entries
      BY <1>2, <2>1, <2>2, Split
    <3> QED BY <3>1 DEF Entries
  <2>4. PICK x \in Activations :
          x = [Top EXCEPT !.left = Top.left - 1] /\ x.op = "wind-in-out" /\ x.winder = w
    <3>1. PICK n \in Nat : n = Top.left - 1
      BY <2>2
    <3>2. \E b \in Activations : b = [Top EXCEPT !.left = n] /\ b.op = "wind-in-out" /\ b.winder = Top.winder
      BY <1>1, <1>3, Changed
    <3> QED BY <3>1, <3>2
  <2>5. PICK y \in Activations :
          y = [op |-> "dynamic-wind", frame |-> f] /\ y.op = "dynamic-wind" /\ y.frame = f
    <3>1. [op |-> "dynamic-wind", frame |-> f] \in Activations
      BY DEF Activations
    <3> QED BY <3>1
  <2> DEFINE u == <<y>> \o r
             v == <<x>> \o u
             t == Pushing(f, current) \o v
  <2> HIDE DEF r
  <2>6. calls' = [calls EXCEPT ![current] = t]
    <3>1. calls' = [calls EXCEPT ![current] = (Pushing(f, current) \o <<x, y>>) \o r]
      <4>1. [Top EXCEPT !.left = @ - 1] = x
        BY <2>4
      <4> QED BY <2>1, <2>3, <2>5, <4>1
    <3>2. PICK p \in Seq(Activations) : p = Pushing(f, current)
      BY <1>2, PushingIs DEF OnePush
    <3>3. <<x, y>> \in Seq(Activations) /\ <<x, y>> \o r = <<x>> \o (<<y>> \o r)
      BY <1>2, PairOn
    <3>4. (p \o <<x, y>>) \o r = p \o (<<x, y>> \o r)
      BY <1>2, <3>3, ConcatAssociative
    <3> QED BY <3>1, <3>2, <3>3, <3>4
  <2>7. Good(u) /\ u # << >> /\ Head(u) = y /\ WindingsOf(u) = <<f>> \o Windings(current)
    <3>1. r # << >> => Follows(y, Head(r))
      BY <1>1, <1>3, <2>5 DEF Follows, Thunk
    <3>2. WindingsOf(u) = AddWinding(y, WindingsOf(r))
      BY <1>2, WindingsCons
    <3>3. WindingsOf(r) = Windings(current)
      BY <1>1, <1>2 DEF AddWinding
    <3> QED BY <1>3, <2>5, <3>1, <3>2, <3>3, GoodCons DEF Settled, AddWinding
  <2>8. \A ops : Passes(r, u, ops)
    <3>1. \A ops : Passes(r, r, ops)
      BY DEF Passes
    <3> QED BY <1>2, <3>1, PassesCons
  <2> HIDE DEF u
  <2>9. Good(v) /\ v # << >> /\ Head(v) = x /\ WindingsOf(v) = <<f>> \o Windings(current)
    <3>1. Follows(x, Head(u))
      BY <2>4, <2>5, <2>7 DEF Follows, Thunk
    <3>2. WindingsOf(v) = AddWinding(x, WindingsOf(u))
      BY <2>7, WindingsCons DEF Good
    <3> QED BY <2>4, <2>7, <3>1, <3>2, GoodCons DEF Settled, AddWinding
  <2>10. \A ops : Passes(r, v, ops)
    BY <2>7, <2>8, PassesCons DEF Good
  <2> HIDE DEF v
  <2>11. /\ Good(t) /\ JobOf(t) = x /\ ToPush(t) /\ Head(Bare(t)).co = current
         /\ \A d : PendOf(t, d) = IF current = d THEN <<f>> ELSE << >>
         /\ WindingsOf(t) = <<f>> \o Windings(current)
         /\ \A ops : Passes(r, t, ops)
         /\ Holds(t, [op |-> "push-frame", frame |-> f, co |-> current])
    <3>1. Head(v).op \in {"wind-in", "wind-in-out"}
      BY <2>4, <2>9
    <3>2. PICK c \in Coroutines : c = current
      BY <1>2
    <3>3. /\ Good(Pushing(f, c) \o v) /\ JobOf(Pushing(f, c) \o v) = Head(v)
          /\ ToPush(Pushing(f, c) \o v) /\ Head(Bare(Pushing(f, c) \o v)).co = c
          /\ \A d : PendOf(Pushing(f, c) \o v, d) = IF c = d THEN <<f>> ELSE << >>
          /\ WindingsOf(Pushing(f, c) \o v) = WindingsOf(v)
          /\ \A ops : Passes(r, Pushing(f, c) \o v, ops)
          /\ Holds(Pushing(f, c) \o v, [op |-> "push-frame", frame |-> f, co |-> c])
      BY <2>9, <2>10, <3>1, PushingOn
    <3> QED BY <2>9, <3>2, <3>3
  <2> HIDE DEF t
  <2>12. Passes(calls[current], t, {"close"}) /\ Passes(calls[current], t, {"push-frame"})
    <3>1. Top.op \notin {"close"} /\ Top.op \notin {"push-frame"}
      BY <1>1
    <3>2. Passes(<<Top>> \o r, t, {"close"}) /\ Passes(<<Top>> \o r, t, {"push-frame"})
      BY <1>2, <1>3, <2>11, <3>1, PassesCons
    <3> QED BY <1>3, <3>2
  <2>13. InPushes \subseteq InPushes' /\ \A d : Closing(d) => Closing(d)'
    BY <1>1, <1>2, <2>6, <2>12, PassesOn
  <2>14. RunsOn(t)
    <3>1. \A z \in Winders : winders'[z] = winders[z] \/ (Job.op = "wind-in-out" /\ z = Job.winder)
      BY <1>1, <1>2, <2>1, <2>2
    <3> QED BY <1>1, <1>2, <2>6, <2>11, <2>13, <3>1 DEF RunsOn, Good
  <2>15. WinderIs(JobOf(t).winder)
    <3>1. WinderIs(Job.winder)
      BY <1>1, <1>2, <2>14, SameWinder
    <3> QED BY <1>2, <2>4, <2>11, <3>1
  <2>16. /\ Active' = Active /\ Job' = x /\ calls'[current] = t /\ current' = current
         /\ \A d \in Coroutines : d # current => calls'[d] = calls[d]
    <3>1. Job.op # "suspended"
      BY <1>1, <1>2
    <3> QED BY <1>1, <1>2, <2>11, <2>14, <2>15, <3>1, RunKeeps
  <2>17. PushIs'
    BY <1>2, <2>11, <2>16 DEF PushIs
  <2>18. Leaving(x)' = {} /\ WorkOf(x)' = << >> /\ JobIs(Job)'
    BY <2>4, <2>16 DEF Leaving, WorkOf, Winds, JobIs
  <2>19. Context'
    <3> SUFFICES ASSUME NEW d \in Active
                 PROVE  Replays(<< >>, d, PendOf(t, d) \o frames'[d], WindingsOf(calls'[d]))
      BY <2>4, <2>16, <2>18 DEF Context, Windings, WorkOf, Winds, Leaving
    <3>1. frames[d] = WindingsOf(calls[d]) /\ frames'[d] = frames[d] /\ frames[d] \in Seq(Frames) /\ d \in Coroutines
      BY <1>1, <1>2 DEF Framed, Windings, Active
    <3>2. PendOf(t, d) \o frames'[d] = WindingsOf(calls'[d])
      <4>1. << >> \o frames[d] = frames[d]
        BY <3>1, ConcatEmptySeq
      <4> QED BY <2>11, <2>16, <3>1, <4>1 DEF Windings
    <3> QED BY <3>2, ReplaysNone
  <2>20. PlacesInv'
    <3>1. f \in InPushes'
      <4>1. PICK i \in DOMAIN t : t[i] = [op |-> "push-frame", frame |-> f, co |-> current]
        BY <2>11 DEF Holds
      <4>2. t[i].op = "push-frame" /\ t[i].frame = f
        BY <4>1
      <4> QED BY <1>2, <2>16, <4>2 DEF InPushes
    <3>2. \A g \in PlainFrames : ins'[g] = outs'[g] + 1 => g \in InFrames' \cup InPushes'
      BY <1>1, <1>2, <2>1, <2>3, <2>13, <3>1, ScopeEnter
    <3>3. \A d \in Coroutines : frames'[d] = frames[d] \/ d \in Active
      BY <1>1
    <3> QED BY <1>2, <2>14, <3>2, <3>3, PlacesRun
  <2>21. Job.op # "suspended"
    BY <1>1, <1>2
  <2> QED BY <1>2, <2>14, <2>15, <2>17, <2>18, <2>19, <2>20, <2>21, RunParts
<1> QED BY <1>4, <1>5

(* An open coroutine keeps the winder that is saved for it.                 *)
LEMMA KeptIs ==
  ASSUME TypeInv, LinkInv, WaitingInv, NEW c \in Coroutines, Ready(c), saved[c] # NoWinder
  PROVE  Keeps(c, saved[c]) /\ saved[c] \in Winders /\ saved[c] <= used
<1>1. saved[c] \in Winders
  BY DEF TypeInv, TypeOK
<1>2. PICK l \in Up(c) : parent[l] = None
  <2>1. LinkType /\ Ranked
    BY DEF TypeInv, TypeOK, LinkType, LinkInv
  <2>2. /\ ToSet(ChainFrom(c)) \subseteq Coroutines
        /\ Last(ChainFrom(c)) \in ToSet(ChainFrom(c)) /\ parent[Last(ChainFrom(c))] = None
    BY <2>1, ChainSet
  <2> QED BY <2>2 DEF Up
<1>3. WaitsWell(c, l)
  BY <1>2 DEF WaitingInv
<1> QED BY <1>1, <1>2, <1>3 DEF Keeps, WaitsWell

(* Nothing is being closed where program code runs that is no thunk.        *)
LEMMA NothingClosing ==
  ASSUME TypeInv, ShapeInv, calls[current] # << >>, Settled(Top)
  PROVE  \A e : ~Closing(e)
<1>1. /\ Top \in Activations /\ Tail(calls[current]) \in Seq(Activations)
      /\ calls[current] = <<Top>> \o Tail(calls[current]) /\ AllStable(Tail(calls[current]))
  BY TopSplit DEF Good
<1>2. \A i \in DOMAIN calls[current] : Stable(calls[current][i])
  <2>1. AllStable(<<Top>> \o Tail(calls[current]))
    BY <1>1, SortedCons DEF Stable
  <2> QED BY <1>1, <2>1 DEF AllStable
<1> QED BY <1>2 DEF Closing, Stable, Settled

(* The finalizer of a coroutine runs, which is closed or found dead.        *)
RunsFor(c, r) ==
  /\ c \in Coroutines /\ Ready(c) /\ ~Ready(c)'
  /\ Good(r) /\ r # << >> /\ (Settled(Head(r)) \/ Head(r).op = "close")
  /\ calls' = [calls EXCEPT ![current] =
                 (IF saved[c] = NoWinder THEN << >>
                  ELSE <<[op |-> "wind-in-out", winder |-> saved[c],
                          left |-> NumFinallyBlocks(saved[c])]>>) \o r]
  /\ saved' = [saved EXCEPT ![c] = NoWinder]
  /\ Passes(calls[current], r, {"close"}) /\ Passes(calls[current], r, {"push-frame"})
  /\ Framed /\ WindingsOf(r) = Windings(current) /\ Job.op # "suspended"
  /\ dead \subseteq dead'
  /\ UNCHANGED <<current, status, parent, frames, winders, used, ins, outs>>
(* To run the finally blocks that were saved keeps the invariant.           *)
LEMMA RunSavedOn ==
  ASSUME IInv, IInv', SInv, DInv, NEW c, NEW r, RunsFor(c, r)
  PROVE  DInv'
<1>1. /\ TypeInv /\ LinkInv /\ ShapeInv /\ WaitingInv /\ PlacesInv /\ used \in Nat
      /\ winders \in [Winders -> Seq(Entries)] /\ saved \in [Coroutines -> Winders \cup {NoWinder}]
  <2>1. TypeInv /\ LinkInv /\ ShapeInv /\ WaitingInv /\ PlacesInv
    BY DEF IInv, SInv, DInv
  <2> QED BY <2>1, WindersTyped
<1>2. /\ c \in Coroutines /\ Ready(c) /\ ~Ready(c)' /\ Good(r) /\ r # << >>
      /\ Settled(Head(r)) \/ Head(r).op = "close"
      /\ Passes(calls[current], r, {"close"}) /\ Passes(calls[current], r, {"push-frame"})
      /\ Framed /\ WindingsOf(r) = Windings(current) /\ Job.op # "suspended"
      /\ UNCHANGED <<current, status, parent, frames, winders, used, ins, outs>>
      /\ dead \subseteq dead'
  BY DEF RunsFor
<1>3. \A d \in Coroutines : saved'[d] \in {saved[d], NoWinder}
  BY <1>1 DEF RunsFor
<1>4. Active' = Active
  BY <1>2 DEF Active
<1>5. ASSUME NEW s, Good(s), calls' = [calls EXCEPT ![current] = s],
             Passes(calls[current], s, {"close"}), Passes(calls[current], s, {"push-frame"}),
             Idle(JobOf(s)), ~ToPush(s), WindingsOf(s) = WindingsOf(r),
             JobOf(s).op = "wind-in-out" => saved[c] # NoWinder /\ JobOf(s).winder = saved[c]
      PROVE  DInv'
  <2>1. RunsOn(s)
    BY <1>1, <1>2, <1>3, <1>5, RunsOnQuiet
  <2>2. JobOf(s).op = "wind-in-out" => WinderIs(JobOf(s).winder)
    <3> SUFFICES ASSUME saved[c] # NoWinder PROVE WinderIs(saved[c])
      BY <1>5
    <3>1. Keeps(c, saved[c]) /\ saved[c] \in Winders /\ saved[c] <= used
      BY <1>1, <1>2, KeptIs
    <3>2. ASSUME NEW e \in Coroutines, Ready(e)', Keeps(e, saved[c]) PROVE FALSE
      <4>1. e = c
        BY <1>1, <1>2, <3>1, <3>2 DEF WaitingInv
      <4> QED BY <1>2, <3>2, <4>1 DEF Ready, Closing
    <3> QED BY <1>2, <3>1, <3>2 DEF WinderIs
  <2>3. \A d \in Active : frames'[d] = IF d = current THEN WindingsOf(s) ELSE Windings(d)
    BY <1>2, <1>5 DEF Framed
  <2>4. PlacesInv'
    <3>1. InPushes \subseteq InPushes'
      BY <1>1, <1>2, <1>5, PassesOn
    <3> QED BY <1>1, <1>2, <1>4, <3>1, PlacesQuiet
  <2> QED BY <1>2, <1>5, <2>1, <2>2, <2>3, <2>4, IdleStep
<1>6. CASE saved[c] = NoWinder
  <2>1. calls' = [calls EXCEPT ![current] = r]
    BY <1>2, <1>6, ConcatEmptySeq DEF RunsFor, Good
  <2>2. Idle(JobOf(r)) /\ ~ToPush(r) /\ JobOf(r).op # "wind-in-out"
    BY <1>2, StableView DEF Good, Stable
  <2> QED BY <1>2, <1>5, <2>1, <2>2
<1>7. CASE saved[c] # NoWinder
  <2>1. PICK x \in Activations : /\ x = [op |-> "wind-in-out", winder |-> saved[c],
                                        left |-> NumFinallyBlocks(saved[c])]
                                 /\ x.op = "wind-in-out" /\ x.winder = saved[c]
    <3>1. saved[c] \in Winders
      BY <1>1, <1>2, <1>7
    <3>2. NumFinallyBlocks(saved[c]) \in Nat
      BY <1>1, <3>1, NumFinallyIs
    <3>3. [op |-> "wind-in-out", winder |-> saved[c], left |-> NumFinallyBlocks(saved[c])] \in Activations
      BY <3>1, <3>2 DEF Activations
    <3> QED BY <3>3
  <2> DEFINE s == <<x>> \o r
  <2>2. calls' = [calls EXCEPT ![current] = s]
    BY <1>7, <2>1 DEF RunsFor
  <2>3. Good(s)
    <3>1. Follows(x, Head(r))
      BY <1>2, <2>1 DEF Follows, Thunk
    <3> QED BY <1>2, <2>1, <3>1, GoodCons DEF Settled
  <2>4. JobOf(s) = x /\ ~ToPush(s) /\ WindingsOf(s) = WindingsOf(r)
    BY <1>2, <2>1, ViewJob DEF Thunk, AddWinding, Good
  <2>5. Passes(calls[current], s, {"close"}) /\ Passes(calls[current], s, {"push-frame"})
    BY <1>2, PassesCons DEF Good
  <2>6. Idle(x)
    BY <2>1 DEF Idle
  <2> HIDE DEF s
  <2> QED BY <1>5, <1>7, <2>1, <2>2, <2>3, <2>4, <2>5, <2>6
<1> QED BY <1>6, <1>7

(* The finalizer runs before close-coroutine.                               *)
LEMMA CloseKeeps ==
  ASSUME IInv, IInv', SInv, DInv, ~thrown', NEW c \in Coroutines, Close(c)
  PROVE  DInv'
<1> DEFINE q == calls[current]
           wio == IF saved[c] = NoWinder THEN << >>
                  ELSE <<[op |-> "wind-in-out", winder |-> saved[c],
                          left |-> NumFinallyBlocks(saved[c])]>>
<1>1. /\ q # << >> /\ Top.op = "body" /\ ~Top.thunk
      /\ status[c] = "open" /\ c \notin dead
      /\ calls' = [calls EXCEPT ![current] = (wio \o <<[op |-> "close", co |-> c]>>) \o q]
      /\ saved' = [saved EXCEPT ![c] = NoWinder]
      /\ UNCHANGED <<current, status, parent, frames, winders, used, dead, ins, outs>>
  BY DEF Close, RunSaved, May, AtTop, Call
<1>2. /\ TypeInv /\ ShapeInv /\ current \in Coroutines /\ Job = Top /\ Framed
      /\ winders \in [Winders -> Seq(Entries)] /\ saved \in [Coroutines -> Winders \cup {NoWinder}]
  BY <1>1, AtStep DEF Thunk, Idle, TypeInv, TypeOK
<1>3. Top \in Activations /\ Good(q)
  BY <1>1, <1>2, TopSplit
<1>4. Ready(c)
  BY <1>1, <1>2, NothingClosing DEF Ready, Settled
<1>5. PICK y \in Activations : y = [op |-> "close", co |-> c] /\ y.op = "close" /\ y.co = c
  <2>1. [op |-> "close", co |-> c] \in Activations
    BY DEF Activations
  <2> QED BY <2>1
<1> DEFINE r == <<y>> \o q
<1>6. Settled(Head(q)) /\ WindingsOf(q) = Windings(current)
  BY <1>1 DEF Settled, Top, Windings
<1>7. wio \in Seq(Activations)
  <2>1. CASE saved[c] = NoWinder
    BY <2>1
  <2>2. CASE saved[c] # NoWinder
    <3>1. saved[c] \in Winders
      BY <1>2, <2>2
    <3>2. NumFinallyBlocks(saved[c]) \in Nat
      BY <1>2, <3>1, NumFinallyIs
    <3>3. [op |-> "wind-in-out", winder |-> saved[c], left |-> NumFinallyBlocks(saved[c])] \in Activations
      BY <3>1, <3>2 DEF Activations
    <3> QED BY <2>2, <3>3
  <2> QED BY <2>1, <2>2
<1>8. q = calls[current]
  OBVIOUS
<1> HIDE DEF wio, q
<1>9. calls' = [calls EXCEPT ![current] = wio \o r]
  <2>1. <<y>> \in Seq(Activations) /\ q \in Seq(Activations)
    BY <1>3, <1>5 DEF Good
  <2>2. (wio \o <<y>>) \o q = wio \o (<<y>> \o q)
    BY <1>7, <2>1, ConcatAssociative
  <2> QED BY <1>1, <1>5, <2>2
<1>10. Good(r) /\ r # << >> /\ Head(r) = y
  <2>1. Follows(y, Head(q))
    BY <1>5, <1>6 DEF Follows, Thunk
  <2> QED BY <1>3, <1>5, <2>1, GoodCons DEF Settled
<1>11. WindingsOf(r) = Windings(current)
  <2>1. WindingsOf(r) = AddWinding(y, WindingsOf(q))
    BY <1>3, <1>5, WindingsCons DEF Good
  <2> QED BY <1>5, <1>6, <2>1 DEF AddWinding
<1>12. Passes(calls[current], r, {"close"}) /\ Passes(calls[current], r, {"push-frame"}) /\ Holds(r, y)
  BY <1>3, <1>5, <1>8, PassesCons DEF Good
<1> HIDE DEF r
<1>13. ~Ready(c)'
  <2>1. Holds(wio \o r, y)
    <3>1. PICK i \in DOMAIN r : r[i] = y
      BY <1>12 DEF Holds
    <3>2. r \in Seq(Activations)
      BY <1>10 DEF Good
    <3>3. Len(wio) + i \in DOMAIN (wio \o r) /\ (wio \o r)[Len(wio) + i] = r[i]
      <4>1. Len(wio) \in Nat /\ Len(r) \in Nat /\ DOMAIN r = 1 .. Len(r)
        BY <1>7, <3>2
      <4>2. i \in 1 .. Len(r)
        BY <4>1
      <4> QED BY <1>7, <3>2, <4>1, <4>2, ConcatProperties
    <3> QED BY <3>1, <3>3 DEF Holds
  <2>2. calls'[current] = wio \o r
    BY <1>2, <1>9 DEF TypeInv
  <2>3. Closing(c)'
    BY <1>1, <1>5, <2>1, <2>2 DEF Closing, Holds
  <2> QED BY <2>3 DEF Ready
<1>14. RunsFor(c, r)
  <2>1. Job.op # "suspended"
    BY <1>1, <1>2
  <2>2. Head(r).op = "close"
    BY <1>5, <1>10
  <2> QED BY <1>1, <1>2, <1>4, <1>9, <1>10, <1>11, <1>12, <1>13, <2>1, <2>2 DEF RunsFor, wio
<1> QED BY <1>14, RunSavedOn

(* The finalizer runs because the collector found the coroutine unreachable.*)
LEMMA CollectKeeps ==
  ASSUME IInv, IInv', SInv, DInv, ~thrown', NEW c \in Coroutines, Collect(c)
  PROVE  DInv'
<1> DEFINE q == calls[current]
           wio == IF saved[c] = NoWinder THEN << >>
                  ELSE <<[op |-> "wind-in-out", winder |-> saved[c],
                          left |-> NumFinallyBlocks(saved[c])]>>
<1>1. /\ q # << >> /\ Top.op = "body" /\ ~Top.thunk
      /\ status[c] = "open" /\ c \notin dead /\ dead' = dead \cup {c}
      /\ calls' = [calls EXCEPT ![current] = (wio \o << >>) \o q]
      /\ saved' = [saved EXCEPT ![c] = NoWinder]
      /\ UNCHANGED <<current, status, parent, frames, winders, used, ins, outs>>
  BY DEF Collect, RunSaved, May, AtTop, Call
<1>2. /\ TypeInv /\ ShapeInv /\ current \in Coroutines /\ Job = Top /\ Framed
      /\ winders \in [Winders -> Seq(Entries)] /\ saved \in [Coroutines -> Winders \cup {NoWinder}]
  BY <1>1, AtStep DEF Thunk, Idle, TypeInv, TypeOK
<1>3. Top \in Activations /\ Good(q)
  BY <1>1, <1>2, TopSplit
<1>4. Ready(c) /\ ~Ready(c)'
  BY <1>1, <1>2, NothingClosing DEF Ready, Settled
<1>5. Settled(Head(q)) /\ WindingsOf(q) = Windings(current)
  BY <1>1 DEF Settled, Top, Windings
<1>6. wio \o << >> = wio
  <2>1. CASE saved[c] = NoWinder
    BY <2>1
  <2>2. CASE saved[c] # NoWinder
    <3>1. saved[c] \in Winders
      BY <1>2, <2>2
    <3>2. NumFinallyBlocks(saved[c]) \in Nat
      BY <1>2, <3>1, NumFinallyIs
    <3>3. [op |-> "wind-in-out", winder |-> saved[c], left |-> NumFinallyBlocks(saved[c])] \in Activations
      BY <3>1, <3>2 DEF Activations
    <3>4. wio \in Seq(Activations)
      BY <2>2, <3>3
    <3> HIDE DEF wio
    <3> QED BY <3>4, ConcatEmptySeq
  <2> QED BY <2>1, <2>2
<1> HIDE DEF wio
<1>7. calls' = [calls EXCEPT ![current] = wio \o q]
  BY <1>1, <1>6
<1>8. Passes(calls[current], q, {"close"}) /\ Passes(calls[current], q, {"push-frame"})
  BY DEF Passes
<1> HIDE DEF q
<1>9. RunsFor(c, q)
  <2>1. Job.op # "suspended" /\ dead \subseteq dead'
    BY <1>1, <1>2
  <2> QED BY <1>1, <1>2, <1>3, <1>4, <1>5, <1>7, <1>8, <2>1 DEF RunsFor, wio
<1> QED BY <1>9, RunSavedOn

(* A coroutine that does not run: what it would go on with.                 *)
LEMMA ParkedView ==
  ASSUME TypeInv, ShapeInv, NEW l \in Coroutines, l # current, calls[l] # << >>
  PROVE  \E a \in Activations :
           /\ a = Head(calls[l]) /\ calls[l] = <<a>> \o Tail(calls[l])
           /\ Tail(calls[l]) \in Seq(Activations) /\ AllStable(Tail(calls[l]))
           /\ Stable(a) \/ a.op \in {"suspended", "break"}
           /\ JobOf(calls[l]) = a /\ ~ToPush(calls[l]) /\ \A d : PendOf(calls[l], d) = << >>
<1>1. /\ Head(calls[l]) \in Activations /\ Tail(calls[l]) \in Seq(Activations)
      /\ calls[l] = <<Head(calls[l])>> \o Tail(calls[l])
  BY Split DEF TypeInv
<1>2. PICK a \in Activations : a = Head(calls[l])
  BY <1>1
<1>3. PICK r \in Seq(Activations) : r = Tail(calls[l])
  BY <1>1
<1>4. Parked(<<a>> \o r)
  <2>1. Parked(calls[l])
    BY DEF ShapeInv
  <2> QED BY <1>1, <1>2, <1>3, <2>1
<1>5. AllStable(r) /\ (Stable(a) \/ a.op \in {"suspended", "break"})
  BY <1>4, SortedCons
<1>6. ~Thunk(a) /\ a.op # "push-frame"
  BY <1>5 DEF Stable, Settled, Thunk
<1>7. JobOf(<<a>> \o r) = a /\ ~ToPush(<<a>> \o r) /\ \A d : PendOf(<<a>> \o r, d) = << >>
  BY <1>6, ViewJob
<1> QED BY <1>1, <1>2, <1>3, <1>5, <1>7

(* Frames that are about to be pushed still are, if no stack loses one.     *)
LEMMA PushesStay ==
  ASSUME \A c \in Coroutines : Passes(calls[c], calls'[c], {"push-frame"})
  PROVE  InPushes \subseteq InPushes'
<1> SUFFICES ASSUME NEW f \in InPushes PROVE f \in InPushes'
  OBVIOUS
<1>1. PICK c \in Coroutines : \E i \in DOMAIN calls[c] : calls[c][i].op = "push-frame" /\ calls[c][i].frame = f
  BY DEF InPushes
<1>2. PICK i \in DOMAIN calls[c] : calls[c][i].op = "push-frame" /\ calls[c][i].frame = f
  BY <1>1
<1>3. \E j \in DOMAIN calls'[c] : calls'[c][j] = calls[c][i]
  BY <1>2 DEF Passes, Holds
<1> QED BY <1>2, <1>3 DEF InPushes

(* resume: the coroutine that runs then goes on where it waited.            *)
LEMMA ResumeKeeps ==
  ASSUME IInv, IInv', SInv, SInv', DInv, ~thrown', NEW c \in Coroutines, Resume(c)
  PROVE  DInv'
<1>1. /\ calls[current] # << >> /\ Top.op = "body" /\ ~Top.thunk
      /\ status[c] = "open" /\ c \notin dead /\ Attach(c)
      /\ calls' = [calls EXCEPT ![current] = <<[op |-> "resume", co |-> c]>> \o @]
      /\ UNCHANGED <<frames, saved, winders, used, dead, ins, outs>>
  BY DEF Resume, May, AtTop, Call
<1>2. /\ TypeInv /\ LinkInv /\ ShapeInv /\ WaitingInv /\ SavedInv /\ PlacesInv /\ used \in Nat
      /\ current \in Coroutines /\ current \in Active /\ Job = Top /\ Framed
      /\ calls \in [Coroutines -> Seq(Activations)] /\ frames \in [Coroutines -> Seq(Frames)]
      /\ winders \in [Winders -> Seq(Entries)]
  BY <1>1, AtStep DEF Thunk, Idle, TypeInv, TypeOK
<1>3. LinkInv' /\ LinkType' /\ LinkType /\ Ranked
  BY DEF IInv, SInv, TypeInv, TypeOK, LinkType, LinkInv
<1>4. PICK T : T = Up(c)
  OBVIOUS
<1>5. Attached(c, T)
  BY <1>1, <1>2, <1>4, AttachedIs DEF Up
<1>6. PICK l \in Coroutines : l = current' /\ l \in T /\ parent[l] = None
  BY <1>5 DEF Attached
<1>7. Ready(c) /\ \A e : ~Closing(e)
  BY <1>1, <1>2, NothingClosing DEF Ready, Settled
<1>8. WaitsWell(c, l) /\ l # current
  <2>1. WaitsWell(c, l)
    BY <1>2, <1>4, <1>6, <1>7 DEF WaitingInv
  <2>2. status[l] # "active"
    BY <1>5, <1>6 DEF Attached
  <2> QED BY <1>2, <2>1, <2>2 DEF Active
<1>9. PICK a \in Activations :
        /\ a = Head(calls[l]) /\ (Stable(a) \/ a.op \in {"suspended", "break"})
        /\ JobOf(calls[l]) = a /\ ~ToPush(calls[l]) /\ \A d : PendOf(calls[l], d) = << >>
  BY <1>2, <1>6, <1>8, ParkedView DEF WaitsWell
<1>10. /\ a.op \in {"body", "suspended"}
       /\ a.op = "suspended" => a.co = c /\ a.winder <= used /\ EntriesIn(a.winder, T) /\ a.winder \in Winders
       /\ saved[c] # NoWinder => a.op = "suspended" /\ a.winder = saved[c]
       /\ \A d \in T : Replays(WorkOf(a), d, << >>, Windings(d))
  BY <1>4, <1>8, <1>9, Fields DEF WaitsWell
<1>11. PICK x \in Activations : x = [op |-> "resume", co |-> c] /\ x.op = "resume"
  <2>1. [op |-> "resume", co |-> c] \in Activations
    BY DEF Activations
  <2> QED BY <2>1
<1> DEFINE q == calls[current]
           s == <<x>> \o q
<1>12. \A d \in Coroutines : calls'[d] = IF d = current THEN s ELSE calls[d]
  BY <1>1, <1>2, <1>11
<1>13. Good(s) /\ AllStable(s) /\ WindingsOf(s) = WindingsOf(q)
       /\ Passes(q, s, {"push-frame"})
  <2>1. Good(q) /\ Top \in Activations /\ AllStable(Tail(q)) /\ q = <<Top>> \o Tail(q)
        /\ Tail(q) \in Seq(Activations)
    BY <1>1, <1>2, TopSplit DEF Good, Settled
  <2>2. AllStable(q)
    <3>1. AllStable(<<Top>> \o Tail(q))
      BY <1>1, <2>1, SortedCons DEF Stable, Settled
    <3> QED BY <2>1, <3>1
  <2> HIDE DEF q
  <2>3. Follows(x, Head(q)) /\ Stable(x)
    BY <1>11 DEF Follows, Thunk, Stable, Settled
  <2>4. WindingsOf(s) = AddWinding(x, WindingsOf(q))
    BY <1>11, <2>1, WindingsCons DEF Good
  <2> QED BY <1>11, <2>1, <2>2, <2>3, <2>4, GoodCons, PassesCons DEF AddWinding, Good
<1>14. q = calls[current]
  OBVIOUS
<1> HIDE DEF s, q
<1>15. \A d \in Coroutines : Windings(d)' = Windings(d)
  BY <1>12, <1>13, <1>14 DEF Windings
<1>16. ShapeInv'
  <2>1. ASSUME NEW d \in Coroutines PROVE Words(calls'[d]) /\ Sorted(calls'[d])
    BY <1>2, <1>12, <1>13 DEF ShapeInv, Good
  <2>2. ASSUME NEW d \in Coroutines, d # l PROVE Parked(calls'[d])
    <3>1. d = current => Parked(s)
      BY <1>13 DEF AllStable, Parked
    <3> QED BY <1>2, <1>12, <2>2, <3>1 DEF ShapeInv
  <2> QED BY <1>6, <2>1, <2>2 DEF ShapeInv
<1>17. calls'[current'] = calls[l] /\ Job' = a /\ ~ToPush(calls'[current'])
       /\ \A d : PendOf(calls'[current'], d) = << >>
  BY <1>6, <1>8, <1>9, <1>12 DEF Job
<1>18. JobIs(Job)' /\ PushIs'
  <2>1. JobIs(a)'
    BY <1>10 DEF JobIs
  <2> QED BY <1>17, <2>1 DEF PushIs, JobIs
<1>19. Active' = Active \cup T /\ Active \cap T = {}
  <2>1. \A d \in Coroutines : d \in Active' <=> d \in Active \/ d \in T
    BY <1>5 DEF Attached, Active
  <2>2. \A d \in T : d \in Coroutines /\ d \notin Active
    BY <1>5 DEF Attached, Active
  <2> QED BY <2>1, <2>2 DEF Active
<1>20. WorkOf(a)' = WorkOf(a) /\ Leaving(a)' = {}
  BY <1>1, <1>10 DEF WorkOf, Winds, Leaving
<1>21. Context'
  <2>1. ASSUME NEW d \in Active' PROVE Replays(WorkOf(a), d, << >> \o frames[d], Windings(d))
    <3>0. d \in Coroutines /\ frames[d] \in Seq(Frames)
      BY <1>2, <2>1 DEF Active
    <3>1. << >> \o frames[d] = frames[d]
      BY <3>0, ConcatEmptySeq
    <3>2. CASE d \in T
      <4>1. frames[d] = << >>
        BY <1>2, <1>19, <3>0, <3>2 DEF PlacesInv
      <4> QED BY <1>10, <3>1, <3>2, <4>1
    <3>3. CASE d \notin T
      <4>1. frames[d] = Windings(d)
        BY <1>2, <1>19, <2>1, <3>3 DEF Framed
      <4>2. CASE Winds(a)
        <5>1. a.op = "suspended" /\ WorkOf(a) = winders[a.winder]
          BY <1>10, <4>2 DEF Winds, WorkOf
        <5>2. WorkOf(a) \in Seq(Entries) /\ \A i \in DOMAIN WorkOf(a) : WorkOf(a)[i].co # d
          BY <1>2, <1>10, <3>3, <5>1 DEF EntriesIn
        <5> QED BY <3>1, <4>1, <5>2, ReplaysOthers
      <4>3. CASE ~Winds(a)
        <5>1. WorkOf(a) = << >>
          BY <4>3 DEF WorkOf
        <5> QED BY <3>1, <4>1, <5>1, ReplaysNone
      <4> QED BY <4>2, <4>3
    <3> QED BY <3>2, <3>3
  <2>2. ASSUME NEW d \in (Active \ Leaving(Job))'
        PROVE  (Replays(WorkOf(Job), d, PendOf(calls[current], d) \o frames[d], Windings(d)))'
    <3>1. d \in Active' /\ d \in Coroutines
      BY <2>2 DEF Active
    <3>2. Replays(WorkOf(a), d, << >> \o frames[d], Windings(d))
      BY <2>1, <3>1
    <3>3. frames'[d] = frames[d] /\ Windings(d)' = Windings(d) /\ WorkOf(Job)' = WorkOf(a)
      BY <1>1, <1>15, <1>17, <1>20, <3>1 DEF WorkOf, Winds
    <3> QED BY <1>17, <3>2, <3>3 DEF Replays, Wound
  <2> QED BY <2>2 DEF Context
<1>22. WaitingInv'
  <2>1. Outside(T)
    BY <1>5 DEF Attached, Outside
  <2>2. ASSUME NEW e \in Coroutines, Ready(e)' PROVE Ready(e) /\ e \notin T
    BY <1>1, <1>5, <1>7, <2>2 DEF Attached, Ready
  <2>3. \A d \in Coroutines \ T : status[d] # "active" => calls'[d] = calls[d]
    BY <1>2, <1>12 DEF Active
  <2>4. Winds(Job') \/ (Job').op = "wind-in-out" =>
          /\ (Job').winder \in Winders /\ (Job').winder <= used'
          /\ \A e \in Coroutines : Ready(e)' => ~Keeps(e, (Job').winder)
    <3> SUFFICES ASSUME a.op = "suspended"
                 PROVE  /\ a.winder \in Winders /\ a.winder <= used
                        /\ \A e \in Coroutines : Ready(e)' => ~Keeps(e, a.winder)
      BY <1>1, <1>10, <1>17 DEF Winds
    <3>1. Keeps(c, a.winder) /\ c \in T
      BY <1>4, <1>5, <1>6, <1>7, <1>9 DEF Keeps, Attached
    <3> QED BY <1>2, <1>10, <2>2, <3>1 DEF WaitingInv
  <2>5. PICK n : n = None
    OBVIOUS
  <2>6. n \notin Coroutines
    BY <2>5, NoneIs
  <2> QED BY <1>1, <1>2, <1>3, <2>1, <2>2, <2>3, <2>4, <2>6, WaitingStays
<1>23. SavedInv'
  <2> SUFFICES ASSUME NEW e \in Coroutines, saved[e] # NoWinder
               PROVE  \/ status'[e] \in {"open", "closed"}
                      \/ status'[e] = "active" /\ a.op = "suspended" /\ a.co = e
    BY <1>1, <1>17 DEF SavedInv
  <2>1. status[e] \in {"open", "closed"}
    BY <1>1, <1>2 DEF SavedInv
  <2>2. CASE e \notin T
    BY <1>5, <2>1, <2>2 DEF Attached
  <2>3. CASE e \in T
    <3>1. e = c
      <4>1. \A d \in Coroutines : parent[d] # e
        BY <1>2, <2>1, UpInactive
      <4>2. UpIs(c)
        BY <1>3, UpFacts
      <4> QED BY <1>4, <2>3, <4>1, <4>2 DEF UpIs
    <3> QED BY <1>5, <1>10, <2>3, <3>1 DEF Attached
  <2> QED BY <2>2, <2>3
<1>24. PlacesInv'
  <2>1. \A d \in Coroutines : Passes(calls[d], calls'[d], {"push-frame"})
    BY <1>12, <1>13, <1>14 DEF Passes
  <2>2. InPushes \subseteq InPushes'
    BY <2>1, PushesStay
  <2>3. InFrames' = InFrames
    BY <1>1 DEF InFrames
  <2> QED BY <1>1, <1>2, <1>19, <2>2, <2>3 DEF PlacesInv
<1> QED BY <1>16, <1>18, <1>21, <1>22, <1>23, <1>24 DEF DInv

(* A coroutine is created, with its body to be called.                      *)
LEMMA CreateKeeps ==
  ASSUME IInv, IInv', SInv, SInv', DInv, ~thrown', NEW c \in Coroutines, Create(c)
  PROVE  DInv'
<1>1. /\ calls[current] # << >> /\ Top.op = "body" /\ ~Top.thunk
      /\ status[c] = "unborn" /\ status' = [status EXCEPT ![c] = "open"]
      /\ calls' = [calls EXCEPT ![c] = <<Body(FALSE), [op |-> "end", co |-> c]>>]
      /\ UNCHANGED <<current, parent, frames, saved, winders, used, dead, ins, outs>>
  BY DEF Create, May, AtTop
<1>2. /\ TypeInv /\ LinkInv /\ ShapeInv /\ WaitingInv /\ SavedInv /\ PlacesInv /\ used \in Nat
      /\ current \in Coroutines /\ current \in Active /\ Job = Top /\ Framed /\ ~ToPush(calls[current])
      /\ calls \in [Coroutines -> Seq(Activations)] /\ frames \in [Coroutines -> Seq(Frames)]
      /\ status \in [Coroutines -> {"unborn", "active", "suspended", "open", "closed"}]
  BY <1>1, AtStep DEF Thunk, Idle, TypeInv, TypeOK
<1>3. LinkInv' /\ LinkType' /\ LinkType
  BY DEF IInv, SInv, TypeInv, TypeOK, LinkType
<1>4. PICK x \in Activations : x = Body(FALSE) /\ x.op = "body" /\ ~x.thunk
  <2>1. Body(FALSE) \in Activations
    BY DEF Body, Activations
  <2> QED BY <2>1 DEF Body
<1>5. PICK y \in Activations : y = [op |-> "end", co |-> c] /\ y.op = "end"
  <2>1. [op |-> "end", co |-> c] \in Activations
    BY DEF Activations
  <2> QED BY <2>1
<1>5a. << >> \in Seq(Activations)
  OBVIOUS
<1> DEFINE r == <<y>> \o << >>
           s == <<x>> \o r
<1>6. \A d \in Coroutines : calls'[d] = IF d = c THEN s ELSE calls[d]
  <2>1. <<x, y>> \o << >> = <<x>> \o (<<y>> \o << >>)
    BY <1>4, <1>5, <1>5a, PairOn
  <2>2. <<x, y>> \o << >> = <<x, y>>
    OBVIOUS
  <2> QED BY <1>1, <1>2, <1>4, <1>5, <2>1, <2>2
<1>7. Good(r) /\ AllStable(r) /\ WindingsOf(r) = << >> /\ r # << >>
  <2>1. Good(<< >>) /\ AllStable(<< >>)
    BY ViewNone DEF Good
  <2>2. WindingsOf(r) = AddWinding(y, << >>)
    BY <1>5, <1>5a, WindingsCons, WindingsNone
  <2> QED BY <1>5, <2>1, <2>2, GoodCons DEF AddWinding, Stable, Settled
<1> HIDE DEF r
<1>8. Good(s) /\ AllStable(s) /\ WindingsOf(s) = << >> /\ s # << >> /\ Head(s) = x
  <2>1. Follows(x, Head(r))
    BY <1>4 DEF Follows, Thunk
  <2>2. WindingsOf(s) = AddWinding(x, WindingsOf(r))
    BY <1>4, <1>7, WindingsCons DEF Good
  <2> QED BY <1>4, <1>7, <2>1, <2>2, GoodCons DEF AddWinding, Stable, Settled
<1> HIDE DEF s
<1>9. c # current /\ c \notin Active /\ calls'[current] = calls[current]
  BY <1>1, <1>2, <1>6 DEF Active
<1>10. Active' = Active
  BY <1>1, <1>2 DEF Active
<1>11. ShapeInv'
  <2>1. ASSUME NEW d \in Coroutines PROVE Words(calls'[d]) /\ Sorted(calls'[d])
    BY <1>2, <1>6, <1>8 DEF ShapeInv, Good
  <2>2. ASSUME NEW d \in Coroutines, d # current PROVE Parked(calls'[d])
    <3>1. Parked(s)
      BY <1>8 DEF AllStable, Parked
    <3> QED BY <1>2, <1>6, <2>2, <3>1 DEF ShapeInv
  <2> QED BY <1>1, <2>1, <2>2 DEF ShapeInv
<1>12. Job' = Job /\ Idle(Job)' /\ ~ToPush(calls[current])' /\ (frames \in [Coroutines -> Seq(Frames)])'
  <2>1. Job' = Job /\ ~ToPush(calls[current])'
    BY <1>1, <1>2, <1>9 DEF Job
  <2>2. Idle(Job)'
    BY <1>1, <1>2, <2>1 DEF Idle
  <2> QED BY <1>1, <1>2, <2>1, <2>2
<1>13. Framed'
  <2>1. \A d \in Active : d \in Coroutines /\ frames'[d] = frames[d] /\ Windings(d)' = Windings(d)
    BY <1>1, <1>6, <1>9 DEF Windings, Active
  <2> QED BY <1>2, <1>10, <2>1 DEF Framed
<1>14. (Context /\ JobIs(Job) /\ PushIs)'
  BY <1>12, <1>13, ContextIdleNext
<1>15. saved[c] = NoWinder
  BY <1>1, <1>2 DEF SavedInv
<1>16. parent[c] = None /\ \A d \in Coroutines : parent[d] # c
  <2>1. parent[c] = None
    BY <1>1, <1>2 DEF LinkInv, StatusInv
  <2>2. ASSUME NEW d \in Coroutines, parent[d] = c PROVE FALSE
    <3>1. parent[d] # None
      BY <2>2, NoneIs
    <3> QED BY <1>1, <1>2, <2>2, <3>1 DEF LinkInv, StatusInv
  <2> QED BY <2>1, <2>2
<1>17. Up(c)' = {c}
  <2>1. UpIs(c)'
    BY <1>3, UpFactsNext DEF LinkInv
  <2>2. parent'[c] = None
    BY <1>1, <1>16
  <2> QED BY <2>1, <2>2 DEF UpIs
<1>18. calls'[c] = s /\ Head(calls'[c]) = x /\ calls'[c] # << >> /\ Windings(c)' = << >>
  BY <1>6, <1>8 DEF Windings
<1>19. WaitingInv'
  <2>0. PICK T : T = {c}
    OBVIOUS
  <2>1. Outside(T)
    BY <1>1, <1>16, <2>0 DEF Outside
  <2>2. \A e \in Coroutines : e # c /\ Ready(e)' => Ready(e) /\ e \notin T
    BY <1>1, <1>2, <1>9, <2>0 DEF Ready, Closing
  <2>3. \A d \in Coroutines \ T : status[d] # "active" => calls'[d] = calls[d]
    BY <1>6, <2>0
  <2>4. WaitsAll(c)'
    <3>1. WorkOf(x)' = << >> /\ WorkOf(x) = << >>
      BY <1>4 DEF WorkOf, Winds
    <3>2. Replays(<< >>, c, << >>, << >>)
      BY ReplaysNone
    <3>3. (Replays(WorkOf(Head(calls[c])), c, << >>, Windings(c)))'
      BY <1>4, <1>18, <3>2 DEF Replays, WorkOf, Winds, Wound
    <3>4. (\A d \in Up(c) : Replays(WorkOf(Head(calls[c])), d, << >>, Windings(d)))'
      BY <1>17, <3>3
    <3>5. /\ calls'[c] # << >> /\ Head(calls'[c]).op = "body"
          /\ saved'[c] = NoWinder
      BY <1>1, <1>4, <1>15, <1>18
    <3>6. WaitsWell(c, c)'
      BY <3>4, <3>5 DEF WaitsWell
    <3> QED BY <1>17, <3>6 DEF WaitsAll
  <2>5. \A w : ~Keeps(c, w)'
    BY <1>4, <1>17, <1>18 DEF Keeps
  <2>6. ~Winds(Job') /\ (Job').op # "wind-in-out"
    BY <1>1, <1>2, <1>12 DEF Winds
  <2>7. /\ \A e \in Coroutines \ {c} : saved'[e] \in {saved[e], NoWinder}
        /\ \A w \in Winders : winders'[w] = winders[w] \/ \A e \in Coroutines : ~Keeps(e, w)
        /\ used' \in Nat /\ used <= used'
    BY <1>1, <1>2
  <2> QED BY <1>2, <1>3, <2>1, <2>2, <2>3, <2>4, <2>5, <2>6, <2>7, WaitingStays
<1>20. SavedInv'
  <2>1. \A e \in Coroutines : e # c => status'[e] = status[e]
    BY <1>1
  <2> QED BY <1>1, <1>2, <1>12, <1>15, <2>1 DEF SavedInv
<1>21. PlacesInv'
  <2>1. ASSUME NEW d \in Coroutines PROVE Passes(calls[d], calls'[d], {"push-frame"})
    <3>1. CASE d = c
      <4>1. Parked(calls[d])
        BY <1>2, <1>9, <3>1 DEF ShapeInv
      <4> QED BY <4>1 DEF Passes, Holds, Parked, Stable, Settled
    <3>2. CASE d # c
      BY <1>6, <3>2 DEF Passes
    <3> QED BY <3>1, <3>2
  <2>2. InPushes \subseteq InPushes'
    BY <2>1, PushesStay
  <2>3. InFrames' = InFrames
    BY <1>1 DEF InFrames
  <2> QED BY <1>1, <1>2, <1>10, <2>2, <2>3 DEF PlacesInv
<1> QED BY <1>11, <1>14, <1>19, <1>20, <1>21 DEF DInv

(* What is on top of stable activations is settled, or nothing is.          *)
LEMMA SettledStable ==
  ASSUME NEW r, Good(r), r # << >> => Settled(Head(r))
  PROVE  AllStable(r)
<1>1. CASE r = << >>
  BY <1>1, ViewNone
<1>2. CASE r # << >>
  <2>1. r \in Seq(Activations) /\ Sorted(r)
    BY DEF Good
  <2>2. PICK x \in Activations : x = Head(r)
    BY <1>2, <2>1, Split
  <2>3. PICK t \in Seq(Activations) : t = Tail(r)
    BY <1>2, <2>1, Split
  <2>4. r = <<x>> \o t
    BY <1>2, <2>1, <2>2, <2>3, Split
  <2>5. AllStable(t)
    BY <1>2, <2>1, <2>2, <2>4, SortedCons
  <2>6. AllStable(<<x>> \o t)
    BY <1>2, <2>2, <2>5, SortedCons DEF Stable
  <2> QED BY <2>4, <2>6
<1> QED BY <1>1, <1>2

(* The coroutines T up to c are left, which has nothing more to be wound    *)
(* out: the one that resumed c runs.  Activation b is what is left on top.  *)
IsLeft(c, T, b) ==
  /\ calls[current] # << >> /\ Top.op \in {"suspend", "break"} /\ Top.co = c
  /\ b \in Activations /\ b.op \in {"suspended", "break"}
  /\ c \in Active /\ T = Between(c) /\ Detached(c, T) /\ OutOf(c)
  /\ calls' = [calls EXCEPT ![current] = <<b>> \o Tail(@)]
  /\ UNCHANGED <<frames, winders, used, dead, ins, outs>>
(* Of the parts of the invariant, these are kept when a coroutine has been  *)
(* left.                                                                    *)
LEMMA LeftOn ==
  ASSUME IInv, IInv', SInv, SInv', DInv, NEW c, NEW T, NEW b, IsLeft(c, T, b)
  PROVE  /\ ShapeInv' /\ JobIs(Job)' /\ PushIs' /\ Context' /\ PlacesInv'
         /\ (Job').op = "resume" /\ Outside(T) /\ \A e : ~Closing(e)
         /\ Job = Top /\ \A d \in Coroutines : Windings(d)' = Windings(d)
         /\ \A d \in Coroutines : d # current => calls'[d] = calls[d]
         /\ calls'[current] # << >> /\ Head(calls'[current]) = b
<1>1. /\ calls[current] # << >> /\ Top.op \in {"suspend", "break"} /\ Top.co = c
      /\ b \in Activations /\ b.op \in {"suspended", "break"}
      /\ c \in Active /\ T = Between(c) /\ Detached(c, T) /\ OutOf(c)
      /\ calls' = [calls EXCEPT ![current] = <<b>> \o Tail(@)]
      /\ UNCHANGED <<frames, winders, used, dead, ins, outs>>
  BY DEF IsLeft
<1>2. /\ TypeInv /\ LinkInv /\ ShapeInv /\ WaitingInv /\ SavedInv /\ PlacesInv /\ used \in Nat
      /\ current \in Coroutines /\ current \in Active /\ Job = Top
      /\ \A d : PendOf(calls[current], d) = << >>
      /\ Windings(current) = AddWinding(Top, WindingsOf(Tail(calls[current])))
      /\ calls \in [Coroutines -> Seq(Activations)] /\ frames \in [Coroutines -> Seq(Frames)]
      /\ winders \in [Winders -> Seq(Entries)] /\ LinkType
  BY <1>1, AtStep DEF Thunk, TypeInv, TypeOK, LinkType
<1> DEFINE r == Tail(calls[current])
           s == <<b>> \o r
<1>3. /\ Top \in Activations /\ Good(r) /\ calls[current] = <<Top>> \o r
      /\ r # << >> => Settled(Head(r))
  BY <1>1, <1>2, TopSplit DEF Follows
<1>4. \A d \in Coroutines : calls'[d] = IF d = current THEN s ELSE calls[d]
  BY <1>1, <1>2
<1>5. WindingsOf(r) = Windings(current)
  BY <1>1, <1>2 DEF AddWinding
<1> HIDE DEF r
<1>6. AllStable(r)
  BY <1>3, SettledStable
<1>7. /\ Good(s) /\ Parked(s) /\ WindingsOf(s) = Windings(current) /\ s # << >> /\ Head(s) = b
      /\ Passes(calls[current], s, {"push-frame"})
  <2>1. r # << >> => Follows(b, Head(r))
    BY <1>1, <1>3 DEF Follows, Thunk
  <2>2. WindingsOf(s) = AddWinding(b, WindingsOf(r))
    BY <1>1, <1>3, WindingsCons DEF Good
  <2>3. r \in Seq(Activations) /\ ~Settled(b)
    BY <1>1, <1>3 DEF Good, Settled
  <2>4. Parked(s)
    BY <1>1, <1>6, <2>3, SortedCons
  <2>5. Passes(r, r, {"push-frame"})
    BY DEF Passes
  <2>6. Passes(r, s, {"push-frame"})
    BY <1>1, <2>3, <2>5, PassesCons
  <2>7. Passes(<<Top>> \o r, s, {"push-frame"})
    <3>1. Top.op \notin {"push-frame"}
      BY <1>1
    <3> HIDE DEF s
    <3> QED BY <1>3, <2>3, <2>6, <3>1, PassesCons
  <2> QED BY <1>1, <1>3, <1>5, <2>1, <2>2, <2>3, <2>4, <2>7, GoodCons DEF AddWinding
<1> HIDE DEF s
<1>8. \A e : ~Closing(e)
  <2>1. ASSUME NEW x, Holds(calls[current], x) PROVE x.op # "close"
    <3>1. Holds(<<Top>> \o r, x) /\ r \in Seq(Activations)
      BY <1>3, <2>1 DEF Good
    <3>2. x = Top \/ Holds(r, x)
      BY <1>3, <3>1, PassesCons
    <3>3. Holds(r, x) => Stable(x)
      BY <1>6 DEF Holds, AllStable
    <3> QED BY <1>1, <3>2, <3>3 DEF Stable, Settled
  <2> QED BY <2>1 DEF Closing, Holds
<1>9. /\ T \subseteq Active /\ T \subseteq Coroutines /\ c \in T /\ current \in T /\ c \in Coroutines
      /\ current' = parent[c] /\ parent[c] \notin T /\ parent[c] # None
  BY <1>1 DEF Detached, Active
<1>10. PICK p \in Coroutines : p = parent[c] /\ p = current' /\ p # current /\ p \notin T
  BY <1>2, <1>9 DEF LinkType
<1>11. Waits(calls, p, c)
  BY <1>1, <1>9, <1>10 DEF SInv, WaitInv, WaitsFor, Alive, Waits, Active
<1>12. PICK a \in Activations : /\ a = Head(calls[p]) /\ JobOf(calls[p]) = a /\ ~ToPush(calls[p])
                               /\ a.op = "resume"
  <2>1. calls[p] # << >> /\ Head(calls[p]).op = "resume"
    BY <1>11 DEF Waits
  <2> QED BY <1>2, <1>10, <2>1, ParkedView
<1>13. Active' = Active \ T
  <2>1. \A d \in Coroutines : d \in Active' <=> d \in Active /\ d \notin T
    BY <1>1 DEF Detached, Active
  <2> QED BY <2>1 DEF Active
<1>14. ShapeInv'
  <2>1. ASSUME NEW d \in Coroutines PROVE Words(calls'[d]) /\ Sorted(calls'[d])
    BY <1>2, <1>4, <1>7 DEF ShapeInv, Good
  <2>2. ASSUME NEW d \in Coroutines, d # p PROVE Parked(calls'[d])
    BY <1>2, <1>4, <1>7, <2>2 DEF ShapeInv
  <2> QED BY <1>10, <2>1, <2>2 DEF ShapeInv
<1>15. Job' = a /\ Idle(Job)' /\ ~ToPush(calls[current])' /\ (frames \in [Coroutines -> Seq(Frames)])'
  <2>1. calls'[current'] = calls[p]
    BY <1>4, <1>10
  <2>2. Job' = a /\ ~ToPush(calls[current])'
    BY <1>12, <2>1 DEF Job
  <2>3. Idle(Job)'
    BY <1>12, <2>2 DEF Idle
  <2> QED BY <1>1, <1>2, <2>2, <2>3
<1>16. Framed'
  <2> SUFFICES ASSUME NEW d \in Active \ T PROVE frames[d] = Windings(d)
    <3>1. \A d \in Active \ T : frames'[d] = frames[d] /\ Windings(d)' = Windings(d)
      BY <1>1, <1>4, <1>9 DEF Windings, Active
    <3> QED BY <1>13, <3>1 DEF Framed
  <2>1. Leaving(Job) \subseteq T /\ frames[d] \in Seq(Frames)
    BY <1>1, <1>2 DEF Leaving, Active
  <2>2. Replays(WorkOf(Job), d, << >> \o frames[d], Windings(d))
    BY <1>2, <2>1 DEF DInv, Context
  <2>3. << >> \o frames[d] = frames[d]
    BY <2>1, ConcatEmptySeq
  <2>4. CASE Winds(Top)
    <3>1. Top.op = "suspend" /\ WorkOf(Top) = winders[Top.winder] /\ Top.winder \in Winders
      BY <1>1, <1>3, <2>4, Fields DEF Winds, WorkOf
    <3>2. EntriesIn(Top.winder, T)
      BY <1>1, <1>2, <3>1 DEF DInv, JobIs
    <3>3. WorkOf(Top) \in Seq(Entries) /\ \A i \in DOMAIN WorkOf(Top) : WorkOf(Top)[i].co # d
      BY <1>2, <3>1, <3>2 DEF EntriesIn
    <3> QED BY <1>2, <2>2, <2>3, <3>3, ReplaysOthers
  <2>5. CASE ~Winds(Top)
    <3>1. WorkOf(Top) = << >>
      BY <2>5 DEF WorkOf
    <3> QED BY <1>2, <2>2, <2>3, <3>1, ReplaysNone
  <2> QED BY <2>4, <2>5
<1>17. (Context /\ JobIs(Job) /\ PushIs)'
  BY <1>15, <1>16, ContextIdleNext
<1>18. PlacesInv'
  <2>1. \A d \in Coroutines : Passes(calls[d], calls'[d], {"push-frame"})
    BY <1>4, <1>7 DEF Passes
  <2>2. InPushes \subseteq InPushes'
    BY <2>1, PushesStay
  <2>3. InFrames' = InFrames
    BY <1>1 DEF InFrames
  <2>4. \A d \in Coroutines \ Active' : frames'[d] = << >>
    BY <1>1, <1>2, <1>13 DEF PlacesInv, OutOf
  <2> QED BY <1>1, <1>2, <2>2, <2>3, <2>4 DEF PlacesInv
<1>19. Outside(T)
  BY <1>1, <1>2 DEF Detached, Outside, LinkInv, StatusInv
<1>20. \A d \in Coroutines : Windings(d)' = Windings(d)
  BY <1>4, <1>7 DEF Windings
<1> QED BY <1>2, <1>4, <1>7, <1>8, <1>12, <1>14, <1>15, <1>17, <1>18, <1>19, <1>20

(* break: what it leaves behind is closed.                                  *)
LEMMA BrokenKeeps ==
  ASSUME IInv, IInv', SInv, SInv', DInv, Broken
  PROVE  DInv'
<1>1. /\ calls[current] # << >> /\ Top.op = "break" /\ Reaches(current, Top.co)
      /\ Detach(Top.co, "closed")
      /\ UNCHANGED <<calls, frames, saved, winders, used, dead, ins, outs>>
  BY DEF Broken, AtTop
<1>2. /\ TypeInv /\ LinkInv /\ ShapeInv /\ WaitingInv /\ SavedInv /\ used \in Nat /\ Job = Top
      /\ current \in Coroutines /\ calls \in [Coroutines -> Seq(Activations)] /\ Top \in Activations
      /\ calls[current] = <<Top>> \o Tail(calls[current])
  BY <1>1, AtStep, TopSplit DEF Thunk, TypeInv, TypeOK
<1>3. PICK c \in Coroutines : c = Top.co /\ c \in Active /\ OutOf(c)
  <2>1. Top.co \in Coroutines
    BY <1>1, <1>2, Fields
  <2> QED BY <1>1, <1>2, <2>1 DEF DInv, JobIs
<1>4. PICK T : T = Between(c)
  OBVIOUS
<1>5. Detached(c, T) /\ status'[c] = "closed"
  BY <1>1, <1>2, <1>3, <1>4, DetachedIs DEF Between
<1>6. IsLeft(c, T, Top)
  <2>1. calls' = [calls EXCEPT ![current] = <<Top>> \o Tail(@)]
    BY <1>1, <1>2
  <2> QED BY <1>1, <1>2, <1>3, <1>4, <1>5, <2>1 DEF IsLeft
<1>7. /\ ShapeInv' /\ JobIs(Job)' /\ PushIs' /\ Context' /\ PlacesInv'
      /\ (Job').op = "resume" /\ Outside(T) /\ \A e : ~Closing(e)
  BY <1>6, LeftOn
<1>8. \A e \in Coroutines : status'[e] \in {"open"} => e \notin T /\ status[e] = "open"
  BY <1>5 DEF Detached
<1>9. WaitingInv'
  <2>0. LinkInv' /\ LinkType'
    BY DEF IInv, SInv, TypeInv, TypeOK, LinkType
  <2>1. \A e \in Coroutines : Ready(e)' => Ready(e) /\ e \notin T
    BY <1>1, <1>7, <1>8 DEF Ready
  <2>2. ~Winds(Job') /\ (Job').op # "wind-in-out"
    BY <1>7 DEF Winds
  <2>3. PICK n : n = None
    OBVIOUS
  <2>4. n \notin Coroutines
    BY <2>3, NoneIs
  <2>5. /\ \A d \in Coroutines \ T : status[d] # "active" => calls'[d] = calls[d]
        /\ \A w \in Winders : winders'[w] = winders[w] \/ \A e \in Coroutines : ~Keeps(e, w)
        /\ used' \in Nat /\ used <= used'
        /\ \A e \in Coroutines \ {n} : saved'[e] \in {saved[e], NoWinder}
    BY <1>1, <1>2
  <2> QED BY <1>2, <1>7, <2>0, <2>1, <2>2, <2>4, <2>5, WaitingStays
<1>10. SavedInv'
  <2> SUFFICES ASSUME NEW e \in Coroutines, saved[e] # NoWinder
               PROVE  status'[e] \in {"open", "closed"}
    BY <1>1 DEF SavedInv
  <2>1. status[e] \in {"open", "closed"}
    BY <1>1, <1>2 DEF SavedInv
  <2> QED BY <1>5, <2>1 DEF Detached
<1> QED BY <1>7, <1>9, <1>10 DEF DInv

(* suspend: what it leaves behind is open, and keeps the winder.            *)
LEMMA SuspendedKeeps ==
  ASSUME IInv, IInv', SInv, SInv', DInv, Suspended
  PROVE  DInv'
<1>1. /\ calls[current] # << >> /\ Top.op = "suspend" /\ Reaches(current, Top.co)
      /\ Detach(Top.co, "open") /\ SaveWinders(Top.co, Top.winder)
      /\ calls' = [calls EXCEPT ![current] = <<[Top EXCEPT !.op = "suspended"]>> \o Tail(@)]
      /\ UNCHANGED <<frames, winders, used, dead, ins, outs>>
  BY DEF Suspended, AtTop, Continue
<1>2. /\ TypeInv /\ LinkInv /\ ShapeInv /\ WaitingInv /\ SavedInv /\ used \in Nat /\ Job = Top
      /\ current \in Coroutines /\ calls \in [Coroutines -> Seq(Activations)] /\ Top \in Activations
      /\ \A d : PendOf(calls[current], d) = << >>
      /\ saved \in [Coroutines -> Winders \cup {NoWinder}] /\ frames \in [Coroutines -> Seq(Frames)]
  BY <1>1, AtStep, TopSplit DEF Thunk, TypeInv, TypeOK
<1>3. PICK c \in Coroutines : c = Top.co /\ c \in Active /\ OutOf(c)
  <2>1. Top.co \in Coroutines
    BY <1>1, <1>2, Fields
  <2> QED BY <1>1, <1>2, <2>1 DEF DInv, JobIs
<1>4. PICK w \in Winders : w = Top.winder
  BY <1>1, <1>2, Fields
<1>5. PICK T : T = Between(c)
  OBVIOUS
<1>6. Detached(c, T) /\ status'[c] = "open"
  BY <1>1, <1>2, <1>3, <1>5, DetachedIs DEF Between
<1>7. PICK b \in Activations : /\ b = [Top EXCEPT !.op = "suspended"] /\ b.op = "suspended"
                              /\ b.co = c /\ b.winder = w
  <2>1. PICK a \in Activations : a = Top
    BY <1>2
  <2>2. PICK b \in Activations :
          b = [a EXCEPT !.op = "suspended"] /\ b.op = "suspended" /\ b.co = a.co /\ b.winder = a.winder
    BY <1>1, <2>1, Changed
  <2> QED BY <1>3, <1>4, <2>1, <2>2
<1>8. IsLeft(c, T, b)
  BY <1>1, <1>2, <1>3, <1>5, <1>6, <1>7 DEF IsLeft
<1>9. /\ ShapeInv' /\ JobIs(Job)' /\ PushIs' /\ Context' /\ PlacesInv'
      /\ (Job').op = "resume" /\ Outside(T) /\ \A e : ~Closing(e)
      /\ \A d \in Coroutines : Windings(d)' = Windings(d)
      /\ \A d \in Coroutines : d # current => calls'[d] = calls[d]
      /\ calls'[current] # << >> /\ Head(calls'[current]) = b
  BY <1>8, LeftOn
<1>10. LinkInv' /\ LinkType'
  BY DEF IInv, SInv, TypeInv, TypeOK, LinkType
<1>11. Winds(Top) /\ w <= used /\ (\A e \in Coroutines : ~Keeps(e, w)) /\ w # NoWinder
       /\ WorkOf(Top) = winders[w] /\ EntriesIn(w, T)
  <2>1. w # NoWinder
    BY DEF Winders, NoWinder
  <2>2. Winds(Top) /\ WorkOf(Top) = winders[w]
    BY <1>1, <1>4, <2>1 DEF Winds, WorkOf
  <2>3. w <= used /\ \A e \in Coroutines : ~Keeps(e, w)
    BY <1>2, <1>4, <2>2 DEF WaitingInv
  <2>4. EntriesIn(w, T)
    BY <1>1, <1>2, <1>3, <1>4, <1>5 DEF DInv, JobIs
  <2> QED BY <2>1, <2>2, <2>3, <2>4
<1>12. saved[c] = NoWinder /\ saved'[c] \in {w, NoWinder} /\ \A e \in Coroutines : e # c => saved'[e] = saved[e]
  <2>1. saved[c] = NoWinder
    BY <1>1, <1>2, <1>3 DEF SavedInv, Active
  <2> QED BY <1>1, <1>2, <1>3, <1>4, <2>1 DEF SaveWinders
<1>13. Up(c)' = T
  BY <1>2, <1>6, <1>10, UpDetached
<1>14. WaitsAll(c)'
  <2>1. ASSUME NEW l \in T, parent'[l] = None PROVE l = current
    <3>1. l # current => parent'[l] \in Coroutines
      BY <1>6, <2>1 DEF Detached
    <3> QED BY <2>1, <3>1, NoneIs
  <2>2. current \in T /\ T \subseteq Active /\ T \subseteq Coroutines
    BY <1>6 DEF Detached, Active
  <2>3. \A d \in T : Replays(winders[w], d, << >>, Windings(d))
    <3> SUFFICES ASSUME NEW d \in T PROVE Replays(winders[w], d, << >>, Windings(d))
      OBVIOUS
    <3>1. d \in Active \ Leaving(Job)
      BY <1>1, <1>2, <2>2 DEF Leaving
    <3>2. Replays(WorkOf(Job), d, << >> \o frames[d], Windings(d))
      BY <1>2, <3>1 DEF DInv, Context
    <3>3. frames[d] = << >>
      BY <1>3, <1>5 DEF OutOf
    <3>4. << >> \o << >> = << >>
      OBVIOUS
    <3> QED BY <1>2, <1>11, <3>2, <3>3, <3>4
  <2>4. winders' = winders /\ used' = used
    BY <1>1
  <2>5. WorkOf(b)' = winders[w]
    BY <1>7, <1>11, <2>4 DEF WorkOf, Winds
  <2>6. ASSUME NEW l, l = current PROVE WaitsWell(c, l)'
    <3>1. calls'[l] # << >> /\ Head(calls'[l]) = b
      BY <1>9, <2>6
    <3>2. EntriesIn(w, Up(c))'
      BY <1>11, <1>13, <2>4 DEF EntriesIn
    <3>3. \A d \in T : Replays(WorkOf(b)', d, << >>, Windings(d)')
      BY <1>9, <2>2, <2>3, <2>5
    <3>4. (\A d \in Up(c) : Replays(WorkOf(b), d, << >>, Windings(d)))'
      BY <1>13, <3>3 DEF Replays, Wound
    <3>5. EntriesIn(b.winder, Up(c))' /\ b.winder <= used'
      BY <1>7, <1>11, <2>4, <3>2 DEF EntriesIn
    <3> QED BY <1>7, <1>12, <3>1, <3>4, <3>5 DEF WaitsWell, EntriesIn, WorkOf, Winds
  <2> QED BY <1>13, <2>1, <2>6 DEF WaitsAll
<1>15. \A v \in Winders : Keeps(c, v)' => v = w
  <2>1. ASSUME NEW l \in T, parent'[l] = None PROVE l = current
    <3>1. l # current => parent'[l] \in Coroutines
      BY <1>6, <2>1 DEF Detached
    <3> QED BY <2>1, <3>1, NoneIs
  <2> QED BY <1>7, <1>9, <1>13, <2>1 DEF Keeps
<1>16. WaitingInv'
  <2>1. \A e \in Coroutines : e # c /\ Ready(e)' => Ready(e) /\ e \notin T
    BY <1>1, <1>6, <1>9 DEF Ready, Detached
  <2>2. ~Winds(Job') /\ (Job').op # "wind-in-out"
    BY <1>9 DEF Winds
  <2>3. current \in T
    BY <1>6 DEF Detached
  <2>4. /\ \A d \in Coroutines \ T : status[d] # "active" => calls'[d] = calls[d]
        /\ \A v \in Winders : winders'[v] = winders[v] \/ \A e \in Coroutines : ~Keeps(e, v)
        /\ used' \in Nat /\ used <= used'
        /\ \A e \in Coroutines \ {c} : saved'[e] \in {saved[e], NoWinder}
    BY <1>1, <1>2, <1>9, <1>12, <2>3
  <2>5. \A v \in Winders : Keeps(c, v)' => \A e \in Coroutines : ~Keeps(e, v)
    BY <1>11, <1>15
  <2> QED BY <1>2, <1>9, <1>10, <1>14, <2>1, <2>2, <2>4, <2>5, WaitingStays
<1>17. SavedInv'
  <2> SUFFICES ASSUME NEW e \in Coroutines, saved'[e] # NoWinder
               PROVE  status'[e] \in {"open", "closed"}
    BY DEF SavedInv
  <2>1. e # c => status[e] \in {"open", "closed"}
    BY <1>1, <1>2, <1>12 DEF SavedInv
  <2> QED BY <1>6, <2>1 DEF Detached
<1> QED BY <1>9, <1>16, <1>17 DEF DInv

(* A resume or a close is over, and the coroutines T are freed.             *)
IsOver(T) ==
  /\ calls[current] # << >> /\ Top.op \in {"resume", "close"}
  /\ T \subseteq Coroutines /\ \A d \in T : status[d] # "active" /\ status'[d] = "closed"
  /\ \A d \in Coroutines \ T : status'[d] = status[d] /\ parent'[d] = parent[d] /\ parent[d] \notin T
  /\ \A d \in Coroutines :
       calls'[d] = IF d \in T THEN << >> ELSE IF d = current THEN Tail(calls[d]) ELSE calls[d]
  /\ Top.op = "close" => Top.co \in T
  /\ UNCHANGED <<current, frames, saved, winders, used, dead, ins, outs>>
(* To give back the stacks of coroutines that are over keeps the invariant. *)
LEMMA OverOn ==
  ASSUME IInv, IInv', SInv, SInv', DInv, NEW T, IsOver(T)
  PROVE  DInv'
<1>1. /\ calls[current] # << >> /\ Top.op \in {"resume", "close"}
      /\ T \subseteq Coroutines /\ \A d \in T : status[d] # "active" /\ status'[d] = "closed"
      /\ \A d \in Coroutines \ T : status'[d] = status[d] /\ parent'[d] = parent[d] /\ parent[d] \notin T
      /\ \A d \in Coroutines :
           calls'[d] = IF d \in T THEN << >> ELSE IF d = current THEN Tail(calls[d]) ELSE calls[d]
      /\ Top.op = "close" => Top.co \in T
      /\ UNCHANGED <<current, frames, saved, winders, used, dead, ins, outs>>
  BY DEF IsOver
<1>2. /\ TypeInv /\ LinkInv /\ ShapeInv /\ WaitingInv /\ SavedInv /\ PlacesInv /\ used \in Nat
      /\ current \in Coroutines /\ current \in Active /\ Job = Top /\ Framed
      /\ Windings(current) = AddWinding(Top, WindingsOf(Tail(calls[current])))
      /\ calls \in [Coroutines -> Seq(Activations)] /\ frames \in [Coroutines -> Seq(Frames)]
  BY <1>1, AtStep DEF Thunk, Idle, TypeInv, TypeOK
<1>3. LinkInv' /\ LinkType'
  BY DEF IInv, SInv, TypeInv, TypeOK, LinkType
<1> DEFINE r == Tail(calls[current])
<1>4. /\ Top \in Activations /\ Good(r) /\ calls[current] = <<Top>> \o r
      /\ r # << >> => Follows(Top, Head(r))
      /\ Settled(Top) => AllStable(r)
  BY <1>1, <1>2, TopSplit
<1>5. AllStable(r)
  <2>1. Top.op = "close" => (r # << >> => Settled(Head(r)))
    BY <1>4 DEF Follows
  <2>2. Top.op # "close" => Settled(Top)
    BY <1>1 DEF Settled
  <2> HIDE DEF r
  <2> QED BY <1>4, <2>1, <2>2, SettledStable
<1>6. current \notin T /\ calls'[current] = r /\ WindingsOf(r) = Windings(current)
  BY <1>1, <1>2 DEF Active, AddWinding
<1> HIDE DEF r
<1>7. Idle(JobOf(r)) /\ ~ToPush(r) /\ JobOf(r).op # "wind-in-out"
  <2>1. r # << >> => Stable(Head(r))
    <3>1. r # << >> => Head(r) = r[1] /\ 1 \in DOMAIN r
      BY <1>4, Rest DEF Good
    <3> QED BY <1>5, <3>1 DEF AllStable
  <2> QED BY <1>4, <2>1, StableView DEF Good
<1>8. Active' = Active
  <2>1. \A d \in Coroutines : d \in Active' <=> d \in Active
    BY <1>1 DEF Active
  <2> QED BY <2>1 DEF Active
<1>9. ShapeInv'
  <2>1. ASSUME NEW d \in Coroutines PROVE Words(calls'[d]) /\ Sorted(calls'[d])
    BY <1>1, <1>2, <1>4, <1>6, ViewNone DEF ShapeInv, Good
  <2>2. ASSUME NEW d \in Coroutines, d # current PROVE Parked(calls'[d])
    <3>1. Parked(<< >>)
      BY ViewNone DEF Parked, AllStable
    <3> QED BY <1>1, <1>2, <2>2, <3>1 DEF ShapeInv
  <2> QED BY <1>1, <2>1, <2>2 DEF ShapeInv
<1>10. Job' = JobOf(r) /\ Idle(Job)' /\ ~ToPush(calls[current])' /\ (frames \in [Coroutines -> Seq(Frames)])'
  <2>1. Job' = JobOf(r) /\ ~ToPush(calls[current])'
    BY <1>1, <1>6, <1>7 DEF Job
  <2>2. Idle(Job)'
    BY <1>7, <2>1 DEF Idle
  <2> QED BY <1>1, <1>2, <2>1, <2>2
<1>11. Framed'
  <2>1. \A d \in Active : frames'[d] = frames[d] /\ Windings(d)' = Windings(d)
    BY <1>1, <1>6 DEF Windings, Active
  <2> QED BY <1>2, <1>8, <2>1 DEF Framed
<1>12. (Context /\ JobIs(Job) /\ PushIs)'
  BY <1>10, <1>11, ContextIdleNext
<1>13. WaitingInv'
  <2>1. Outside(T)
    BY <1>1 DEF Outside
  <2>2. ASSUME NEW e \in Coroutines, Ready(e)' PROVE Ready(e) /\ e \notin T
    <3>1. e \notin T /\ status[e] = "open" /\ e \notin dead
      BY <1>1, <2>2 DEF Ready
    <3>2. ASSUME NEW x, Holds(calls[current], x), x.op = "close" PROVE x.co \in T
      <4>1. Holds(<<Top>> \o r, x) /\ r \in Seq(Activations)
        BY <1>4, <3>2 DEF Good
      <4>2. x = Top \/ Holds(r, x)
        BY <1>4, <4>1, PassesCons
      <4>3. Holds(r, x) => Stable(x)
        BY <1>5 DEF Holds, AllStable
      <4> QED BY <1>1, <3>2, <4>2, <4>3 DEF Stable, Settled
    <3>3. ~Closing(e)
      BY <3>1, <3>2 DEF Closing, Holds
    <3> QED BY <3>1, <3>3 DEF Ready
  <2>3. /\ \A d \in Coroutines \ T : status[d] # "active" => calls'[d] = calls[d]
        /\ \A w \in Winders : winders'[w] = winders[w] \/ \A e \in Coroutines : ~Keeps(e, w)
        /\ used' \in Nat /\ used <= used'
    BY <1>1, <1>2 DEF Active
  <2>4. ~Winds(Job') /\ (Job').op # "wind-in-out"
    BY <1>7, <1>10, IdleIs
  <2>5. PICK n : n = None
    OBVIOUS
  <2>6. n \notin Coroutines /\ \A e \in Coroutines \ {n} : saved'[e] \in {saved[e], NoWinder}
    BY <1>1, <2>5, NoneIs
  <2> QED BY <1>2, <1>3, <2>1, <2>2, <2>3, <2>4, <2>6, WaitingStays
<1>14. SavedInv'
  <2> SUFFICES ASSUME NEW e \in Coroutines, saved[e] # NoWinder
               PROVE  status'[e] \in {"open", "closed"}
    BY <1>1 DEF SavedInv
  <2>1. status[e] \in {"open", "closed"}
    BY <1>1, <1>2 DEF SavedInv
  <2> QED BY <1>1, <2>1
<1>15. PlacesInv'
  <2>1. ASSUME NEW d \in Coroutines PROVE Passes(calls[d], calls'[d], {"push-frame"})
    <3>1. CASE d \in T
      <4>1. Parked(calls[d])
        BY <1>2, <1>6, <3>1 DEF ShapeInv
      <4> QED BY <4>1 DEF Passes, Holds, Parked, Stable, Settled
    <3>2. CASE d = current
      <4>1. Passes(r, r, {"push-frame"}) /\ r \in Seq(Activations)
        BY <1>4 DEF Passes, Good
      <4>2. Top.op \notin {"push-frame"}
        BY <1>1
      <4>3. Passes(<<Top>> \o r, r, {"push-frame"})
        BY <1>4, <4>1, <4>2, PassesCons
      <4> QED BY <1>4, <1>6, <3>2, <4>3
    <3>3. CASE d \notin T /\ d # current
      BY <1>1, <3>3 DEF Passes
    <3> QED BY <3>1, <3>2, <3>3
  <2>2. InPushes \subseteq InPushes'
    BY <2>1, PushesStay
  <2>3. InFrames' = InFrames
    BY <1>1 DEF InFrames
  <2> QED BY <1>1, <1>2, <1>8, <2>2, <2>3 DEF PlacesInv
<1> QED BY <1>9, <1>12, <1>13, <1>14, <1>15 DEF DInv

(* A coroutine is freed that is open or closed, with those behind it.       *)
LEMMA FreedOver ==
  ASSUME IInv, SInv, calls[current] # << >>, Top.op \in {"resume", "close"},
         Top.co \in Coroutines, status[Top.co] \in {"open", "closed"}, Freed(Top.co, Returned),
         UNCHANGED <<current, frames, saved, winders, used, dead, ins, outs>>
  PROVE  \E T : IsOver(T)
<1>1. TypeInv /\ LinkInv /\ calls \in [Coroutines -> Seq(Activations)]
  BY DEF IInv, SInv, TypeInv
<1>2. PICK T : T = ToSet(ChainFrom(Top.co))
  OBVIOUS
<1>3. PICK c \in Coroutines : c = Top.co
  OBVIOUS
<1>4. /\ Dropped(c, T)
      /\ calls' = [d \in Coroutines |-> IF d \in T THEN << >> ELSE Returned[d]]
  BY <1>1, <1>2, <1>3, DroppedIs
<1>5. \A d \in Coroutines : Returned[d] = IF d = current THEN Tail(calls[d]) ELSE calls[d]
  BY <1>1 DEF Returned
<1>6. IsOver(T)
  BY <1>3, <1>4, <1>5 DEF IsOver, Dropped
<1> QED BY <1>6

(* resume returns, and frees the coroutine if it was closed.                *)
LEMMA ResumedKeeps ==
  ASSUME IInv, IInv', SInv, SInv', DInv, Resumed
  PROVE  DInv'
<1>1. /\ calls[current] # << >> /\ Top.op = "resume"
      /\ UNCHANGED <<current, frames, saved, winders, used, dead, ins, outs>>
      /\ TypeInv /\ calls \in [Coroutines -> Seq(Activations)]
      /\ calls[current] \in Seq(Activations)
  BY DEF Resumed, AtTop, IInv, TypeInv, TypeOK
<1>2. Top.co \in Coroutines
  <2>1. Top \in Activations
    BY <1>1, Split DEF Top
  <2> QED BY <1>1, <2>1, Fields
<1>3. CASE status[Top.co] = "closed"
  <2>1. Freed(Top.co, Returned)
    BY <1>3 DEF Resumed
  <2>2. PICK T : IsOver(T)
    BY <1>1, <1>2, <1>3, <2>1, FreedOver
  <2> QED BY <2>2, OverOn
<1>4. CASE status[Top.co] # "closed"
  <2>1. calls' = Returned /\ UNCHANGED <<parent, status>>
    BY <1>4 DEF Resumed
  <2>2. \A d \in Coroutines : calls'[d] = IF d = current THEN Tail(calls[d]) ELSE calls[d]
    BY <1>1, <2>1 DEF Returned
  <2>3. PICK T : T = {}
    OBVIOUS
  <2>4. IsOver(T)
    BY <1>1, <2>1, <2>2, <2>3 DEF IsOver
  <2> QED BY <2>4, OverOn
<1> QED BY <1>3, <1>4

(* close-coroutine.                                                         *)
LEMMA ClosedKeeps ==
  ASSUME IInv, IInv', SInv, SInv', DInv, Closed
  PROVE  DInv'
<1>1. /\ calls[current] # << >> /\ Top.op = "close" /\ Freed(Top.co, Returned)
      /\ UNCHANGED <<current, frames, saved, winders, used, dead, ins, outs>>
      /\ TypeInv /\ LinkInv /\ calls[current] \in Seq(Activations)
      /\ current \in Active /\ current \in Coroutines
  BY BetweenFirst DEF Closed, AtTop, IInv, SInv, TypeInv, TypeOK
<1>2. Top \in Activations /\ Top = calls[current][1] /\ 1 \in DOMAIN calls[current]
  <2>1. Head(calls[current]) \in Activations /\ Head(calls[current]) = calls[current][1]
        /\ 1 \in DOMAIN calls[current]
    BY <1>1, Rest
  <2> QED BY <2>1 DEF Top
<1>3. Top.co \in Coroutines
  BY <1>1, <1>2, Fields
<1>4. status[Top.co] \in {"open", "closed"}
  <2>1. PICK D \in SUBSET Coroutines : Doomed(D) /\ ClosesBy(D)
    BY DEF SInv, CloseInv
  <2>2. current \notin D
    BY <1>1, <2>1 DEF Doomed, Active
  <2> QED BY <1>1, <1>2, <2>1, <2>2 DEF ClosesBy, MayClose
<1>5. PICK T : IsOver(T)
  BY <1>1, <1>3, <1>4, FreedOver
<1> QED BY <1>5, OverOn

(* The program begins without any frame.                                    *)
LEMMA ContextInit ==
  ASSUME Init, IInv
  PROVE  DInv
<1>1. /\ Main \in Coroutines /\ current = Main /\ Active = {Main}
      /\ \A c \in Coroutines : status[c] \in {"active", "unborn"}
      /\ \A c \in Coroutines : frames[c] = << >> /\ saved[c] = NoWinder
      /\ \A w \in Winders : winders[w] = << >>
      /\ \A f \in Frames : ins[f] = 0 /\ outs[f] = 0
      /\ frames \in [Coroutines -> Seq(Frames)]
  BY BoundsAssumption DEF Init, Main, Coroutines, Active, IInv, TypeInv, TypeOK
<1>2. PICK x \in Activations : x = Body(FALSE) /\ x.op = "body" /\ ~x.thunk
  <2>1. Body(FALSE) \in Activations
    BY DEF Body, Activations
  <2> QED BY <2>1 DEF Body
<1>3. << >> \in Seq(Activations) /\ Good(<< >>) /\ AllStable(<< >>)
  BY ViewNone DEF Good
<1> DEFINE s == <<x>> \o << >>
<1>4. \A c \in Coroutines : calls[c] = IF c = Main THEN s ELSE << >>
  BY <1>2 DEF Init
<1>5. Good(s) /\ JobOf(s) = x /\ ~ToPush(s) /\ WindingsOf(s) = << >>
  <2>1. Good(s)
    BY <1>2, <1>3, GoodCons
  <2>2. JobOf(s) = x /\ ~ToPush(s) /\ WindingsOf(s) = AddWinding(x, WindingsOf(<< >>))
    BY <1>2, <1>3, ViewJob DEF Thunk
  <2> QED BY <1>2, <2>1, <2>2, WindingsNone DEF AddWinding
<1> HIDE DEF s
<1>6. ShapeInv
  <2>1. Parked(<< >>)
    BY <1>3 DEF Parked, AllStable
  <2> QED BY <1>1, <1>3, <1>4, <1>5, <2>1 DEF ShapeInv, Good
<1>7. Job = x /\ Idle(Job) /\ ~ToPush(calls[current])
  BY <1>1, <1>2, <1>4, <1>5 DEF Job, Idle
<1>8. Framed
  BY <1>1, <1>4, <1>5 DEF Framed, Windings
<1>9. Context /\ JobIs(Job) /\ PushIs
  BY <1>1, <1>7, <1>8, ContextIdle
<1>10. WaitingInv
  BY <1>1, <1>2, <1>7 DEF WaitingInv, Keeps, Ready, Winds
<1>11. SavedInv /\ PlacesInv
  BY <1>1 DEF SavedInv, PlacesInv, Frames
<1> QED BY <1>6, <1>9, <1>10, <1>11 DEF DInv

(* Every step keeps the dynamic context, if no thunk does anything besides  *)
(* returning.                                                               *)
LEMMA ContextStep ==
  ASSUME IInv, IInv', SInv, SInv', DInv, ~thrown', Next
  PROVE  DInv'
<1>1. CASE Program
  BY <1>1, ReturnKeeps, CreateKeeps, ResumeKeeps, SuspendKeeps, BreakKeeps, CloseKeeps, CollectKeeps,
     DynamicWindKeeps DEF Program
<1>2. CASE Runtime
  BY <1>2, PushFrameKeeps, BodyEndsKeeps, WindOutKeeps, SuspendedKeeps, ReattachedKeeps, WindInKeeps,
     ResumedKeeps, CoroutineEndsKeeps, BrokenKeeps, WindInOutKeeps, ClosedKeeps DEF Runtime
<1> QED BY <1>1, <1>2 DEF Next

(* So does none.                                                            *)
LEMMA ContextStutter ==
  ASSUME DInv, UNCHANGED vars
  PROVE  DInv'
<1>1. /\ current' = current /\ status' = status /\ parent' = parent /\ calls' = calls
      /\ frames' = frames /\ saved' = saved /\ winders' = winders /\ used' = used /\ dead' = dead
      /\ ins' = ins /\ outs' = outs
  BY DEF vars
<1>2. Active' = Active /\ Job' = Job /\ InFrames' = InFrames /\ InPushes' = InPushes
  BY <1>1 DEF Active, Job, InFrames, InPushes
<1>3. \A c : Up(c)' = Up(c) /\ Between(c)' = Between(c)
  BY <1>1 DEF Up, Between, ChainTo, ChainFrom, Links
<1>4. \A e : Ready(e)' <=> Ready(e)
  BY <1>1 DEF Ready, Closing
<1>5. \A a : WorkOf(a)' = WorkOf(a) /\ Leaving(a)' = Leaving(a)
  BY <1>1, <1>3 DEF WorkOf, Winds, Leaving
<1>6. \A c : Windings(c)' = Windings(c)
  BY <1>1 DEF Windings
<1>7. \A w, S : EntriesIn(w, S)' <=> EntriesIn(w, S)
  BY <1>1 DEF EntriesIn
<1>8. ShapeInv' /\ PushIs' /\ SavedInv' /\ PlacesInv'
  BY <1>1, <1>2 DEF DInv, ShapeInv, PushIs, SavedInv, PlacesInv
<1>9. JobIs(Job)'
  BY <1>1, <1>2, <1>3, <1>7 DEF DInv, JobIs, OutOf
<1>10. Context'
  BY <1>1, <1>2, <1>5, <1>6 DEF DInv, Context
<1>11. WaitingInv'
  <2>1. \A e, l : WaitsWell(e, l)' <=> WaitsWell(e, l)
    BY <1>1, <1>3, <1>5, <1>6, <1>7 DEF WaitsWell
  <2>2. \A e, w : Keeps(e, w)' <=> Keeps(e, w)
    BY <1>1, <1>3, <1>4 DEF Keeps
  <2> QED BY <1>1, <1>2, <1>3, <1>4, <2>1, <2>2 DEF DInv, WaitingInv
<1> QED BY <1>8, <1>9, <1>10, <1>11 DEF DInv

(* What is worked at is on the stack, and so is a frame to be pushed.       *)
LEMMA ViewHolds ==
  ASSUME NEW s \in Seq(Activations)
  PROVE  /\ JobOf(s) = [op |-> "none"] \/ (JobOf(s) \in Activations /\ Holds(s, JobOf(s)))
         /\ ToPush(s) => \E x : Holds(s, x) /\ x.op = "push-frame"
<1> DEFINE Within(t) == t \in Seq(Activations) /\ \A x : Holds(t, x) => Holds(s, x)
<1>1. ASSUME NEW t, Within(t), t # << >>
      PROVE  /\ Head(t) \in Activations /\ Holds(s, Head(t)) /\ Within(Tail(t))
  <2>1. /\ Head(t) \in Activations /\ Head(t) = t[1] /\ 1 \in DOMAIN t /\ Tail(t) \in Seq(Activations)
        /\ \A i \in DOMAIN Tail(t) : i + 1 \in DOMAIN t /\ Tail(t)[i] = t[i + 1]
    BY <1>1, Rest
  <2>2. Holds(t, Head(t)) /\ \A x : Holds(Tail(t), x) => Holds(t, x)
    BY <2>1 DEF Holds
  <2> QED BY <1>1, <2>1, <2>2
<1>2. Within(s)
  OBVIOUS
<1> HIDE DEF Within
<1>3. Within(Bare(s))
  BY <1>1, <1>2 DEF Bare
<1>4. Within(Core(s))
  BY <1>1, <1>3 DEF Core, ToPush
<1>5. JobOf(s) = [op |-> "none"] \/ (JobOf(s) \in Activations /\ Holds(s, JobOf(s)))
  BY <1>1, <1>4 DEF JobOf
<1>6. ToPush(s) => \E x : Holds(s, x) /\ x.op = "push-frame"
  BY <1>1, <1>3 DEF ToPush
<1> QED BY <1>5, <1>6

(* The invariant of the dynamic context: as long as no thunk has done       *)
(* anything besides returning.                                              *)
THEOREM ContextInvariant == Spec => [](IInv /\ (Straight => SInv) /\ (~thrown => DInv))
<1>1. Init /\ IInv => (~thrown => DInv)
  BY ContextInit
<1>2. IInv /\ IInv' /\ (Straight => SInv) /\ (Straight => SInv)' /\ (~thrown => DInv) /\ [Next]_vars
        => (~thrown => DInv)'
  <2> SUFFICES ASSUME IInv, IInv', Straight => SInv, Straight' => SInv', ~thrown => DInv, [Next]_vars,
                      ~thrown'
               PROVE  DInv'
    OBVIOUS
  <2>1. ~thrown
    BY ThrownStays
  <2>2. SInv /\ SInv' /\ DInv
    BY <2>1 DEF Straight
  <2>3. CASE UNCHANGED vars
    BY <2>2, <2>3, ContextStutter
  <2>4. CASE Next
    BY <2>2, <2>4, ContextStep
  <2> QED BY <2>3, <2>4
<1>3. Spec => [](IInv /\ (Straight => SInv))
  BY CoroutinesLinked
<1> QED BY <1>1, <1>2, <1>3, PTL DEF Spec

(* Outside of winding, the frames of each active coroutine are those of the *)
(* dynamic-winds on its stack, and a frame that is wound in belongs to a    *)
(* coroutine that is active.                                                *)
LEMMA ContextHolds ==
  ASSUME IInv, SInv, DInv
  PROVE  WithinFrame /\ OutOfScope
<1>1. /\ TypeInv /\ LinkInv /\ current \in Active /\ current \in Coroutines
      /\ calls[current] \in Seq(Activations) /\ frames \in [Coroutines -> Seq(Frames)]
  BY BetweenFirst DEF IInv, SInv, TypeInv, TypeOK
<1>2. WithinFrame
  <2> SUFFICES ASSUME ~Winding PROVE Framed
    BY DEF WithinFrame, Framed
  <2>1. \A x : Holds(calls[current], x) => x.op \notin InWinding
    BY <1>1 DEF Winding, Holds
  <2>2. ~ToPush(calls[current])
    BY <1>1, <2>1, ViewHolds DEF InWinding
  <2>3. Idle(Job)
    <3>1. CASE Job = [op |-> "none"]
      BY <3>1 DEF Idle
    <3>2. CASE Job # [op |-> "none"]
      <4>1. Job \in Activations /\ Job.op \notin InWinding
        BY <1>1, <2>1, <3>2, ViewHolds DEF Job
      <4> HIDE DEF Job
      <4> QED BY <4>1 DEF Activations, InWinding, Idle
    <3> QED BY <3>1, <3>2
  <2> QED BY <1>1, <2>2, <2>3, ContextIdle DEF DInv
<1>3. OutOfScope
  <2> SUFFICES ASSUME NEW f \in PlainFrames, ins[f] = outs[f] + 1
               PROVE  \E c \in Active : f \in ToSet(frames[c]) \/ BeingPushed(f, c)
    BY DEF OutOfScope
  <2>1. f \in InFrames \cup InPushes
    BY DEF DInv, PlacesInv
  <2>2. CASE f \in InFrames
    <3>1. PICK c \in Coroutines : \E i \in DOMAIN frames[c] : frames[c][i] = f
      BY <2>2 DEF InFrames
    <3>2. frames[c] # << >>
      BY <3>1
    <3>3. c \in Active
      BY <3>2 DEF DInv, PlacesInv
    <3> QED BY <3>1, <3>3 DEF ToSet
  <2>3. CASE f \in InPushes
    <3>1. PICK c \in Coroutines : \E i \in DOMAIN calls[c] : calls[c][i].op = "push-frame" /\ calls[c][i].frame = f
      BY <2>3 DEF InPushes
    <3>2. c = current
      <4>1. c # current => Parked(calls[c])
        BY DEF DInv, ShapeInv
      <4> QED BY <3>1, <4>1 DEF Parked, Stable, Settled
    <3> QED BY <1>1, <3>1, <3>2 DEF BeingPushed
  <2> QED BY <2>1, <2>2, <2>3
<1> QED BY <1>2, <1>3

(* The dynamic context: its frames, their thunks, and the coroutines it is  *)
(* visible in.                                                              *)
THEOREM DynamicContextHolds == Spec => []DynamicContext
<1>1. IInv /\ (Straight => SInv) /\ (~thrown => DInv) => WithinFrame /\ OutOfScope
  <2> SUFFICES ASSUME IInv, Straight => SInv, ~thrown => DInv PROVE WithinFrame /\ OutOfScope
    OBVIOUS
  <2>1. CASE thrown
    BY <2>1 DEF WithinFrame, OutOfScope
  <2>2. CASE ~thrown
    BY <2>2, ContextHolds DEF Straight
  <2> QED BY <2>1, <2>2
<1>2. Spec => []InThenOut
  BY ThunksInTurn
<1>3. Spec => [](IInv /\ (Straight => SInv) /\ (~thrown => DInv))
  BY ContextInvariant
<1>4. WithinFrame /\ OutOfScope /\ InThenOut => DynamicContext
  BY DEF DynamicContext
<1> QED BY <1>1, <1>2, <1>3, <1>4, PTL
=============================================================================
