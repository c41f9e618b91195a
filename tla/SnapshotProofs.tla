--------------------------- MODULE SnapshotProofs ---------------------------
(***************************************************************************)
(* The consistent cut, for any number of nodes and any termination time.   *)
(*                                                                         *)
(* What a copy knows of another node p is at most the termination time     *)
(* (Below), and nothing that anybody knows of a copied p lies between what *)
(* the copy of p has done and the termination time (Gap): so it is part of *)
(* what the copy of p has done.                                            *)
(***************************************************************************)
EXTENDS Snapshot, TLAPS

(* A vector time has an entry that no other exceeds.  Every time has one;    *)
(* that the invariant carries it saves an induction over the nodes.          *)
Dominated(t) == \E k \in Node : \A j \in Node : t[j] <= t[k]

AllDominated == \A v \in stamps : Dominated(v)

CutKnown ==
  \A n \in Node : Marked(n) => \A k \in Node : cut[n][k] <= time[k][k]

MarkedLate ==
  \A p \in Node : Marked(p) => /\ limit[p] = TerminationTime
                               /\ time[p][p] >= TerminationTime

\* A time that somebody may know of p, once there is a copy of p
Allowed(x, p) == x <= cut[p][p] \/ x > TerminationTime

Gap ==
  \A p \in Node : Marked(p) =>
    /\ \A n \in Node \ {p} : Allowed(time[n][p], p)
    /\ \A v \in stamps : Allowed(v[p], p)
    /\ \A n \in Node \ {p} : Marked(n) => Allowed(cut[n][p], p)

Below ==
  Learned => \A n \in Node : \A p \in Node \ {n} :
    /\ Marked(n) => cut[n][p] <= TerminationTime
    /\ ~Marked(n) /\ limit[n] # 0 => time[n][p] < TerminationTime

Inv ==
  /\ TypeOK
  /\ LocalTimeIsLargest
  /\ AllDominated
  /\ NoFutureTime
  /\ CutKnown
  /\ MarkedLate
  /\ Gap
  /\ Below

-----------------------------------------------------------------------------
(* The operators of VectorTime                                              *)

LEMMA NoTimeFacts == NoTime \in Time /\ Dominated(NoTime)
<1>1. NoTime \in Time /\ \A j \in Node : NoTime[j] = 0
  BY DEF NoTime, Time
<1>2. PICK k \in Node : TRUE
  BY NodeAssumption
<1>3. ASSUME NEW j \in Node PROVE NoTime[j] <= NoTime[k]
  <2>1. NoTime[j] = 0 /\ NoTime[k] = 0
    BY <1>1, <1>2
  <2> QED BY <2>1
<1>4. Dominated(NoTime)
  BY <1>2, <1>3 DEF Dominated
<1> QED BY <1>1, <1>4

\* A vector time is no absent copy.
LEMMA TimeIsCut == ASSUME NEW t \in Time PROVE t # NoCut
<1>1. DOMAIN t = Node
  BY DEF Time
<1>2. DOMAIN NoCut = {}
  BY DEF NoCut
<1> QED BY <1>1, <1>2, NodeAssumption

\* The maximum is the value of an entry, and none exceeds it.
LEMMA MaximumFacts ==
  ASSUME NEW t \in Time, Dominated(t)
  PROVE  /\ getMaximum(t) \in Nat
         /\ \A j \in Node : t[j] <= getMaximum(t)
         /\ \E k \in Node : getMaximum(t) = t[k]
<1> DEFINE top == CHOOSE k \in Node : \A j \in Node : t[j] <= t[k]
<1>1. top \in Node /\ \A j \in Node : t[j] <= t[top]
  BY DEF Dominated
<1>2. getMaximum(t) = t[top]
  BY DEF getMaximum
<1> QED BY <1>1, <1>2 DEF Time

\* merge takes every entry from one of the two, and lowers none.
LEMMA MergeFacts ==
  ASSUME NEW s \in Time, NEW t \in Time
  PROVE  /\ merge(s, t) \in Time
         /\ \A k \in Node : /\ merge(s, t)[k] \in {s[k], t[k]}
                            /\ s[k] <= merge(s, t)[k]
                            /\ t[k] <= merge(s, t)[k]
  BY DEF merge, Time

LEMMA MergeDominated ==
  ASSUME NEW s \in Time, NEW t \in Time, Dominated(s), Dominated(t)
  PROVE  Dominated(merge(s, t))
<1>1. PICK i \in Node : \A j \in Node : s[j] <= s[i]
  BY DEF Dominated
<1>2. PICK k \in Node : \A j \in Node : t[j] <= t[k]
  BY DEF Dominated
<1>0. \A j \in Node : /\ s[j] \in Nat /\ t[j] \in Nat
                     /\ merge(s, t)[j] = IF s[j] < t[j] THEN t[j] ELSE s[j]
  BY DEF merge, Time
<1>3. CASE t[k] <= s[i]
  <2>1. ASSUME NEW j \in Node PROVE merge(s, t)[j] <= merge(s, t)[i]
    <3>1. s[j] <= s[i] /\ t[j] <= t[k]
      BY <1>1, <1>2
    <3>2. merge(s, t)[j] <= s[i] /\ s[i] <= merge(s, t)[i]
      BY <1>0, <1>3, <3>1
    <3> QED BY <1>0, <3>2
  <2> QED BY <2>1 DEF Dominated
<1>4. CASE ~(t[k] <= s[i])
  <2>1. ASSUME NEW j \in Node PROVE merge(s, t)[j] <= merge(s, t)[k]
    <3>1. s[j] <= s[i] /\ t[j] <= t[k]
      BY <1>1, <1>2
    <3>2. merge(s, t)[j] <= t[k] /\ t[k] <= merge(s, t)[k]
      BY <1>0, <1>4, <3>1
    <3> QED BY <1>0, <3>2
  <2> QED BY <2>1 DEF Dominated
<1> QED BY <1>3, <1>4

\* The clock after a message: above all it has known and all that came with
\* the message, and no other entry invented.
LEMMA ReceivedFacts ==
  ASSUME TypeOK, LocalTimeIsLargest, NEW n \in Node, NEW v \in Time,
         Dominated(v)
  PROVE  /\ Received(n, v) \in Time
         /\ \A k \in Node : Received(n, v)[k] <= Received(n, v)[n]
         /\ \A k \in Node \ {n} :
              /\ Received(n, v)[k] \in {time[n][k], v[k]}
              /\ Received(n, v)[k] < Received(n, v)[n]
         /\ time[n][n] < Received(n, v)[n]
<1> DEFINE merged == merge(time[n], v)
           M == getMaximum(merged)
<1>1. time[n] \in Time /\ Dominated(time[n])
  BY DEF TypeOK, LocalTimeIsLargest, Dominated
<1>2. merged \in Time /\ Dominated(merged)
  BY <1>1, MergeFacts, MergeDominated
<1>3. M \in Nat /\ \A j \in Node : merged[j] <= M
  BY <1>2, MaximumFacts
<1>4. \A k \in Node : merged[k] \in {time[n][k], v[k]} /\ time[n][k] <= merged[k]
  BY <1>1, MergeFacts
<1> HIDE DEF merged, M
<1>5. /\ setTime(merged, n, M) \in Time
      /\ setTime(merged, n, M)[n] = M
      /\ \A k \in Node \ {n} : setTime(merged, n, M)[k] = merged[k]
  BY <1>2, <1>3 DEF setTime, Time
<1>6. /\ Received(n, v) \in Time
      /\ Received(n, v)[n] = M + 1
      /\ \A k \in Node \ {n} : Received(n, v)[k] = merged[k]
  <2>1. Received(n, v) = increase(setTime(merged, n, M), n)
    BY DEF Received, merged, M
  <2> QED BY <2>1, <1>3, <1>5 DEF increase, Time
<1>7. \A k \in Node : merged[k] \in Nat /\ time[n][k] \in Nat
  BY <1>1, <1>2 DEF Time
<1> QED BY <1>3, <1>4, <1>6, <1>7

-----------------------------------------------------------------------------
(* One step from a clock base, at which nothing is known that was not known  *)
(* before, to a clock now: what Begin and Handle have in common.             *)

\* Every entry but n's own comes from n or from a message on its way to n.
Base(n, v, base) ==
  /\ base \in Time
  /\ \A k \in Node : base[k] <= base[n]
  /\ \A k \in Node \ {n} : base[k] \in {time[n][k], v[k]}
  /\ time[n][n] <= base[n]

LEMMA WorkingFacts ==
  ASSUME TypeOK, NEW n \in Node, NEW v \in stamps \cup {NoTime},
         NEW base, Base(n, v, base), Working(n, base)
  PROVE  /\ time' \in [Node -> Time]
         /\ \A m \in Node \ {n} : time'[m] = time[m]
         /\ \A k \in Node \ {n} : time'[n][k] = base[k]
         /\ base[n] <= time'[n][n]
         /\ \A x \in stamps' : \/ x \in stamps \cup {NoTime}
                               \/ /\ x \in Time
                                  /\ \A k \in Node \ {n} : x[k] = base[k]
                                  /\ base[n] < x[n] /\ x[n] <= time'[n][n]
<1> DEFINE now == time'[n][n]
<1>1. /\ time' = [time EXCEPT ![n] = [base EXCEPT ![n] = now]]
      /\ now \in Nat /\ now >= base[n]
      /\ stamps' \subseteq stamps \cup Stamped(n, base, now) \cup {NoTime}
  BY DEF Working
<1> HIDE DEF now
<1>2. base \in [Node -> Nat] /\ time \in [Node -> Time]
  BY DEF Base, TypeOK, Time
<1>3. /\ [base EXCEPT ![n] = now] \in Time
      /\ \A k \in Node \ {n} : [base EXCEPT ![n] = now][k] = base[k]
      /\ [base EXCEPT ![n] = now][n] = now
  BY <1>1, <1>2 DEF Time
<1>4. /\ time' \in [Node -> Time]
      /\ \A m \in Node \ {n} : time'[m] = time[m]
      /\ time'[n] = [base EXCEPT ![n] = now]
  BY <1>1, <1>2, <1>3
<1>5. ASSUME NEW x \in Stamped(n, base, now)
      PROVE  /\ x \in Time
             /\ \A k \in Node \ {n} : x[k] = base[k]
             /\ base[n] < x[n] /\ x[n] <= now
  <2>1. PICK t \in base[n] + 1 .. now : x = [base EXCEPT ![n] = t]
    BY DEF Stamped
  <2>2. base[n] \in Nat
    BY <1>2
  <2>3. t \in Nat /\ base[n] < t /\ t <= now
    BY <1>1, <2>1, <2>2
  <2> QED BY <1>2, <2>1, <2>3 DEF Time
<1> QED BY <1>1, <1>3, <1>4, <1>5 DEF now

\* The bases of Begin and of Handle
LEMMA BeginBase ==
  ASSUME Inv, NEW n \in Node
  PROVE  Base(n, NoTime, time[n])
  BY DEF Inv, TypeOK, LocalTimeIsLargest, Base, Time

LEMMA StampFacts ==
  ASSUME Inv, NEW v \in stamps \cup {NoTime}
  PROVE  v \in Time /\ Dominated(v) /\ \A k \in Node : v[k] <= time[k][k]
<1>1. CASE v \in stamps
  BY <1>1 DEF Inv, TypeOK, AllDominated, NoFutureTime
<1>2. CASE v = NoTime
  <2>1. \A k \in Node : NoTime[k] = 0 /\ time[k][k] \in Nat
    BY DEF NoTime, Inv, TypeOK, Time
  <2> QED BY <1>2, <2>1, NoTimeFacts
<1> QED BY <1>1, <1>2

LEMMA HandleBase ==
  ASSUME Inv, NEW n \in Node, NEW v \in stamps \cup {NoTime}
  PROVE  Base(n, v, Received(n, v))
<1>1. v \in Time /\ Dominated(v)
  BY StampFacts
<1>2. time[n][n] \in Nat
  BY DEF Inv, TypeOK, Time
<1>3. Received(n, v)[n] \in Nat /\ TypeOK /\ LocalTimeIsLargest
  BY <1>1, ReceivedFacts DEF Inv, Time
<1> QED BY <1>1, <1>2, <1>3, ReceivedFacts DEF Base

\* What the clocks and the messages keep
LEMMA WorkingKeeps ==
  ASSUME Inv, NEW n \in Node, NEW v \in stamps \cup {NoTime},
         NEW base, Base(n, v, base), Working(n, base)
  PROVE  /\ time' \in [Node -> Time] /\ stamps' \subseteq Time
         /\ LocalTimeIsLargest' /\ AllDominated' /\ NoFutureTime'
         /\ \A k \in Node : time[k][k] <= time'[k][k]
<1> USE DEF Inv
<1>1. /\ time' \in [Node -> Time]
      /\ \A m \in Node \ {n} : time'[m] = time[m]
      /\ \A k \in Node \ {n} : time'[n][k] = base[k]
      /\ base[n] <= time'[n][n]
      /\ \A x \in stamps' : \/ x \in stamps \cup {NoTime}
                            \/ /\ x \in Time
                               /\ \A k \in Node \ {n} : x[k] = base[k]
                               /\ base[n] < x[n] /\ x[n] <= time'[n][n]
  BY WorkingFacts
<1>2. /\ \A m, k \in Node : time[m][k] \in Nat /\ time'[m][k] \in Nat
      /\ \A k \in Node : base[k] \in Nat /\ base[k] <= base[n]
  BY <1>1 DEF Base, TypeOK, Time
<1>3. ASSUME NEW k \in Node PROVE time[k][k] <= time'[k][k]
  <2>1. CASE k = n
    BY <1>1, <1>2, <2>1 DEF Base
  <2>2. CASE k # n
    BY <1>1, <1>2, <2>2
  <2> QED BY <2>1, <2>2
<1>4. ASSUME NEW k \in Node \ {n} PROVE base[k] <= time[k][k]
  BY StampFacts DEF Base, NoFutureTime
<1>5. LocalTimeIsLargest'
  <2> SUFFICES ASSUME NEW m \in Node, NEW k \in Node
               PROVE  time'[m][k] <= time'[m][m]
    BY DEF LocalTimeIsLargest
  <2>1. CASE m # n
    BY <1>1, <2>1 DEF LocalTimeIsLargest
  <2>2. CASE m = n /\ k # n
    BY <1>1, <1>2, <2>2
  <2>3. CASE m = n /\ k = n
    BY <1>2, <2>3
  <2> QED BY <2>1, <2>2, <2>3
<1>6. ASSUME NEW x \in stamps'
      PROVE  /\ x \in Time /\ Dominated(x)
             /\ \A k \in Node : x[k] <= time'[k][k]
  <2>1. CASE x \in stamps \cup {NoTime}
    <3>1. x \in Time /\ Dominated(x) /\ \A k \in Node : x[k] <= time[k][k]
      BY <2>1, StampFacts
    <3>2. \A k \in Node : x[k] \in Nat
      BY <3>1 DEF Time
    <3> QED BY <1>2, <1>3, <3>1, <3>2
  <2>2. CASE /\ x \in Time
             /\ \A k \in Node \ {n} : x[k] = base[k]
             /\ base[n] < x[n] /\ x[n] <= time'[n][n]
    <3>1. \A k \in Node : x[k] \in Nat
      BY <2>2 DEF Time
    <3>2. ASSUME NEW k \in Node PROVE x[k] <= x[n]
      BY <1>2, <2>2, <3>1
    <3>3. ASSUME NEW k \in Node PROVE x[k] <= time'[k][k]
      <4>1. CASE k = n
        BY <2>2, <4>1
      <4>2. CASE k # n
        <5>1. x[k] = base[k] /\ base[k] <= time[k][k] /\ time[k][k] <= time'[k][k]
          BY <1>3, <1>4, <2>2, <4>2
        <5> QED BY <1>2, <5>1
      <4> QED BY <4>1, <4>2
    <3>4. Dominated(x)
      BY <3>2 DEF Dominated
    <3> QED BY <2>2, <3>3, <3>4
  <2> QED BY <1>1, <2>1, <2>2
<1>7. NoFutureTime'
  <2>1. ASSUME NEW k \in Node, NEW m \in Node PROVE time'[m][k] <= time'[k][k]
    <3>1. CASE m # n
      <4>1. time'[m][k] = time[m][k] /\ time[m][k] <= time[k][k]
        BY <1>1, <3>1 DEF NoFutureTime
      <4> QED BY <1>2, <1>3, <4>1
    <3>2. CASE m = n /\ k # n
      <4>1. /\ time'[m][k] = base[k] /\ base[k] <= time[k][k]
            /\ time[k][k] <= time'[k][k]
        BY <1>1, <1>3, <1>4, <3>2
      <4> QED BY <1>2, <4>1
    <3>3. CASE m = n /\ k = n
      BY <1>2, <3>3
    <3> QED BY <3>1, <3>2, <3>3
  <2> QED BY <1>6, <2>1 DEF NoFutureTime
<1>8. AllDominated' /\ stamps' \subseteq Time
  BY <1>6 DEF AllDominated, Dominated
<1> QED BY <1>1, <1>3, <1>5, <1>7, <1>8

-----------------------------------------------------------------------------
(* The copies                                                               *)

\* What is added to the copy comes from the node or from a message of the past.
Added(n, v, C) ==
  /\ C \in Time
  /\ \A k \in Node : \/ C[k] = Before(n)[k]
                     \/ C[k] = v[k] /\ v[k] <= TerminationTime
  /\ \A k \in Node : Before(n)[k] <= C[k]

Copied(n, v, C) ==
  /\ cut' = [cut EXCEPT ![n] = C]
  /\ Added(n, v, C)
  /\ limit[n] = TerminationTime
  /\ Received(n, v)[n] >= TerminationTime

NotCopied(n, v) ==
  /\ cut' = cut
  /\ ~Marked(n)
  /\ limit[n] # 0 => Received(n, v)[n] < TerminationTime

LEMMA BeforeFacts ==
  ASSUME Inv, NEW n \in Node
  PROVE  /\ Before(n) \in Time
         /\ \A k \in Node : Before(n)[k] <= time[k][k]
         /\ limit[n] # 0 => \A k \in Node \ {n} :
              Learned => Before(n)[k] <= TerminationTime
         /\ Before(n)[n] <= time[n][n]
<1> USE DEF Inv
<1>1. CASE Marked(n)
  <2>1. Before(n) = cut[n] /\ cut[n] \in Time
    BY <1>1 DEF Before, Marked, TypeOK
  <2> QED BY <1>1, <2>1 DEF CutKnown, Below
<1>2. CASE ~Marked(n)
  <2>1. Before(n) = time[n] /\ time[n] \in Time
    BY <1>2 DEF Before, TypeOK
  <2>2. \A k \in Node \ {n} : Learned /\ limit[n] # 0 => time[n][k] < TerminationTime
    BY <1>2 DEF Below
  <2>3. \A k \in Node : time[n][k] \in Nat
    BY <2>1 DEF Time
  <2>4. ASSUME NEW k \in Node \ {n}, Learned, limit[n] # 0
        PROVE  time[n][k] <= TerminationTime
    BY <2>2, <2>3, <2>4, TimeAssumption
  <2> QED BY <2>1, <2>4 DEF NoFutureTime
<1> QED BY <1>1, <1>2

LEMMA CopyFacts ==
  ASSUME Inv, NEW n \in Node, NEW v \in stamps \cup {NoTime}, Copy(n, v)
  PROVE  NotCopied(n, v) \/ \E C : Copied(n, v, C)
<1>1. limit[n] \in {0, TerminationTime} /\ cut \in [Node -> Time \cup {NoCut}]
  BY DEF Inv, TypeOK
<1>2. v \in Time /\ Dominated(v)
  BY StampFacts
<1>3. /\ Received(n, v)[n] \in Nat /\ time[n][n] < Received(n, v)[n]
      /\ time[n][n] \in Nat
  BY <1>2, ReceivedFacts DEF Inv, TypeOK, Time
<1>4. Before(n) \in Time
  BY BeforeFacts
<1>5. CASE Marked(n) \/ isTerminated(Received(n, v)[n], limit[n])
  <2>1. limit[n] = TerminationTime /\ Received(n, v)[n] >= TerminationTime
    <3>1. CASE Marked(n)
      <4>1. limit[n] = TerminationTime /\ time[n][n] >= TerminationTime
        BY <3>1 DEF Inv, MarkedLate
      <4> QED BY <1>3, <4>1, TimeAssumption
    <3>2. CASE isTerminated(Received(n, v)[n], limit[n])
      BY <1>1, <3>2, TimeAssumption DEF isTerminated
    <3> QED BY <1>5, <3>1, <3>2
  <2>2. CASE cut' = [cut EXCEPT ![n] = Before(n)]
    <3>1. \A k \in Node : Before(n)[k] <= Before(n)[k]
      BY <1>4 DEF Time
    <3>2. Added(n, v, Before(n))
      BY <1>4, <3>1 DEF Added
    <3>3. Copied(n, v, Before(n))
      BY <2>1, <2>2, <3>2 DEF Copied
    <3> QED BY <3>3
  <2>3. CASE /\ getMaximum(v) <= limit[n]
             /\ cut' = [cut EXCEPT ![n] = merge(Before(n), v)]
    <3>1. merge(Before(n), v) \in Time
      BY <1>2, <1>4, MergeFacts
    <3>2. \A k \in Node : v[k] <= TerminationTime
      <4>1. getMaximum(v) \in Nat /\ \A k \in Node : v[k] <= getMaximum(v)
        BY <1>2, MaximumFacts
      <4>2. \A k \in Node : v[k] \in Nat
        BY <1>2 DEF Time
      <4> QED BY <2>1, <2>3, <4>1, <4>2, TimeAssumption
    <3>3. \A k \in Node : /\ merge(Before(n), v)[k] \in {Before(n)[k], v[k]}
                          /\ Before(n)[k] <= merge(Before(n), v)[k]
      BY <1>2, <1>4, MergeFacts
    <3>4. Copied(n, v, merge(Before(n), v))
      BY <2>1, <2>3, <3>1, <3>2, <3>3 DEF Copied, Added
    <3> QED BY <3>4
  <2> QED BY <1>5, <2>2, <2>3 DEF Copy
<1>6. CASE ~(Marked(n) \/ isTerminated(Received(n, v)[n], limit[n]))
  <2>1. cut' = cut /\ ~Marked(n)
    BY <1>6 DEF Copy
  <2>2. ASSUME limit[n] # 0 PROVE Received(n, v)[n] < TerminationTime
    BY <1>1, <1>3, <1>6, <2>2, TimeAssumption DEF isTerminated
  <2> QED BY <2>1, <2>2 DEF NotCopied
<1> QED BY <1>5, <1>6

\* Nothing that a node knows of another, or a message tells, is news to the
\* invariant: the entries of a base are allowed.
LEMMA BaseAllowed ==
  ASSUME Inv, NEW n \in Node, NEW v \in stamps \cup {NoTime},
         NEW base, Base(n, v, base), NEW p \in Node \ {n}, Marked(p)
  PROVE  /\ Allowed(base[p], p) /\ Allowed(time[n][p], p)
         /\ Allowed(v[p], p) /\ Allowed(NoTime[p], p)
<1>1. cut[p] \in Time
  BY DEF Inv, TypeOK, Marked
<1>2. NoTime[p] = 0 /\ cut[p][p] \in Nat
  BY <1>1 DEF NoTime, Time
<1>3. Allowed(NoTime[p], p)
  BY <1>2 DEF Allowed
<1>4. Allowed(v[p], p) /\ Allowed(time[n][p], p)
  BY <1>3 DEF Inv, Gap
<1> QED BY <1>3, <1>4 DEF Base

\* A step that makes no copy: Begin, and Handle before the termination time
LEMMA PlainStep ==
  ASSUME Inv, NEW n \in Node, NEW v \in stamps \cup {NoTime},
         NEW base, Base(n, v, base), Working(n, base),
         cut' = cut, UNCHANGED <<limit, onTime>>,
         Learned /\ ~Marked(n) /\ limit[n] # 0 =>
           \A p \in Node \ {n} : base[p] < TerminationTime
  PROVE  Inv'
<1>1. /\ time' \in [Node -> Time] /\ stamps' \subseteq Time
      /\ LocalTimeIsLargest' /\ AllDominated' /\ NoFutureTime'
      /\ \A k \in Node : time[k][k] <= time'[k][k]
  BY WorkingKeeps
<1>2. /\ \A m \in Node \ {n} : time'[m] = time[m]
      /\ \A k \in Node \ {n} : time'[n][k] = base[k]
      /\ \A x \in stamps' : \/ x \in stamps \cup {NoTime}
                            \/ /\ x \in Time
                               /\ \A k \in Node \ {n} : x[k] = base[k]
                               /\ base[n] < x[n] /\ x[n] <= time'[n][n]
  BY WorkingFacts DEF Inv
<1>3. \A m, k \in Node : time[m][k] \in Nat /\ time'[m][k] \in Nat
  BY <1>1 DEF Inv, TypeOK, Time
<1>4. TypeOK'
  BY <1>1 DEF Inv, TypeOK
<1>5. \A m \in Node : Marked(m)' = Marked(m)
  BY DEF Marked
<1>6. \A m \in Node : Marked(m) => \A k \in Node : cut[m][k] \in Nat
  BY DEF Inv, TypeOK, Marked, Time
<1>7. CutKnown'
  <2> SUFFICES ASSUME NEW m \in Node, Marked(m), NEW k \in Node
               PROVE  cut[m][k] <= time'[k][k]
    BY <1>5 DEF CutKnown
  <2>1. cut[m][k] <= time[k][k] /\ time[k][k] <= time'[k][k]
    BY <1>1 DEF Inv, CutKnown
  <2> QED BY <1>3, <1>6, <2>1
<1>8. MarkedLate'
  <2> SUFFICES ASSUME NEW p \in Node, Marked(p)
               PROVE  limit[p] = TerminationTime /\ time'[p][p] >= TerminationTime
    BY <1>5 DEF MarkedLate
  <2>1. /\ limit[p] = TerminationTime /\ time[p][p] >= TerminationTime
        /\ time[p][p] <= time'[p][p]
    BY <1>1 DEF Inv, MarkedLate
  <2> QED BY <1>3, <2>1, TimeAssumption
<1>9. Gap'
  <2> SUFFICES ASSUME NEW p \in Node, Marked(p)
               PROVE  /\ \A m \in Node \ {p} : Allowed(time'[m][p], p)
                      /\ \A x \in stamps' : Allowed(x[p], p)
                      /\ \A m \in Node \ {p} : Marked(m) => Allowed(cut[m][p], p)
    BY <1>5 DEF Gap, Allowed
  <2>1. /\ \A m \in Node \ {p} : Allowed(time[m][p], p)
        /\ \A x \in stamps : Allowed(x[p], p)
        /\ \A m \in Node \ {p} : Marked(m) => Allowed(cut[m][p], p)
    BY DEF Inv, Gap
  <2>2. CASE p # n
    <3>1. Allowed(base[p], p) /\ Allowed(NoTime[p], p)
      BY <2>2, BaseAllowed
    <3> QED BY <1>2, <2>1, <2>2, <3>1
  <2>3. CASE p = n
    <3>1. /\ base[n] \in Nat /\ time[n][n] <= base[n] /\ time[n][n] \in Nat
          /\ time[n][n] >= TerminationTime
      BY <1>3, <2>3 DEF Base, Time, Inv, MarkedLate
    <3>2. Allowed(NoTime[p], p)
      BY <1>6 DEF NoTime, Allowed
    <3>3. ASSUME NEW x \in stamps' PROVE Allowed(x[p], p)
      <4>1. CASE x \in stamps \cup {NoTime}
        BY <2>1, <3>2, <4>1
      <4>2. CASE x \in Time /\ base[n] < x[n]
        <5>1. x[n] \in Nat
          BY <4>2 DEF Time
        <5> QED BY <2>3, <3>1, <4>2, <5>1, TimeAssumption DEF Allowed
      <4> QED BY <1>2, <4>1, <4>2
    <3> QED BY <1>2, <2>1, <2>3, <3>3
  <2> QED BY <2>2, <2>3
<1>10. Below'
  <2> SUFFICES ASSUME Learned, NEW m \in Node, NEW p \in Node \ {m}
               PROVE  /\ Marked(m) => cut[m][p] <= TerminationTime
                      /\ ~Marked(m) /\ limit[m] # 0 => time'[m][p] < TerminationTime
    BY <1>5 DEF Below, Learned
  <2>1. /\ Marked(m) => cut[m][p] <= TerminationTime
        /\ ~Marked(m) /\ limit[m] # 0 => time[m][p] < TerminationTime
    BY DEF Inv, Below
  <2> QED BY <1>2, <2>1
<1> QED BY <1>1, <1>4, <1>7, <1>8, <1>9, <1>10 DEF Inv

LEMMA BeginKeeps ==
  ASSUME Inv, NEW n \in Node, Begin(n)
  PROVE  Inv'
<1>1. Base(n, NoTime, time[n])
  BY BeginBase
<1>2. Learned /\ ~Marked(n) /\ limit[n] # 0 =>
        \A p \in Node \ {n} : time[n][p] < TerminationTime
  BY DEF Inv, Below
<1> QED BY <1>1, <1>2, PlainStep DEF Begin

\* A step that makes or extends the copy of n
LEMMA CopyStep ==
  ASSUME Inv, NEW n \in Node, NEW v \in stamps \cup {NoTime},
         Working(n, Received(n, v)), UNCHANGED <<limit, onTime>>,
         NEW C, Copied(n, v, C)
  PROVE  Inv'
<1> DEFINE base == Received(n, v)
<1>0. Base(n, v, base)
  BY HandleBase
<1>1. /\ time' \in [Node -> Time] /\ stamps' \subseteq Time
      /\ LocalTimeIsLargest' /\ AllDominated' /\ NoFutureTime'
      /\ \A k \in Node : time[k][k] <= time'[k][k]
  BY <1>0, WorkingKeeps
<1>2. /\ \A m \in Node \ {n} : time'[m] = time[m]
      /\ \A k \in Node \ {n} : time'[n][k] = base[k]
      /\ base[n] <= time'[n][n]
      /\ \A x \in stamps' : \/ x \in stamps \cup {NoTime}
                            \/ /\ x \in Time
                               /\ \A k \in Node \ {n} : x[k] = base[k]
                               /\ base[n] < x[n] /\ x[n] <= time'[n][n]
  BY <1>0, WorkingFacts DEF Inv
<1>3. /\ \A m, k \in Node : time[m][k] \in Nat /\ time'[m][k] \in Nat
      /\ base[n] \in Nat /\ base[n] >= TerminationTime
  BY <1>0, <1>1 DEF Inv, TypeOK, Time, Base, Copied
<1> HIDE DEF base
<1>4. /\ cut' = [cut EXCEPT ![n] = C] /\ C \in Time
      /\ limit[n] = TerminationTime
      /\ \A k \in Node : \/ C[k] = Before(n)[k]
                         \/ C[k] = v[k] /\ v[k] <= TerminationTime
      /\ \A k \in Node : Before(n)[k] <= C[k]
  BY DEF Copied, Added
<1>5. cut \in [Node -> Time \cup {NoCut}]
  BY DEF Inv, TypeOK
<1>6. /\ cut'[n] = C /\ Marked(n)'
      /\ \A m \in Node \ {n} : cut'[m] = cut[m] /\ Marked(m)' = Marked(m)
  BY <1>4, <1>5, TimeIsCut DEF Marked
<1>7. TypeOK'
  BY <1>1, <1>4, <1>5 DEF Inv, TypeOK
<1>8. \A m \in Node : Marked(m) => \A k \in Node : cut[m][k] \in Nat
  BY DEF Inv, TypeOK, Marked, Time
<1>9. \A k \in Node : C[k] \in Nat /\ C[k] <= time[k][k]
  <2>1. \A k \in Node : v[k] <= time[k][k]
    BY StampFacts
  <2>2. \A k \in Node : Before(n)[k] <= time[k][k]
    BY BeforeFacts
  <2> QED BY <1>4, <2>1, <2>2 DEF Time
<1>10. CutKnown'
  <2> SUFFICES ASSUME NEW m \in Node, Marked(m)', NEW k \in Node
               PROVE  cut'[m][k] <= time'[k][k]
    BY DEF CutKnown
  <2>1. cut'[m][k] \in Nat /\ cut'[m][k] <= time[k][k]
    <3>1. CASE m = n
      BY <1>6, <1>9, <3>1
    <3>2. CASE m # n
      BY <1>6, <1>8, <3>2 DEF Inv, CutKnown
    <3> QED BY <3>1, <3>2
  <2> QED BY <1>1, <1>3, <2>1
<1>11. MarkedLate'
  <2> SUFFICES ASSUME NEW p \in Node, Marked(p)'
               PROVE  limit[p] = TerminationTime /\ time'[p][p] >= TerminationTime
    BY DEF MarkedLate
  <2>1. CASE p = n
    BY <1>2, <1>3, <1>4, <2>1, TimeAssumption
  <2>2. CASE p # n
    <3>1. /\ limit[p] = TerminationTime /\ time[p][p] >= TerminationTime
          /\ time[p][p] <= time'[p][p]
      BY <1>1, <1>6, <2>2 DEF Inv, MarkedLate
    <3> QED BY <1>3, <3>1, TimeAssumption
  <2> QED BY <2>1, <2>2
<1>12. ASSUME NEW p \in Node \ {n}, Marked(p)
       PROVE  /\ \A m \in Node \ {p} : Allowed(time'[m][p], p)
              /\ \A x \in stamps' : Allowed(x[p], p)
              /\ \A m \in Node \ {p} : Marked(m)' => Allowed(cut'[m][p], p)
  <2>1. /\ \A m \in Node \ {p} : Allowed(time[m][p], p)
        /\ \A x \in stamps : Allowed(x[p], p)
        /\ \A m \in Node \ {p} : Marked(m) => Allowed(cut[m][p], p)
    BY <1>12 DEF Inv, Gap
  <2>2. Allowed(base[p], p) /\ Allowed(v[p], p) /\ Allowed(NoTime[p], p)
    BY <1>0, <1>12, BaseAllowed
  <2>3. Allowed(C[p], p)
    <3>1. Allowed(Before(n)[p], p)
      BY <2>1 DEF Before
    <3> QED BY <1>4, <2>2, <3>1
  <2>4. \A m \in Node \ {p} : Allowed(time'[m][p], p)
    BY <1>2, <2>1, <2>2
  <2>5. \A x \in stamps' : Allowed(x[p], p)
    BY <1>2, <2>1, <2>2
  <2>6. \A m \in Node \ {p} : Marked(m)' => Allowed(cut'[m][p], p)
    BY <1>6, <2>1, <2>3
  <2> QED BY <2>4, <2>5, <2>6
<1> DEFINE Fits(x) == x <= C[n] \/ x > TerminationTime
<1>13. ASSUME NEW x \in Nat,
              (Marked(n) /\ Allowed(x, n)) \/ (~Marked(n) /\ x <= time[n][n])
       PROVE  Fits(x)
  <2>1. CASE Marked(n)
    <3>1. Before(n)[n] = cut[n][n] /\ cut[n][n] \in Nat
      BY <1>8, <2>1 DEF Before
    <3> QED BY <1>4, <1>9, <1>13, <2>1, <3>1 DEF Allowed
  <2>2. CASE ~Marked(n)
    <3>1. Before(n)[n] = time[n][n]
      BY <2>2 DEF Before
    <3> QED BY <1>3, <1>4, <1>9, <1>13, <2>2, <3>1
  <2> QED BY <2>1, <2>2
<1>14. /\ \A m \in Node \ {n} : Fits(time'[m][n])
       /\ \A x \in stamps' : Fits(x[n])
       /\ \A m \in Node \ {n} : Marked(m)' => Fits(cut'[m][n])
  <2>1. ASSUME NEW m \in Node \ {n} PROVE Fits(time'[m][n])
    <3>1. time'[m][n] = time[m][n] /\ time[m][n] \in Nat /\ time[m][n] <= time[n][n]
      BY <1>2, <1>3 DEF Inv, NoFutureTime
    <3>2. Marked(n) => Allowed(time[m][n], n)
      BY DEF Inv, Gap
    <3>3. Fits(time[m][n])
      BY <1>13, <3>1, <3>2
    <3> QED BY <3>1, <3>3
  <2>2. ASSUME NEW x \in stamps' PROVE Fits(x[n])
    <3>1. CASE x \in stamps
      <4>1. x[n] \in Nat /\ x[n] <= time[n][n]
        BY <3>1 DEF Inv, TypeOK, NoFutureTime, Time
      <4>2. Marked(n) => Allowed(x[n], n)
        BY <3>1 DEF Inv, Gap
      <4> HIDE DEF Fits
      <4> QED BY <1>13, <4>1, <4>2
    <3>2. CASE x = NoTime
      BY <1>9, <3>2 DEF NoTime
    <3>3. CASE x \in Time /\ base[n] < x[n]
      <4>1. x[n] \in Nat
        BY <3>3 DEF Time
      <4> QED BY <1>3, <3>3, <4>1, TimeAssumption
    <3> QED BY <1>2, <3>1, <3>2, <3>3
  <2>3. ASSUME NEW m \in Node \ {n}, Marked(m)' PROVE Fits(cut'[m][n])
    <3>1. Marked(m) /\ cut'[m][n] = cut[m][n]
      BY <1>6, <2>3
    <3>2. cut[m][n] \in Nat /\ cut[m][n] <= time[n][n]
      BY <1>8, <3>1 DEF Inv, CutKnown
    <3>3. Marked(n) => Allowed(cut[m][n], n)
      BY <3>1 DEF Inv, Gap
    <3>4. Fits(cut[m][n])
      BY <1>13, <3>2, <3>3
    <3> QED BY <3>1, <3>4
  <2> QED BY <2>1, <2>2, <2>3
<1>15. Gap'
  <2> SUFFICES ASSUME NEW p \in Node, Marked(p)'
               PROVE  /\ \A m \in Node \ {p} : Allowed(time[m][p], p)'
                      /\ \A x \in stamps' : x[p] <= cut'[p][p] \/ x[p] > TerminationTime
                      /\ \A m \in Node \ {p} : Marked(m)' => Allowed(cut[m][p], p)'
    BY DEF Gap, Allowed
  <2>1. CASE p = n
    BY <1>6, <1>14, <2>1 DEF Allowed
  <2>2. CASE p # n
    BY <1>6, <1>12, <2>2 DEF Allowed
  <2> QED BY <2>1, <2>2
<1>16. Below'
  <2> SUFFICES ASSUME Learned, NEW m \in Node, NEW p \in Node \ {m}
               PROVE  /\ Marked(m)' => cut'[m][p] <= TerminationTime
                      /\ ~Marked(m)' /\ limit[m] # 0 => time'[m][p] < TerminationTime
    BY DEF Below, Learned
  <2>1. CASE m = n
    <3>1. Before(n)[p] <= TerminationTime
      BY <1>4, <2>1, BeforeFacts, TimeAssumption
    <3>2. C[p] <= TerminationTime
      BY <1>4, <3>1
    <3> QED BY <1>6, <2>1, <3>2
  <2>2. CASE m # n
    BY <1>2, <1>6, <2>2 DEF Inv, Below
  <2> QED BY <2>1, <2>2
<1> QED BY <1>1, <1>7, <1>10, <1>11, <1>15, <1>16 DEF Inv

LEMMA HandleKeeps ==
  ASSUME Inv, NEW n \in Node, NEW v \in stamps \cup {NoTime}, Handle(n, v)
  PROVE  Inv'
<1>1. Working(n, Received(n, v)) /\ Copy(n, v) /\ UNCHANGED <<limit, onTime>>
  BY DEF Handle
<1>2. CASE NotCopied(n, v)
  <2>1. v \in Time /\ Dominated(v)
    BY StampFacts
  <2>2. /\ Received(n, v) \in Time
        /\ \A p \in Node \ {n} : Received(n, v)[p] < Received(n, v)[n]
    BY <2>1, ReceivedFacts DEF Inv
  <2>3. limit[n] # 0 =>
          \A p \in Node \ {n} : Received(n, v)[p] < TerminationTime
    BY <1>2, <2>2, TimeAssumption DEF NotCopied, Time
  <2>4. Base(n, v, Received(n, v)) /\ cut' = cut
    BY <1>2, HandleBase DEF NotCopied
  <2> QED BY <1>1, <2>3, <2>4, PlainStep
<1>3. CASE \E C : Copied(n, v, C)
  BY <1>1, <1>3, CopyStep
<1> QED BY <1>1, <1>2, <1>3, CopyFacts

\* Nothing is copied of a node that does not have the termination time.
LEMMA LearnKeeps ==
  ASSUME Inv, NEW n \in Node, Learn(n)
  PROVE  Inv'
<1>1. /\ limit[n] = 0 /\ limit' = [limit EXCEPT ![n] = TerminationTime]
      /\ onTime' = [onTime EXCEPT ![n] = time[n][n] < TerminationTime]
      /\ stamps' \subseteq stamps /\ UNCHANGED <<time, cut>>
  BY DEF Learn
<1>2. ~Marked(n) /\ \A m \in Node : Marked(m)' = Marked(m)
  BY <1>1, TimeAssumption DEF Inv, MarkedLate, Marked
<1>3. TypeOK'
  BY <1>1 DEF Inv, TypeOK
<1>4. /\ \A m \in Node \ {n} : limit'[m] = limit[m] /\ onTime'[m] = onTime[m]
      /\ onTime'[n] = (time[n][n] < TerminationTime)
      /\ limit'[n] = TerminationTime
  BY <1>1 DEF Inv, TypeOK
<1>5. LocalTimeIsLargest' /\ AllDominated' /\ NoFutureTime' /\ CutKnown'
  BY <1>1, <1>2 DEF Inv, LocalTimeIsLargest, AllDominated, Dominated,
                    NoFutureTime, CutKnown
<1>6. MarkedLate'
  BY <1>1, <1>2, <1>4 DEF Inv, MarkedLate
<1>7. Gap'
  BY <1>1, <1>2 DEF Inv, Gap, Allowed
<1>8. Below'
  <2> SUFFICES ASSUME Learned', NEW m \in Node, NEW p \in Node \ {m}
               PROVE  /\ Marked(m) => cut[m][p] <= TerminationTime
                      /\ ~Marked(m) /\ limit'[m] # 0 => time[m][p] < TerminationTime
    BY <1>1, <1>2 DEF Below
  <2>1. Learned
    BY <1>1, <1>4 DEF Learned
  <2>2. CASE m # n
    BY <1>4, <2>1, <2>2 DEF Inv, Below
  <2>3. CASE m = n
    <3>1. time[n][n] < TerminationTime
      BY <1>4, TimeAssumption DEF Learned
    <3>2. time[n][p] \in Nat /\ time[n][n] \in Nat /\ time[n][p] <= time[n][n]
      BY DEF Inv, TypeOK, Time, LocalTimeIsLargest
    <3> QED BY <1>2, <2>3, <3>1, <3>2, TimeAssumption
  <2> QED BY <2>2, <2>3
<1> QED BY <1>3, <1>5, <1>6, <1>7, <1>8 DEF Inv

LEMMA InitInv == Init => Inv
<1> SUFFICES ASSUME Init PROVE Inv
  OBVIOUS
<1>1. /\ time = [n \in Node |-> NoTime] /\ limit \in [Node -> {0, TerminationTime}]
      /\ onTime = [n \in Node |-> TRUE] /\ cut = [n \in Node |-> NoCut]
      /\ stamps \subseteq {NoTime}
  BY DEF Init
<1>2. NoTime \in Time /\ Dominated(NoTime) /\ \A k \in Node : NoTime[k] = 0
  BY NoTimeFacts DEF NoTime
<1>3. \A n \in Node : ~Marked(n) /\ time[n] = NoTime
  BY <1>1 DEF Marked
<1>4. TypeOK
  BY <1>1, <1>2 DEF TypeOK
<1>5. LocalTimeIsLargest /\ NoFutureTime
  BY <1>1, <1>2, <1>3 DEF LocalTimeIsLargest, NoFutureTime
<1>6. AllDominated
  BY <1>1, <1>2 DEF AllDominated
<1>7. CutKnown /\ MarkedLate /\ Gap
  BY <1>3 DEF CutKnown, MarkedLate, Gap
<1>8. Below
  BY <1>2, <1>3, TimeAssumption DEF Below
<1> QED BY <1>4, <1>5, <1>6, <1>7, <1>8 DEF Inv

LEMMA NextInv == Inv /\ [Next]_vars => Inv'
<1> SUFFICES ASSUME Inv, [Next]_vars PROVE Inv'
  OBVIOUS
<1>1. ASSUME NEW n \in Node, NEW v \in stamps \cup {NoTime}, Handle(n, v)
      PROVE  Inv'
  BY <1>1, HandleKeeps
<1>2. ASSUME NEW n \in Node, Begin(n) PROVE Inv'
  BY <1>2, BeginKeeps
<1>3. ASSUME NEW n \in Node, Learn(n) PROVE Inv'
  BY <1>3, LearnKeeps
<1>4. CASE UNCHANGED vars
  BY <1>4 DEF vars, Inv, TypeOK, LocalTimeIsLargest, AllDominated, Dominated,
              NoFutureTime, CutKnown, MarkedLate, Gap, Allowed, Below, Learned,
              Marked
<1> QED BY <1>1, <1>2, <1>3, <1>4 DEF Next

LEMMA Invariance == Spec => []Inv
  BY InitInv, NextInv, PTL DEF Spec

-----------------------------------------------------------------------------
(* Vector times stay vector times, and a copy has one                        *)
(* (VectorTime::setTime, increase, merge).                                   *)
THEOREM SnapshotTypeCorrect == Spec => []TypeOK
<1>1. Inv => TypeOK
  BY DEF Inv
<1> QED BY <1>1, Invariance, PTL

(* A node's clock is at least every time it knows, after any history of      *)
(* sending and receiving (NodeCore::receive).                                *)
THEOREM OwnTimeIsLargest == Spec => []LocalTimeIsLargest
<1>1. Inv => LocalTimeIsLargest
  BY DEF Inv
<1> QED BY <1>1, Invariance, PTL

(* Neither a node nor a message has a time that its owner has not reached    *)
(* (NodeCore::sendToDestinationsImpl, sendTo).                               *)
THEOREM NothingFromTheFuture == Spec => []NoFutureTime
<1>1. Inv => NoFutureTime
  BY DEF Inv
<1> QED BY <1>1, Invariance, PTL

(* The copies of all nodes are a consistent cut if the termination time is   *)
(* known everywhere in time (NodeCore::createTemporaryPastImplementation,    *)
(* processImplementations).                                                  *)
THEOREM CopiesAreConsistent == Spec => []ConsistentCut
<1>1. ASSUME Inv, Learned, NEW n \in Node, NEW p \in Node, Marked(n)
      PROVE  cut[n][p] <= Before(p)[p]
  <2>1. cut[n] \in Time /\ time[p] \in Time
    BY <1>1 DEF Inv, TypeOK, Marked
  <2>2. CASE p = n
    BY <1>1, <2>1, <2>2 DEF Before, Time
  <2>3. CASE p # n /\ ~Marked(p)
    BY <1>1, <2>3 DEF Inv, CutKnown, Before
  <2>4. CASE p # n /\ Marked(p)
    <3>1. Allowed(cut[n][p], p)
      BY <1>1, <2>4 DEF Inv, Gap
    <3>2. cut[n][p] <= TerminationTime /\ cut[n][p] \in Nat
      BY <1>1, <2>1, <2>4 DEF Inv, Below, Time
    <3>3. cut[n][p] <= cut[p][p]
      BY <3>1, <3>2, TimeAssumption DEF Allowed
    <3> QED BY <2>4, <3>3 DEF Before
  <2> QED BY <2>2, <2>3, <2>4
<1>2. Inv => ConsistentCut
  BY <1>1 DEF ConsistentCut
<1> QED BY <1>2, Invariance, PTL
=============================================================================
