--------------------------- MODULE ElectionProofs ---------------------------
(***************************************************************************)
(* What is proved about Election, for any graph, recall period and opinion *)
(* and any number of calls.                                                *)
(*                                                                         *)
(* It implements Snapshot: however a candidate or voter sends while it     *)
(* works on a message, its clock only grows, what it sends is stamped with *)
(* times on that way, and a copy that takes a message in by the time it    *)
(* then has would take it in by the time it came with.                     *)
(*                                                                         *)
(* A VoteMe and its answers travel once over every connection.             *)
(***************************************************************************)
EXTENDS Election, TLAPS

Dominated(t) == \E k \in Node : \A j \in Node : t[j] <= t[k]
Leads(n, t) == \A k \in Node : t[k] <= t[n]

\* Whom a message may have been sent to
Addressed(x) ==
  /\ x.type # "normal" =>
       x.number \in Number /\ x.content \in Candidate /\ x.sourceID \in Node
  /\ x.type = "normal" /\ x.destinationID \in Voter =>
       x.number \in Number /\ x.content \in Candidate
  /\ x.content = START => x.destinationID \in Candidate

Inv ==
  /\ TypeOK
  /\ \A n \in Node : Leads(n, timeMap[n])
  /\ \A n \in Node : isMarked(n) <=> cut[n] # NoCut
  /\ \A x \in network : Dominated(x.vectorTime) /\ Addressed(x)

\* What a node has while it works
Works ==
  [impl : Impl, counter : [Number -> Nat], drawn : 0 .. MaxCalls, time : Time,
   first : [Number -> Node \cup {NoNode}], sent : SUBSET Message, stamp : Time]

Grown(n, base, t) ==
  t[n] >= base[n] /\ \A k \in Node \ {n} : t[k] = base[k]

\* x was sent on the way from base to t.
OnTheWay(n, base, t, x) ==
  \/ x.vectorTime = NoTime
  \/ /\ Grown(n, base, x.vectorTime)
     /\ base[n] < x.vectorTime[n] /\ x.vectorTime[n] <= t[n]

\* n works on m with s, and began with the time base.
Ready(n, m, base, s) ==
  /\ s \in Works
  /\ Grown(n, base, s.time)
  /\ \A x \in s.sent : Addressed(x) /\ OnTheWay(n, base, s.time, x)
  /\ s.stamp = m.vectorTime \/ (s.stamp \in Time /\ Grown(n, base, s.stamp))

-----------------------------------------------------------------------------
(* The constants                                                            *)

LEMMA Constants ==
  /\ Candidate \subseteq Node /\ Node \subseteq Nat /\ 0 \notin Node
  /\ START \notin Candidate /\ IVoteYou \notin Candidate
  /\ IDontVoteYou \notin Candidate /\ NoNode \notin Node
  /\ MaxCalls \in Nat /\ Number \subseteq Nat
  /\ \A n \in Node : Neighbors[n] \subseteq Node
BY NodeAssumption, NumberAssumption, NeighborsAssumption
   DEF Candidate, START, IVoteYou, IDontVoteYou, NoNode, Number

LEMMA NoCopyYet == NoImpl \notin Impl /\ NoCut \notin Time /\ NoTime \in Time
<1>1. NoImpl \notin Impl
  BY DEF NoImpl, Impl
<1>2. DOMAIN NoCut = {}
  BY DEF NoCut
<1>3. \A t \in Time : DOMAIN t = Node
  BY DEF Time
<1> QED BY <1>1, <1>2, <1>3, NodeAssumption DEF NoTime, Time

-----------------------------------------------------------------------------
(* Vector times                                                             *)

LEMMA IncreaseFacts ==
  ASSUME NEW n \in Node, NEW t \in Time
  PROVE  /\ increase(t, n) \in Time
         /\ increase(t, n)[n] = t[n] + 1
         /\ \A k \in Node \ {n} : increase(t, n)[k] = t[k]
BY DEF increase, Time

LEMMA MergeFacts ==
  ASSUME NEW t \in Time, NEW v \in Time
  PROVE  /\ merge(t, v) \in Time
         /\ \A k \in Node : v[k] <= merge(t, v)[k] /\ t[k] <= merge(t, v)[k]
         /\ \A k \in Node : merge(t, v)[k] \in {t[k], v[k]}
BY DEF merge, Time

LEMMA MaximumFacts ==
  ASSUME NEW t \in Time, Dominated(t)
  PROVE  /\ getMaximum(t) \in Nat
         /\ \A j \in Node : t[j] <= getMaximum(t)
         /\ \E k \in Node : getMaximum(t) = t[k]
BY DEF getMaximum, Dominated, Time

LEMMA LeaderDominates ==
  ASSUME NEW n \in Node, NEW t, Leads(n, t)
  PROVE  Dominated(t)
BY DEF Leads, Dominated

LEMMA NoTimeDominated == Dominated(NoTime)
<1>1. \A j \in Node : NoTime[j] = 0
  BY DEF NoTime
<1>2. PICK k \in Node : TRUE
  BY NodeAssumption
<1>3. ASSUME NEW j \in Node PROVE NoTime[j] <= NoTime[k]
  <2>1. NoTime[j] = 0 /\ NoTime[k] = 0
    BY <1>1, <1>2
  <2> QED BY <2>1
<1> QED BY <1>2, <1>3 DEF Dominated

\* A merged time has a largest entry: that of one of the two.
LEMMA MergedDominated ==
  ASSUME NEW t \in Time, NEW v \in Time, Dominated(t), Dominated(v)
  PROVE  Dominated(merge(t, v))
<1>1. PICK i \in Node : \A j \in Node : t[j] <= t[i]
  BY DEF Dominated
<1>2. PICK k \in Node : \A j \in Node : v[j] <= v[k]
  BY DEF Dominated
<1>3. \A j \in Node : /\ t[j] \in Nat /\ v[j] \in Nat
                     /\ merge(t, v)[j] = IF t[j] < v[j] THEN v[j] ELSE t[j]
  BY DEF merge, Time
<1>4. CASE t[i] <= v[k]
  <2>1. ASSUME NEW j \in Node PROVE merge(t, v)[j] <= merge(t, v)[k]
    <3>1. t[j] <= t[i] /\ v[j] <= v[k]
      BY <1>1, <1>2
    <3>2. merge(t, v)[j] <= v[k] /\ v[k] <= merge(t, v)[k]
      BY <1>3, <1>4, <3>1
    <3> QED BY <1>3, <3>2
  <2> QED BY <2>1 DEF Dominated
<1>5. CASE ~(t[i] <= v[k])
  <2>1. ASSUME NEW j \in Node PROVE merge(t, v)[j] <= merge(t, v)[i]
    <3>1. t[j] <= t[i] /\ v[j] <= v[k]
      BY <1>1, <1>2
    <3>2. merge(t, v)[j] <= t[i] /\ t[i] <= merge(t, v)[i]
      BY <1>3, <1>5, <3>1
    <3> QED BY <1>3, <3>2
  <2> QED BY <2>1 DEF Dominated
<1> QED BY <1>4, <1>5

LEMMA ReceivedFacts ==
  ASSUME Inv, NEW m \in network, NEW n \in Node
  PROVE  LET time == Received(n, m)
         IN /\ time \in Time /\ Leads(n, time)
            /\ \A k \in Node : m.vectorTime[k] <= time[k]
            /\ time = Core!Received(n, m.vectorTime)
<1> DEFINE v == m.vectorTime
           merged == merge(timeMap[n], v)
           top == setTime(merged, n, getMaximum(merged))
<1>1. timeMap[n] \in Time /\ v \in Time /\ Dominated(v) /\ Dominated(timeMap[n])
  BY LeaderDominates DEF Inv, TypeOK, Message
<1>2. /\ merged \in Time /\ Dominated(merged)
      /\ \A k \in Node : v[k] <= merged[k]
  BY <1>1, MergeFacts, MergedDominated
<1>3. /\ getMaximum(merged) \in Nat
      /\ \A j \in Node : merged[j] <= getMaximum(merged)
  BY <1>2, MaximumFacts
<1>4. Received(n, m) = increase(top, n)
  BY DEF Received
<1>5. Core!Received(n, v) = increase(top, n)
  BY DEF Core!Received, Core!increase, Core!setTime, Core!merge, Core!getMaximum,
         increase, setTime, merge, getMaximum
<1> HIDE DEF merged
<1>6. /\ top \in Time /\ top[n] = getMaximum(merged)
      /\ \A k \in Node \ {n} : top[k] = merged[k]
  BY <1>2, <1>3 DEF setTime, Time
<1> HIDE DEF top
<1>7. /\ increase(top, n) \in Time
      /\ increase(top, n)[n] = top[n] + 1
      /\ \A k \in Node \ {n} : increase(top, n)[k] = top[k]
  BY <1>6, IncreaseFacts
<1>8. Leads(n, increase(top, n))
  <2> SUFFICES ASSUME NEW k \in Node
               PROVE increase(top, n)[k] <= increase(top, n)[n]
    BY DEF Leads
  <2>1. merged[k] \in Nat /\ merged[k] <= getMaximum(merged)
    BY <1>2, <1>3 DEF Time
  <2> QED BY <2>1, <1>3, <1>6, <1>7
<1>9. \A k \in Node : v[k] <= increase(top, n)[k]
  <2> SUFFICES ASSUME NEW k \in Node PROVE v[k] <= increase(top, n)[k]
    OBVIOUS
  <2>1. v[k] \in Nat /\ merged[k] \in Nat /\ v[k] <= merged[k]
        /\ merged[k] <= getMaximum(merged)
    BY <1>1, <1>2, <1>3 DEF Time
  <2> QED BY <2>1, <1>3, <1>6, <1>7
<1> QED BY <1>4, <1>5, <1>7, <1>8, <1>9
-----------------------------------------------------------------------------
(* What an implementation does with a message                               *)

LEMMA LimitedFacts ==
  ASSUME NEW a \in Int, NEW b \in Int
  PROVE  Limited(<<a, b>>) \in Politics
<1>1. \A x \in Int : limitConfidenceLevel(x) \in 0 .. 100
  BY DEF limitConfidenceLevel
<1>2. Limited(<<a, b>>) = <<limitConfidenceLevel(a), limitConfidenceLevel(b)>>
  BY DEF Limited
<1> QED BY <1>1, <1>2 DEF Politics

LEMMA CampaignedFacts ==
  ASSUME NEW p \in Politics
  PROVE  Campaigned(p) \in Politics
<1>1. p[1] \in 0 .. 100 /\ p[2] \in 0 .. 100
  BY DEF Politics
<1>2. /\ p[1] - 1 \in Int /\ p[2] + 1 \in Int
      /\ p[1] + 1 \in Int /\ p[2] - 1 \in Int
  BY <1>1
<1>3. /\ Limited(<<p[1] - 1, p[2] + 1>>) \in Politics
      /\ Limited(<<p[1] + 1, p[2] - 1>>) \in Politics
  BY <1>2, LimitedFacts
<1> QED BY <1>1, <1>3 DEF Campaigned

LEMMA PersuadedFacts ==
  ASSUME NEW p \in Politics, NEW party
  PROVE  Persuaded(p, party) \in Politics
<1> DEFINE own == p[Side(party)] + p[Side(party)] \div 10
           level == IF own > 100 THEN 100 ELSE own
           rest == p[Other(party)] - level \div 10
<1>1. Side(party) \in {1, 2} /\ Other(party) \in {1, 2}
  BY DEF Side, Other
<1>2. p[Side(party)] \in 0 .. 100 /\ p[Other(party)] \in 0 .. 100
  BY <1>1 DEF Politics
<1>3. own \in Int
  BY <1>2
<1>4. level \in Int
  BY <1>3
<1>5. rest \in Int
  BY <1>2, <1>4
<1>6. Limited(<<level, rest>>) \in Politics /\ Limited(<<rest, level>>) \in Politics
  BY <1>4, <1>5, LimitedFacts
<1>7. Persuaded(p, party) \in {Limited(<<level, rest>>), Limited(<<rest, level>>)}
  BY DEF Persuaded
<1> QED BY <1>6, <1>7

\* A message that an implementation can be given
Takes(n, m) ==
  /\ m \in Message /\ m.destinationID = n /\ m.content # START
  /\ Addressed(m)
  /\ n \in Voter /\ m.type \in {"normal", "explorer"} =>
       m.number \in Number /\ m.content \in Candidate

LEMMA NotedFacts ==
  ASSUME NEW n \in Node, NEW m, Takes(n, m), NEW i \in Impl
  PROVE  Noted(n, i, m) \in Impl
<1>1. CASE n \in Candidate
  BY <1>1 DEF Noted, Impl
<1>2. CASE n \notin Candidate
  <2>1. m.type # "echo" => m.number \in Number
    BY <1>2 DEF Takes, Voter, Message
  <2>2. Campaigned(i.politics) \in Politics
    BY CampaignedFacts DEF Impl
  <2>3. Persuaded(i.politics, m.content) \in Politics
    BY PersuadedFacts DEF Impl
  <2>4. Told(i, m) \in Impl
    BY <2>1, <2>2, <2>3 DEF Told, Impl
  <2> QED BY <1>2, <2>4 DEF Noted
<1> QED BY <1>1, <1>2

-----------------------------------------------------------------------------
(* What a node sends                                                        *)

LEMMA GrowsOn ==
  ASSUME NEW n \in Node, NEW base \in Time, NEW t \in Time, Grown(n, base, t)
  PROVE  LET now == increase(t, n)
         IN /\ now \in Time /\ Grown(n, base, now) /\ base[n] < now[n]
            /\ \A x \in Message :
                 OnTheWay(n, base, t, x) => OnTheWay(n, base, now, x)
<1> DEFINE now == increase(t, n)
<1>1. /\ now \in Time /\ now[n] = t[n] + 1
      /\ \A k \in Node \ {n} : now[k] = t[k]
  BY IncreaseFacts
<1>2. base[n] \in Nat /\ t[n] \in Nat
  BY DEF Time
<1> HIDE DEF now
<1>3. Grown(n, base, now) /\ base[n] < now[n]
  BY <1>1, <1>2 DEF Grown
<1>4. ASSUME NEW x \in Message, OnTheWay(n, base, t, x)
      PROVE  OnTheWay(n, base, now, x)
  <2>1. x.vectorTime[n] \in Nat
    BY DEF Message, Time
  <2> QED BY <1>1, <1>2, <1>4, <2>1 DEF OnTheWay
<1> QED BY <1>1, <1>3, <1>4 DEF now

\* What may be sent: a campaign, a VoteMe, or an answer to a candidate
Sendable(type, w, content, destinations) ==
  /\ type \in {"normal", "explorer", "echo"}
  /\ w \in Number /\ destinations \subseteq Node
  /\ \/ content \in Candidate
     \/ /\ content \in {IVoteYou, IDontVoteYou} /\ type = "normal"
        /\ destinations \subseteq Candidate

LEMMA LettersFacts ==
  ASSUME NEW n \in Node, NEW t \in Time, NEW type, NEW w, NEW content,
         NEW destinations, Sendable(type, w, content, destinations),
         NEW x \in Letters(type, w, n, content, t, destinations)
  PROVE  x \in Message /\ Addressed(x) /\ x.vectorTime = t
<1>1. /\ x.type = type /\ x.number = w /\ x.sourceID = n /\ x.content = content
      /\ x.vectorTime = t /\ x.destinationID \in destinations
  BY DEF Letters
<1>2. content # START /\ content \in Candidate \cup {START, IVoteYou, IDontVoteYou}
  BY Constants DEF Sendable, START, IVoteYou, IDontVoteYou
<1>3. x \in [type : {"normal", "explorer", "echo"}, number : Number \cup {0},
             sourceID : Node \cup {NoNode}, destinationID : Node,
             content : Candidate \cup {START, IVoteYou, IDontVoteYou},
             vectorTime : Time]
  BY <1>2 DEF Letters, Sendable
<1>4. Addressed(x)
  BY <1>1, <1>2 DEF Addressed, Sendable, Voter
<1> QED BY <1>1, <1>3, <1>4 DEF Message

\* s has become r by sending something.
LEMMA Sent ==
  ASSUME NEW n \in Node, NEW m, NEW base \in Time, NEW s, NEW r,
         Ready(n, m, base, s), r \in Works,
         NEW type, NEW w, NEW content, NEW destinations,
         Sendable(type, w, content, destinations),
         r.time = increase(s.time, n),
         r.sent = s.sent \cup Letters(type, w, n, content, r.time, destinations),
         r.stamp \in {s.stamp, r.time}
  PROVE  Ready(n, m, base, r)
<1>1. s.time \in Time /\ Grown(n, base, s.time) /\ s.sent \subseteq Message
  BY DEF Ready, Works
<1>2. /\ r.time \in Time /\ Grown(n, base, r.time) /\ base[n] < r.time[n]
      /\ \A x \in Message :
           OnTheWay(n, base, s.time, x) => OnTheWay(n, base, r.time, x)
  BY <1>1, GrowsOn
<1>3. ASSUME NEW x \in r.sent
      PROVE  Addressed(x) /\ OnTheWay(n, base, r.time, x)
  <2>1. CASE x \in s.sent
    BY <1>1, <1>2, <2>1 DEF Ready
  <2>2. CASE x \in Letters(type, w, n, content, r.time, destinations)
    <3>1. x \in Message /\ Addressed(x) /\ x.vectorTime = r.time
      BY <1>2, <2>2, LettersFacts
    <3>2. r.time[n] \in Nat
      BY <1>2 DEF Time
    <3> QED BY <1>2, <3>1, <3>2 DEF OnTheWay
  <2> QED BY <2>1, <2>2
<1>4. r.stamp = m.vectorTime \/ (r.stamp \in Time /\ Grown(n, base, r.stamp))
  BY <1>2 DEF Ready
<1> QED BY <1>2, <1>3, <1>4 DEF Ready

\* s has become r without sending.
LEMMA Unsent ==
  ASSUME NEW n \in Node, NEW m, NEW base \in Time, NEW s, NEW r,
         Ready(n, m, base, s), r \in Works,
         r.time = s.time, r.sent = s.sent, r.stamp = s.stamp
  PROVE  Ready(n, m, base, r)
BY DEF Ready
-----------------------------------------------------------------------------
(* The operations of an implementation                                      *)

LEMMA AnnouncedReady ==
  ASSUME NEW n \in Candidate, NEW m, NEW base \in Time, NEW s,
         Ready(n, m, base, s), s.drawn \in Number,
         NEW type \in {"normal", "explorer"}
  PROVE  Ready(n, m, base, Announced(n, s, type, n))
<1> DEFINE r == Announced(n, s, type, n)
           new == Letters(type, s.drawn, n, n, increase(s.time, n), Neighbors[n])
<1>1. n \in Node /\ s \in Works
  BY Constants DEF Ready
<1>2. Sendable(type, s.drawn, n, Neighbors[n])
  BY <1>1, Constants DEF Sendable
<1>3. increase(s.time, n) \in Time
  BY <1>1, IncreaseFacts DEF Works
<1>4. new \subseteq Message
  BY <1>1, <1>2, <1>3, LettersFacts
<1>5. /\ r = [s EXCEPT !.time = increase(s.time, n), !.impl.recalls = @ + 1,
                       !.sent = @ \cup new]
      /\ r.time = increase(s.time, n) /\ r.sent = s.sent \cup new
      /\ r.stamp = s.stamp
  BY <1>1 DEF Announced, Works
<1>6. r \in Works
  <2>1. [s.impl EXCEPT !.recalls = @ + 1] \in Impl
    BY <1>1 DEF Works, Impl
  <2>2. s.sent \cup new \in SUBSET Message
    BY <1>1, <1>4 DEF Works
  <2> HIDE DEF new
  <2> QED BY <1>1, <1>3, <1>5, <2>1, <2>2 DEF Works
<1> HIDE DEF r
<1>7. r.sent = s.sent \cup Letters(type, s.drawn, n, n, r.time, Neighbors[n])
  BY <1>5 DEF new
<1>8. r.stamp \in {s.stamp, r.time} /\ r.time = increase(s.time, n)
  BY <1>5
<1>9. Ready(n, m, base, r)
  BY <1>1, <1>2, <1>6, <1>7, <1>8, Sent
<1> QED BY <1>9 DEF r

LEMMA DrawingReady ==
  ASSUME NEW n \in Node, NEW m, NEW base \in Time, NEW s,
         Ready(n, m, base, s), s.drawn < MaxCalls
  PROVE  /\ Ready(n, m, base, Drawing(s))
         /\ Drawing(s).drawn \in Number
<1>1. s \in Works /\ s.drawn \in 0 .. MaxCalls /\ MaxCalls \in Nat
  BY Constants DEF Ready, Works
<1>2. s.drawn + 1 \in 1 .. MaxCalls
  BY <1>1
<1>3. /\ Drawing(s) = [s EXCEPT !.drawn = s.drawn + 1]
      /\ Drawing(s) \in Works
  BY <1>1, <1>2 DEF Drawing, Works
<1>4. /\ Drawing(s).time = s.time /\ Drawing(s).sent = s.sent
      /\ Drawing(s).stamp = s.stamp /\ Drawing(s).drawn = s.drawn + 1
  BY <1>1, <1>3 DEF Works
<1> QED BY <1>2, <1>3, <1>4, Unsent DEF Number

LEMMA StartCampaignReady ==
  ASSUME NEW n \in Candidate, NEW m, NEW base \in Time, NEW s,
         Ready(n, m, base, s), s.drawn < MaxCalls
  PROVE  Ready(n, m, base, startCampaign(n, s))
<1> DEFINE next == Drawing(s)
           r == [next EXCEPT !.first[next.drawn] = n]
<1>1. n \in Node
  BY Constants
<1>2. Ready(n, m, base, next) /\ next.drawn \in Number /\ next \in Works
  BY <1>1, DrawingReady DEF Ready
<1> HIDE DEF next
<1>3. r \in Works /\ r.time = next.time /\ r.sent = next.sent
      /\ r.stamp = next.stamp /\ r.drawn = next.drawn
  BY <1>1, <1>2 DEF Works
<1>4. Ready(n, m, base, r)
  BY <1>1, <1>2, <1>3, Unsent
<1>5. Ready(n, m, base, Announced(n, r, "explorer", n))
  BY <1>2, <1>3, <1>4, AnnouncedReady
<1> QED BY <1>5 DEF startCampaign, next

LEMMA CalledReady ==
  ASSUME NEW n \in Candidate, NEW m, NEW base \in Time, NEW s,
         Ready(n, m, base, s), NEW r \in Called(n, s)
  PROVE  Ready(n, m, base, r)
<1>1. CASE r = s
  BY <1>1
<1>2. CASE s.drawn < MaxCalls /\ r = callVoteMe(n, s)
  <2>1. n \in Node
    BY Constants
  <2>2. Ready(n, m, base, Drawing(s)) /\ Drawing(s).drawn \in Number
    BY <1>2, <2>1, DrawingReady
  <2> QED BY <1>2, <2>2, AnnouncedReady DEF callVoteMe
<1>3. CASE s.drawn < MaxCalls /\ r = startCampaign(n, s)
  BY <1>3, StartCampaignReady
<1> QED BY <1>1, <1>2, <1>3 DEF Called

LEMMA ForwardedReady ==
  ASSUME NEW n \in Node, NEW m, Takes(n, m), NEW base \in Time, NEW s,
         Ready(n, m, base, s), m.number \in Number, m.content \in Candidate
  PROVE  Ready(n, m, base, Forwarded(n, s, m))
<1> DEFINE r == Forwarded(n, s, m)
           others == Neighbors[n] \ {m.sourceID}
           new == Letters("normal", m.number, n, m.content,
                          increase(s.time, n), others)
<1>1. s \in Works
  BY DEF Ready
<1>2. Sendable("normal", m.number, m.content, others)
  BY Constants DEF Sendable
<1>3. increase(s.time, n) \in Time
  BY <1>1, IncreaseFacts DEF Works
<1>4. new \subseteq Message
  BY <1>2, <1>3, LettersFacts
<1>5. /\ r = [s EXCEPT !.time = increase(s.time, n),
                       !.stamp = increase(s.time, n), !.sent = @ \cup new]
      /\ r.time = increase(s.time, n) /\ r.sent = s.sent \cup new
      /\ r.stamp = increase(s.time, n)
  BY <1>1 DEF Forwarded, Works
<1>6. r \in Works
  <2>1. s.sent \cup new \in SUBSET Message
    BY <1>1, <1>4 DEF Works
  <2> HIDE DEF new
  <2> QED BY <1>1, <1>3, <1>5, <2>1 DEF Works
<1> HIDE DEF r
<1>7. r.sent = s.sent \cup Letters("normal", m.number, n, m.content, r.time, others)
  BY <1>5 DEF new
<1>8. r.stamp \in {s.stamp, r.time} /\ r.time = increase(s.time, n)
  BY <1>5
<1>9. Ready(n, m, base, r)
  BY <1>2, <1>6, <1>7, <1>8, Sent
<1> QED BY <1>9 DEF r

LEMMA RepliedReady ==
  ASSUME NEW n \in Node, NEW m, Takes(n, m), NEW base \in Time, NEW s,
         Ready(n, m, base, s), m.number \in Number, m.content \in Candidate,
         NEW vote \in {IVoteYou, IDontVoteYou}
  PROVE  Ready(n, m, base, Replied(n, s, m, vote))
<1> DEFINE r == Replied(n, s, m, vote)
           new == Letters("normal", m.number, n, vote, increase(s.time, n),
                          {m.content})
<1>1. s \in Works
  BY DEF Ready
<1>2. Sendable("normal", m.number, vote, {m.content})
  BY Constants DEF Sendable
<1>3. increase(s.time, n) \in Time
  BY <1>1, IncreaseFacts DEF Works
<1>4. new \subseteq Message
  BY <1>2, <1>3, LettersFacts
<1>5. /\ r = [s EXCEPT !.time = increase(s.time, n), !.sent = @ \cup new]
      /\ r.time = increase(s.time, n) /\ r.sent = s.sent \cup new
      /\ r.stamp = s.stamp
  BY <1>1 DEF Replied, Works
<1>6. r \in Works
  <2>1. s.sent \cup new \in SUBSET Message
    BY <1>1, <1>4 DEF Works
  <2> HIDE DEF new
  <2> QED BY <1>1, <1>3, <1>5, <2>1 DEF Works
<1> HIDE DEF r
<1>7. r.sent = s.sent \cup Letters("normal", m.number, n, vote, r.time, {m.content})
  BY <1>5 DEF new
<1>8. r.stamp \in {s.stamp, r.time} /\ r.time = increase(s.time, n)
  BY <1>5
<1>9. Ready(n, m, base, r)
  BY <1>2, <1>6, <1>7, <1>8, Sent
<1> QED BY <1>9 DEF r

LEMMA VotedReady ==
  ASSUME NEW n \in Voter, NEW m, Takes(n, m), NEW base \in Time, NEW s,
         Ready(n, m, base, s)
  PROVE  Ready(n, m, base, Voted(n, s, m))
<1> DEFINE next == [s EXCEPT !.impl = Told(s.impl, m)]
<1>1. n \in Node /\ n \notin Candidate /\ s \in Works
  BY DEF Voter, Ready
<1>2. Told(s.impl, m) \in Impl
  BY <1>1, NotedFacts DEF Noted, Works
<1>3. /\ next \in Works /\ next.time = s.time /\ next.sent = s.sent
      /\ next.stamp = s.stamp
  BY <1>1, <1>2 DEF Works
<1>4. Ready(n, m, base, next)
  BY <1>1, <1>3, Unsent
<1> HIDE DEF next
<1>5. CASE m.type # "normal"
  BY <1>4, <1>5 DEF Voted, next
<1>6. CASE m.type = "normal"
  <2>1. m.number \in Number /\ m.content \in Candidate
    BY <1>6 DEF Takes
  <2>2. Ready(n, m, base, Replied(n, next, m, IDontVoteYou))
    BY <1>1, <1>4, <2>1, RepliedReady
  <2>3. Ready(n, m, base, Replied(n, Forwarded(n, next, m), m, IVoteYou))
    BY <1>1, <1>4, <2>1, ForwardedReady, RepliedReady
  <2>4. Voted(n, s, m) \in {next, Replied(n, next, m, IDontVoteYou),
                            Replied(n, Forwarded(n, next, m), m, IVoteYou)}
    BY DEF Voted, next
  <2> QED BY <1>4, <2>2, <2>3, <2>4
<1> QED BY <1>5, <1>6

LEMMA ProcessedReady ==
  ASSUME NEW n \in Node, NEW m, Takes(n, m), NEW base \in Time, NEW s,
         Ready(n, m, base, s), NEW r \in Processed(n, s, m)
  PROVE  Ready(n, m, base, r)
<1>1. CASE n \in Candidate
  <2> DEFINE next == [s EXCEPT !.impl = Noted(n, s.impl, m)]
  <2>1. s \in Works
    BY DEF Ready
  <2>2. Noted(n, s.impl, m) \in Impl
    BY <2>1, NotedFacts DEF Works
  <2>3. /\ next \in Works /\ next.time = s.time /\ next.sent = s.sent
        /\ next.stamp = s.stamp
    BY <2>1, <2>2 DEF Works
  <2>4. Ready(n, m, base, next)
    BY <2>3, Unsent
  <2>5. r \in Called(n, next)
    BY <1>1 DEF Processed, Recalled
  <2> QED BY <1>1, <2>4, <2>5, CalledReady
<1>2. CASE n \notin Candidate
  <2>1. n \in Voter /\ r = Voted(n, s, m)
    BY <1>2 DEF Processed, Voter
  <2> QED BY <2>1, VotedReady
<1> QED BY <1>1, <1>2
-----------------------------------------------------------------------------
(* What a step of NodeCore does with all that                               *)

\* What the implementation sends for a message has later times than it.
LEMMA StampFacts ==
  ASSUME NEW n \in Node, NEW m \in Message, Dominated(m.vectorTime),
         NEW base \in Time, Leads(n, base),
         \A k \in Node : m.vectorTime[k] <= base[k],
         NEW s, Ready(n, m, base, s)
  PROVE  /\ getMaximum(m.vectorTime) \in Nat /\ getMaximum(s.stamp) \in Nat
         /\ getMaximum(m.vectorTime) <= getMaximum(s.stamp)
<1> DEFINE v == m.vectorTime
<1>1. v \in Time
  BY DEF Message
<1>2. /\ getMaximum(v) \in Nat
      /\ \E k \in Node : getMaximum(v) = v[k]
  BY <1>1, MaximumFacts
<1>3. CASE s.stamp = v
  BY <1>2, <1>3
<1>4. CASE s.stamp \in Time /\ Grown(n, base, s.stamp)
  <2>1. Leads(n, s.stamp)
    <3> SUFFICES ASSUME NEW k \in Node PROVE s.stamp[k] <= s.stamp[n]
      BY DEF Leads
    <3>1. /\ base[k] <= base[n] /\ base[n] <= s.stamp[n]
          /\ k # n => s.stamp[k] = base[k]
      BY <1>4 DEF Leads, Grown
    <3>2. base[k] \in Nat /\ base[n] \in Nat /\ s.stamp[n] \in Nat
      BY <1>4 DEF Time
    <3> QED BY <3>1, <3>2
  <2>2. /\ getMaximum(s.stamp) \in Nat
        /\ \A j \in Node : s.stamp[j] <= getMaximum(s.stamp)
    BY <1>4, <2>1, LeaderDominates, MaximumFacts
  <2>3. PICK k \in Node : getMaximum(v) = v[k]
    BY <1>2
  <2>4. v[k] <= base[k] /\ base[k] <= s.stamp[k] /\ s.stamp[k] <= getMaximum(s.stamp)
    <3>1. k = n \/ s.stamp[k] = base[k]
      BY <1>4 DEF Grown
    <3>2. base[k] \in Nat
      BY DEF Time
    <3> QED BY <1>4, <2>2, <3>1, <3>2 DEF Grown
  <2>5. v[k] \in Nat /\ base[k] \in Nat /\ s.stamp[k] \in Nat
    BY <1>1, <1>4 DEF Time
  <2> QED BY <1>2, <2>2, <2>3, <2>4, <2>5
<1> QED BY <1>3, <1>4 DEF Ready

\* The parts of the invariant that a step may disturb by sending
Settled ==
  /\ impl \in [Node -> Impl] /\ timeMap \in [Node -> Time]
  /\ termininationTime \in [Node -> {0, TerminationTime}]
  /\ FirstNeighborID \in [Node -> [Number -> Node \cup {NoNode}]]
  /\ counter \in [Node -> [Number -> Nat]]
  /\ drawn \in 0 .. MaxCalls
  /\ network \subseteq Message
  /\ onTime \in [Node -> BOOLEAN]
  /\ \A n \in Node : Leads(n, timeMap[n])
  /\ \A x \in network : Dominated(x.vectorTime) /\ Addressed(x)

\* The other parts
Copied ==
  /\ pastImpl \in [Node -> Impl \cup {NoImpl}]
  /\ cut \in [Node -> Time \cup {NoCut}]
  /\ \A n \in Node : isMarked(n) <=> cut[n] # NoCut

LEMMA InvParts == Inv <=> Settled /\ Copied
BY DEF Inv, TypeOK, Settled, Copied

LEMMA GrownLeads ==
  ASSUME NEW n \in Node, NEW base \in Time, Leads(n, base), NEW t \in Time,
         Grown(n, base, t)
  PROVE  Leads(n, t)
<1> SUFFICES ASSUME NEW k \in Node PROVE t[k] <= t[n]
  BY DEF Leads
<1>1. base[k] \in Nat /\ base[n] \in Nat /\ t[n] \in Nat
  BY DEF Time
<1> QED BY <1>1 DEF Leads, Grown

LEMMA FinishedKeeps ==
  ASSUME Inv, NEW n \in Node, NEW m \in network, NEW base \in Time,
         Leads(n, base), NEW s, Ready(n, m, base, s), Finish(n, m, s)
  PROVE  Settled' /\ Core!Working(n, base)
<1>1. s \in Works /\ s.time \in Time /\ Grown(n, base, s.time)
  BY DEF Ready, Works
<1>2. /\ timeMap' = [timeMap EXCEPT ![n] = s.time]
      /\ timeMap \in [Node -> Time] /\ timeMap' \in [Node -> Time]
  BY <1>1 DEF Finish, Inv, TypeOK
<1>3. /\ impl' \in [Node -> Impl]
      /\ FirstNeighborID' \in [Node -> [Number -> Node \cup {NoNode}]]
      /\ counter' \in [Node -> [Number -> Nat]]
  BY <1>1 DEF Finish, Inv, TypeOK, Works
<1>4. /\ drawn' \in 0 .. MaxCalls /\ network' \subseteq Message
      /\ termininationTime' \in [Node -> {0, TerminationTime}]
      /\ onTime' \in [Node -> BOOLEAN]
  BY <1>1 DEF Finish, Inv, TypeOK, Works
<1>5. ASSUME NEW p \in Node PROVE Leads(p, timeMap'[p])
  <2>1. CASE p = n
    BY <1>1, <1>2, <2>1, GrownLeads
  <2>2. CASE p # n
    BY <1>2, <2>2 DEF Inv
  <2> QED BY <2>1, <2>2
<1>6. network' = (network \ {m}) \cup s.sent
  BY DEF Finish
<1>7. ASSUME NEW x \in s.sent, x.vectorTime # NoTime
      PROVE  /\ Leads(n, x.vectorTime)
             /\ x.vectorTime = [base EXCEPT ![n] = x.vectorTime[n]]
             /\ x.vectorTime[n] \in base[n] + 1 .. s.time[n]
  <2> DEFINE t == x.vectorTime
  <2>1. /\ Grown(n, base, t) /\ base[n] < t[n] /\ t[n] <= s.time[n]
    BY <1>7 DEF Ready, OnTheWay
  <2>2. t \in Time
    BY <1>1 DEF Works, Message
  <2>3. t[n] \in Nat /\ base[n] \in Nat /\ s.time[n] \in Nat
    BY <1>1, <2>2 DEF Time
  <2>4. t = [base EXCEPT ![n] = t[n]]
    BY <2>1, <2>2 DEF Grown, Time
  <2>5. Leads(n, t)
    BY <2>1, <2>2, GrownLeads
  <2> QED BY <2>1, <2>3, <2>4, <2>5
<1>8. ASSUME NEW x \in network' PROVE Dominated(x.vectorTime) /\ Addressed(x)
  <2>1. CASE x \in network
    BY <2>1 DEF Inv
  <2>2. CASE x \in s.sent
    <3>1. Addressed(x)
      BY <2>2 DEF Ready
    <3>2. Dominated(x.vectorTime)
      BY <2>2, <1>7, LeaderDominates, NoTimeDominated
    <3> QED BY <3>1, <3>2
  <2> QED BY <1>6, <2>1, <2>2
<1>9. Core!Working(n, base)
  <2> DEFINE now == timeMap'[n][n]
             stamps == {x.vectorTime : x \in network}
             Stamped == {[base EXCEPT ![n] = t] : t \in base[n] + 1 .. now}
  <2>1. now = s.time[n] /\ now \in Nat /\ now >= base[n]
    BY <1>1, <1>2 DEF Grown, Time
  <2>2. s.time = [base EXCEPT ![n] = now]
    BY <1>1, <2>1 DEF Grown, Time
  <2>3. timeMap' = [timeMap EXCEPT ![n] = [base EXCEPT ![n] = now]]
    BY <1>2, <2>2
  <2>4. {x.vectorTime : x \in network'} \subseteq stamps \cup Stamped \cup {NoTime}
    <3> SUFFICES ASSUME NEW x \in network'
                 PROVE  x.vectorTime \in stamps \cup Stamped \cup {NoTime}
      OBVIOUS
    <3>1. CASE x \in network
      BY <3>1
    <3>2. CASE x \in s.sent /\ x.vectorTime # NoTime
      BY <1>7, <2>1, <3>2
    <3> QED BY <1>6, <3>1, <3>2
  <2> QED BY <2>1, <2>3, <2>4
          DEF Core!Working, Core!Stamped, Core!NoTime, NoTime
<1> QED BY <1>2, <1>3, <1>4, <1>5, <1>8, <1>9 DEF Settled

\* The copy that receive makes
LEMMA CopiedFacts ==
  ASSUME Inv, NEW n \in Node, NEW time
  PROVE  /\ Terminating(n, time) =>
              /\ CopiedImpl(n, time) \in Impl
              /\ CopiedTime(n, time) \in Time
              /\ CopiedTime(n, time) = Core!Before(n)
         /\ ~Terminating(n, time) =>
              /\ CopiedImpl(n, time) = NoImpl /\ CopiedTime(n, time) = NoCut
              /\ cut[n] = NoCut
         /\ Terminating(n, time) <=>
              Core!Marked(n)
                \/ Core!isTerminated(time[n], termininationTime[n])
<1>1. /\ isMarked(n) <=> pastImpl[n] # NoImpl
      /\ isMarked(n) <=> cut[n] # NoCut
      /\ pastImpl[n] \in Impl \cup {NoImpl} /\ cut[n] \in Time \cup {NoCut}
      /\ impl[n] \in Impl /\ timeMap[n] \in Time
  BY DEF Inv, TypeOK, isMarked
<1>2. Core!Marked(n) <=> isMarked(n)
  BY <1>1 DEF Core!Marked, Core!NoCut, NoCut
<1>3. Core!Before(n) = IF isMarked(n) THEN cut[n] ELSE timeMap[n]
  BY <1>2 DEF Core!Before
<1>4. Terminating(n, time) <=>
        isMarked(n) \/ Core!isTerminated(time[n], termininationTime[n])
  BY DEF Terminating, isTerminated, Core!isTerminated
<1>5. CASE isMarked(n)
  BY <1>1, <1>2, <1>3, <1>4, <1>5 DEF CopiedImpl, CopiedTime
<1>6. CASE ~isMarked(n) /\ Terminating(n, time)
  BY <1>1, <1>2, <1>3, <1>4, <1>6 DEF CopiedImpl, CopiedTime
<1>7. CASE ~Terminating(n, time)
  <2>1. ~isMarked(n)
    BY <1>4, <1>7
  <2> QED BY <1>1, <1>2, <1>3, <1>4, <1>7, <2>1 DEF CopiedImpl, CopiedTime
<1> QED BY <1>5, <1>6, <1>7

\* n's copy has become i, with the vector time t.
LEMMA CutKeeps ==
  ASSUME Inv, NEW n \in Node, NEW i, NEW t,
         \/ i \in Impl /\ t \in Time
         \/ i = NoImpl /\ t = NoCut,
         pastImpl' = [pastImpl EXCEPT ![n] = i], cut' = [cut EXCEPT ![n] = t]
  PROVE  Copied'
<1>1. /\ pastImpl \in [Node -> Impl \cup {NoImpl}]
      /\ cut \in [Node -> Time \cup {NoCut}]
      /\ \A p \in Node : pastImpl[p] # NoImpl <=> cut[p] # NoCut
  BY DEF Inv, TypeOK, isMarked
<1>2. i # NoImpl <=> t # NoCut
  BY NoCopyYet
<1>3. /\ pastImpl' \in [Node -> Impl \cup {NoImpl}]
      /\ cut' \in [Node -> Time \cup {NoCut}]
  BY <1>1
<1>4. \A p \in Node : pastImpl'[p] # NoImpl <=> cut'[p] # NoCut
  BY <1>1, <1>2
<1> QED BY <1>3, <1>4 DEF Copied, isMarked

LEMMA NoCopyKeeps ==
  ASSUME Inv, NEW n \in Node, NEW m \in network,
         NoCopy(n, Received(n, m))
  PROVE  Copied' /\ Core!Copy(n, m.vectorTime)
<1> DEFINE time == Received(n, m)
           i == CopiedImpl(n, time)
           t == CopiedTime(n, time)
<1>1. pastImpl' = [pastImpl EXCEPT ![n] = i] /\ cut' = [cut EXCEPT ![n] = t]
  BY DEF NoCopy
<1>2. time = Core!Received(n, m.vectorTime)
  BY ReceivedFacts
<1>3. cut \in [Node -> Time \cup {NoCut}]
  BY DEF Inv, TypeOK
<1> HIDE DEF time
<1>4. Copied'
  BY <1>1, CopiedFacts, CutKeeps
<1>5. CASE Terminating(n, time)
  BY <1>1, <1>2, <1>4, <1>5, CopiedFacts DEF Core!Copy
<1>6. CASE ~Terminating(n, time)
  <2>1. cut' = cut
    BY <1>1, <1>3, <1>6, CopiedFacts
  <2> QED BY <1>2, <1>4, <1>6, <2>1, CopiedFacts DEF Core!Copy
<1> QED BY <1>4, <1>5, <1>6

LEMMA CopyKeeps ==
  ASSUME Inv, NEW n \in Node, NEW m \in network, Takes(n, m), NEW s,
         Ready(n, m, Received(n, m), s), Copy(n, m, s, Received(n, m))
  PROVE  Copied' /\ Core!Copy(n, m.vectorTime)
<1> DEFINE time == Received(n, m)
           adds == Terminating(n, time) /\ IsPast(n, s)
           i == CopiedImpl(n, time)
           t == CopiedTime(n, time)
<1>1. CASE ~adds
  <2>1. NoCopy(n, time)
    BY <1>1 DEF NoCopy, Copy
  <2> QED BY <2>1, NoCopyKeeps
<1>2. CASE adds
  <2>1. /\ time \in Time /\ Leads(n, time)
        /\ \A k \in Node : m.vectorTime[k] <= time[k]
        /\ time = Core!Received(n, m.vectorTime)
    BY ReceivedFacts
  <2>2. /\ m \in Message /\ m.vectorTime \in Time /\ Dominated(m.vectorTime)
        /\ termininationTime[n] \in Nat
    <3>1. termininationTime[n] \in {0, TerminationTime}
      BY DEF Inv, TypeOK
    <3>2. m \in Message /\ Dominated(m.vectorTime)
      BY DEF Inv, TypeOK
    <3> QED BY <3>1, <3>2, TimeAssumption DEF Message
  <2>3. /\ getMaximum(m.vectorTime) \in Nat /\ getMaximum(s.stamp) \in Nat
        /\ getMaximum(m.vectorTime) <= getMaximum(s.stamp)
    BY <2>1, <2>2, StampFacts
  <2>4. getMaximum(m.vectorTime) <= termininationTime[n]
    BY <1>2, <2>2, <2>3 DEF IsPast
  <2>5. /\ pastImpl' = [pastImpl EXCEPT ![n] = Noted(n, i, m)]
        /\ cut' = [cut EXCEPT ![n] = merge(t, m.vectorTime)]
    BY <1>2 DEF Copy
  <2> HIDE DEF time
  <2>6. i \in Impl /\ t \in Time /\ t = Core!Before(n)
    BY <1>2, CopiedFacts
  <2>7. Noted(n, i, m) \in Impl /\ merge(t, m.vectorTime) \in Time
    BY <2>2, <2>6, NotedFacts, MergeFacts
  <2>8. Copied'
    BY <2>5, <2>7, CutKeeps
  <2>9. merge(t, m.vectorTime) = Core!merge(Core!Before(n), m.vectorTime)
    BY <2>6 DEF merge, Core!merge
  <2>10. getMaximum(m.vectorTime) = Core!getMaximum(m.vectorTime)
    BY DEF getMaximum, Core!getMaximum
  <2>11. Core!Marked(n) \/ Core!isTerminated(time[n], termininationTime[n])
    BY <1>2, CopiedFacts
  <2>12. Core!Copy(n, m.vectorTime)
    BY <2>1, <2>4, <2>5, <2>9, <2>10, <2>11 DEF Core!Copy
  <2> QED BY <2>8, <2>12
<1> QED BY <1>1, <1>2
-----------------------------------------------------------------------------
(* The actions                                                              *)

\* What n begins to work with
LEMMA WorkReady ==
  ASSUME Inv, NEW n \in Node, NEW m \in network, NEW base \in Time
  PROVE  Ready(n, m, base, Work(n, m, base))
<1> DEFINE s == Work(n, m, base)
<1>1. /\ impl[n] \in Impl /\ counter[n] \in [Number -> Nat]
      /\ drawn \in 0 .. MaxCalls /\ m.vectorTime \in Time
      /\ FirstNeighborID[n] \in [Number -> Node \cup {NoNode}]
  BY DEF Inv, TypeOK, Message
<1>2. s \in Works /\ s.time = base /\ s.sent = {} /\ s.stamp = m.vectorTime
  BY <1>1 DEF Work, Works
<1>3. Grown(n, base, base)
  BY DEF Grown, Time
<1> HIDE DEF s
<1>4. Ready(n, m, base, s)
  BY <1>2, <1>3 DEF Ready
<1> QED BY <1>4 DEF s

LEMMA CountedReady ==
  ASSUME Inv, NEW n \in Node, NEW m \in network, m.number \in Number,
         NEW base \in Time
  PROVE  Ready(n, m, base, Counted(n, m, base))
<1> DEFINE s == Work(n, m, base)
           r == [s EXCEPT !.counter[m.number] = @ + 1]
<1>1. Ready(n, m, base, s) /\ s \in Works
  BY WorkReady DEF Ready
<1> HIDE DEF s
<1>2. r \in Works /\ r.time = s.time /\ r.sent = s.sent /\ r.stamp = s.stamp
  BY <1>1 DEF Works
<1>3. Ready(n, m, base, r)
  BY <1>1, <1>2, Unsent
<1> QED BY <1>3 DEF Counted, s

LEMMA MessageFacts ==
  ASSUME Inv, NEW m \in network
  PROVE  /\ m \in Message /\ m.destinationID \in Node /\ Addressed(m)
         /\ m.type \in {"explorer", "echo"} =>
              /\ m.number \in Number /\ m.content \in Candidate
              /\ m.sourceID \in Node /\ Takes(m.destinationID, m)
         /\ m.type = "normal" /\ m.content # START => Takes(m.destinationID, m)
<1>1. m \in Message /\ Addressed(m)
  BY DEF Inv, TypeOK
<1> QED BY <1>1, Constants DEF Message, Addressed, Takes

\* A message of the application, as Snapshot has it
LEMMA HandleStep ==
  ASSUME Inv, NEW m \in network, NEW s, NEW n \in Node,
         Ready(n, m, Received(n, m), s), Finish(n, m, s),
         Copied', Core!Copy(n, m.vectorTime)
  PROVE  Inv' /\ Core!Next
<1> DEFINE time == Received(n, m)
           stamps == {x.vectorTime : x \in network}
<1>1. PICK base \in Time : base = time
  BY ReceivedFacts
<1>2. Settled' /\ Core!Working(n, base)
  BY <1>1, ReceivedFacts, FinishedKeeps
<1> HIDE DEF time
<1>3. UNCHANGED <<termininationTime, onTime>>
  BY DEF Finish
<1>4. Core!Handle(n, m.vectorTime)
  <2>1. base = Core!Received(n, m.vectorTime)
    BY <1>1, ReceivedFacts DEF time
  <2> QED BY <1>2, <1>3, <2>1 DEF Core!Handle, Core!Working
<1>5. m.vectorTime \in stamps \cup {Core!NoTime}
  OBVIOUS
<1>6. Core!Next
  BY <1>4, <1>5 DEF Core!Next
<1>7. (Settled /\ Copied => Inv)'
  BY InvParts, PTL
<1> QED BY <1>2, <1>6, <1>7

LEMMA StartStep ==
  ASSUME Inv, NEW m \in network, Start(m)
  PROVE  Inv' /\ Core!Next
<1> DEFINE n == m.destinationID
<1>1. n \in Node /\ n \in Candidate
  BY MessageFacts DEF Start, Addressed
<1>1a. PICK base \in Time : base = timeMap[n] /\ Leads(n, base)
  BY <1>1 DEF Inv, TypeOK
<1> DEFINE s0 == Work(n, m, base)
<1>2. PICK s \in Called(n, startCampaign(n, s0)) : Finish(n, m, s)
  BY <1>1a DEF Start
<1> HIDE DEF n
<1>3. Ready(n, m, base, s0) /\ s0.drawn < MaxCalls
  BY <1>1, WorkReady DEF Work, Start
<1> HIDE DEF s0
<1>4. Ready(n, m, base, startCampaign(n, s0))
  BY <1>1, <1>3, StartCampaignReady
<1>5. Ready(n, m, base, s)
  BY <1>1, <1>2, <1>4, CalledReady
<1>6. Settled' /\ Core!Working(n, base)
  BY <1>1, <1>1a, <1>2, <1>5, FinishedKeeps
<1>7. UNCHANGED <<termininationTime, onTime, cut, pastImpl>>
  BY <1>2 DEF Finish, Start
<1>8. Core!Next
  <2>1. Core!Begin(n)
    BY <1>1a, <1>6, <1>7 DEF Core!Begin, Core!Working
  <2> QED BY <1>1, <2>1 DEF Core!Next
<1>9. Copied'
  BY <1>7, InvParts DEF Copied, isMarked
<1>10. (Settled /\ Copied => Inv)'
  BY InvParts, PTL
<1> QED BY <1>6, <1>8, <1>9, <1>10

LEMMA HandleApplicationStep ==
  ASSUME Inv, NEW m \in network, HandleApplication(m)
  PROVE  Inv' /\ Core!Next
<1> DEFINE n == m.destinationID
           time == Received(n, m)
           s0 == Work(n, m, time)
<1>1. n \in Node /\ Takes(n, m)
  BY MessageFacts DEF HandleApplication
<1>2. PICK s \in Processed(n, s0, m) : Finish(n, m, s) /\ Copy(n, m, s, time)
  BY DEF HandleApplication
<1> HIDE DEF n
<1>3. time \in Time
  BY <1>1, ReceivedFacts
<1> HIDE DEF time
<1>4. Ready(n, m, time, s0)
  BY <1>1, <1>3, WorkReady
<1>5. Ready(n, m, time, s)
  BY <1>1, <1>2, <1>3, <1>4, ProcessedReady
<1>6. Copied' /\ Core!Copy(n, m.vectorTime)
  BY <1>1, <1>2, <1>5, CopyKeeps DEF time
<1> QED BY <1>1, <1>2, <1>5, <1>6, HandleStep DEF time

LEMMA FirstExplorerStep ==
  ASSUME Inv, NEW m \in network, FirstExplorer(m)
  PROVE  Inv' /\ Core!Next
<1> DEFINE n == m.destinationID
           w == m.number
           time == Received(n, m)
           entered(s) == [s EXCEPT !.first[w] = m.sourceID, !.counter[w] = 1]
           others == Neighbors[n] \ {m.sourceID}
           passed(s) ==
             [s EXCEPT !.time = increase(s.time, n),
                       !.sent = @ \cup Letters("explorer", w, n, m.content,
                                               increase(s.time, n), others)]
           s0 == Work(n, m, time)
<1>1. /\ n \in Node /\ Takes(n, m) /\ w \in Number /\ m.content \in Candidate
      /\ m.sourceID \in Node
  BY MessageFacts DEF FirstExplorer
<1>2. PICK s \in Processed(n, entered(s0), m) :
        /\ \E t \in Processed(n, passed(s), m) : Finish(n, m, t)
        /\ Copy(n, m, s, time)
  BY DEF FirstExplorer
<1>3. PICK t \in Processed(n, passed(s), m) : Finish(n, m, t)
  BY <1>2
<1> HIDE DEF n, w
<1>4. time \in Time
  BY <1>1, ReceivedFacts
<1> HIDE DEF time
<1>5. Ready(n, m, time, s0) /\ s0 \in Works
  BY <1>1, <1>4, WorkReady DEF Ready
<1> HIDE DEF s0
<1>6. Ready(n, m, time, entered(s0))
  <2>1. /\ entered(s0) \in Works /\ entered(s0).time = s0.time
        /\ entered(s0).sent = s0.sent /\ entered(s0).stamp = s0.stamp
    BY <1>1, <1>5 DEF Works
  <2> QED BY <1>1, <1>4, <1>5, <2>1, Unsent
<1>7. Ready(n, m, time, s) /\ s \in Works
  BY <1>1, <1>2, <1>4, <1>6, ProcessedReady DEF Ready
<1>8. Ready(n, m, time, passed(s))
  <2> DEFINE r == passed(s)
             new == Letters("explorer", w, n, m.content, increase(s.time, n), others)
  <2>1. Sendable("explorer", w, m.content, others)
    BY <1>1, Constants DEF Sendable
  <2>2. increase(s.time, n) \in Time
    BY <1>1, <1>7, IncreaseFacts DEF Works
  <2>3. new \subseteq Message
    BY <1>1, <2>1, <2>2, LettersFacts
  <2> HIDE DEF new
  <2>4. /\ r = [s EXCEPT !.time = increase(s.time, n), !.sent = @ \cup new]
        /\ r.time = increase(s.time, n) /\ r.sent = s.sent \cup new
        /\ r.stamp = s.stamp
    BY <1>7 DEF Works, new
  <2>5. s.sent \cup new \in SUBSET Message
    BY <1>7, <2>3 DEF Works
  <2> HIDE DEF r
  <2>6. r \in Works
    BY <1>7, <2>2, <2>4, <2>5 DEF Works
  <2>7. r.sent = s.sent \cup Letters("explorer", w, n, m.content, r.time, others)
    BY <2>4 DEF new
  <2>8. Ready(n, m, time, r)
    BY <1>1, <1>4, <1>7, <2>1, <2>4, <2>6, <2>7, Sent
  <2> QED BY <2>8 DEF r
<1>9. Ready(n, m, time, t)
  BY <1>1, <1>3, <1>4, <1>8, ProcessedReady
<1>10. Copied' /\ Core!Copy(n, m.vectorTime)
  BY <1>1, <1>2, <1>7, CopyKeeps DEF time
<1> QED BY <1>1, <1>3, <1>9, <1>10, HandleStep DEF time

LEMMA CountMessageStep ==
  ASSUME Inv, NEW m \in network, CountMessage(m)
  PROVE  Inv' /\ Core!Next
<1> DEFINE n == m.destinationID
           time == Received(n, m)
           s == Counted(n, m, time)
<1>1. n \in Node /\ m.number \in Number
  BY MessageFacts DEF CountMessage
<1>2. Finish(n, m, s) /\ NoCopy(n, time)
  BY DEF CountMessage
<1> HIDE DEF n
<1>3. Copied' /\ Core!Copy(n, m.vectorTime)
  BY <1>1, <1>2, NoCopyKeeps
<1>4. time \in Time
  BY <1>1, ReceivedFacts
<1> HIDE DEF time
<1>5. Ready(n, m, time, s)
  BY <1>1, <1>4, CountedReady
<1> HIDE DEF s
<1> QED BY <1>1, <1>2, <1>3, <1>5, HandleStep DEF time

LEMMA AnswerWaveStep ==
  ASSUME Inv, NEW m \in network, AnswerWave(m)
  PROVE  Inv' /\ Core!Next
<1> DEFINE n == m.destinationID
           w == m.number
           first == FirstNeighborID[n][w]
           time == Received(n, m)
           echo == Letters("echo", w, n, m.content, NoTime, {first})
           s == Counted(n, m, time)
           r == [s EXCEPT !.sent = echo]
<1>1. n \in Node /\ w \in Number /\ m.content \in Candidate
  BY MessageFacts DEF AnswerWave
<1>2. Finish(n, m, r) /\ NoCopy(n, time) /\ first \in Node
  <2>1. Finish(n, m, r) /\ NoCopy(n, time) /\ first # NoNode
    BY DEF AnswerWave, HasEntry
  <2>2. first \in Node \cup {NoNode}
    BY <1>1 DEF Inv, TypeOK
  <2> QED BY <2>1, <2>2
<1> HIDE DEF n, w, first
<1>3. Copied' /\ Core!Copy(n, m.vectorTime)
  BY <1>1, <1>2, NoCopyKeeps
<1>4. time \in Time
  BY <1>1, ReceivedFacts
<1> HIDE DEF time
<1>5. Ready(n, m, time, s) /\ s \in Works
  BY <1>1, <1>4, CountedReady DEF w, Ready
<1> HIDE DEF s
<1>6. ASSUME NEW x \in echo
      PROVE  x \in Message /\ Addressed(x) /\ x.vectorTime = NoTime
  <2>1. Sendable("echo", w, m.content, {first})
    BY <1>1, <1>2 DEF Sendable
  <2> QED BY <1>1, <1>6, <2>1, LettersFacts, NoCopyYet
<1> HIDE DEF echo
<1>7. /\ r \in Works /\ r.time = s.time /\ r.sent = echo /\ r.stamp = s.stamp
  BY <1>5, <1>6 DEF Works
<1> HIDE DEF r
<1>8. Ready(n, m, time, r)
  BY <1>5, <1>6, <1>7 DEF Ready, OnTheWay
<1> QED BY <1>1, <1>2, <1>3, <1>8, HandleStep DEF time

LEMMA FinishCampaignStep ==
  ASSUME Inv, NEW m \in network, FinishCampaign(m)
  PROVE  Inv' /\ Core!Next
<1> DEFINE n == m.destinationID
           time == Received(n, m)
           s0 == Counted(n, m, time)
<1>1. n \in Node /\ Takes(n, m) /\ m.number \in Number
  BY MessageFacts DEF FinishCampaign
<1>2. PICK s \in Processed(n, s0, m) : Finish(n, m, s) /\ Copy(n, m, s, time)
  BY DEF FinishCampaign
<1> HIDE DEF n
<1>3. time \in Time
  BY <1>1, ReceivedFacts
<1> HIDE DEF time
<1>4. Ready(n, m, time, s0)
  BY <1>1, <1>3, CountedReady
<1>5. Ready(n, m, time, s)
  BY <1>1, <1>2, <1>3, <1>4, ProcessedReady
<1>6. Copied' /\ Core!Copy(n, m.vectorTime)
  BY <1>1, <1>2, <1>5, CopyKeeps DEF time
<1> QED BY <1>1, <1>2, <1>5, <1>6, HandleStep DEF time

LEMMA SetTermininationTimeStep ==
  ASSUME Inv, NEW n \in Node, SetTermininationTime(n)
  PROVE  Inv' /\ Core!Next
<1>1. Inv'
  <2>1. /\ termininationTime' \in [Node -> {0, TerminationTime}]
        /\ onTime' \in [Node -> BOOLEAN]
    <3>1. (timeMap[n][n] < TerminationTime) \in BOOLEAN
      OBVIOUS
    <3> QED BY <3>1 DEF SetTermininationTime, Inv, TypeOK
  <2>2. UNCHANGED <<impl, pastImpl, timeMap, FirstNeighborID, counter, drawn,
                    network, cut>>
    BY DEF SetTermininationTime
  <2> QED BY <2>1, <2>2 DEF Inv, TypeOK, isMarked
<1>2. Core!Learn(n)
  BY DEF SetTermininationTime, Core!Learn
<1> QED BY <1>1, <1>2 DEF Core!Next

-----------------------------------------------------------------------------
LEMMA InitSnapshot == Init => Inv /\ Core!Init
<1> SUFFICES ASSUME Init PROVE Inv /\ Core!Init
  OBVIOUS
<1>1. ASSUME NEW x \in network
      PROVE  /\ x \in Message /\ Addressed(x) /\ x.vectorTime = NoTime
  <2>1. PICK n \in Prompted : x = InitiatorMessage(n)
    BY DEF Init
  <2>2. n \in Candidate /\ n \in Node
    BY CandidateAssumption, Constants
  <2> QED BY <2>1, <2>2, Constants, NoCopyYet
          DEF InitiatorMessage, Message, Addressed, Voter
<1>2. \A n \in Node : Starting(n) \subseteq Politics
  BY CandidateAssumption DEF Starting, Convinced, Politics
<1>3. impl \in [Node -> Impl]
  <2>1. UNION {Starting(n) : n \in Node} \subseteq Politics
    BY <1>2
  <2> QED BY <2>1 DEF Init, Impl
<1>4. TypeOK
  <2>1. /\ counter \in [Node -> [Number -> Nat]]
        /\ FirstNeighborID \in [Node -> [Number -> Node \cup {NoNode}]]
        /\ onTime \in [Node -> BOOLEAN]
        /\ termininationTime \in [Node -> {0, TerminationTime}]
    BY DEF Init
  <2>2. /\ timeMap \in [Node -> Time] /\ cut \in [Node -> Time \cup {NoCut}]
        /\ pastImpl \in [Node -> Impl \cup {NoImpl}]
    BY NoCopyYet DEF Init
  <2>3. drawn \in 0 .. MaxCalls
    BY Constants DEF Init
  <2> QED BY <1>1, <1>3, <2>1, <2>2, <2>3 DEF TypeOK
<1>5. \A n \in Node : Leads(n, timeMap[n]) /\ (isMarked(n) <=> cut[n] # NoCut)
  <2> SUFFICES ASSUME NEW n \in Node
               PROVE  Leads(n, timeMap[n]) /\ (isMarked(n) <=> cut[n] # NoCut)
    OBVIOUS
  <2>1. timeMap[n] = NoTime /\ pastImpl[n] = NoImpl /\ cut[n] = NoCut
    BY DEF Init
  <2>2. \A k \in Node : NoTime[k] = 0
    BY DEF NoTime
  <2>3. Leads(n, NoTime)
    <3> SUFFICES ASSUME NEW k \in Node PROVE NoTime[k] <= NoTime[n]
      BY DEF Leads
    <3>1. NoTime[k] = 0 /\ NoTime[n] = 0
      BY <2>2
    <3> QED BY <3>1
  <2> QED BY <2>1, <2>3 DEF isMarked
<1>6. Inv
  BY <1>1, <1>4, <1>5, NoTimeDominated DEF Inv
<1>7. Core!Init
  BY <1>1, <1>4
     DEF Init, TypeOK, Core!Init, Core!NoTime, NoTime, Core!NoCut, NoCut
<1> QED BY <1>6, <1>7

LEMMA StepSnapshot ==
  Inv /\ [Next]_vars => Inv' /\ [Core!Next]_(Core!vars)
<1> SUFFICES ASSUME Inv, [Next]_vars
             PROVE  Inv' /\ [Core!Next]_(Core!vars)
  OBVIOUS
<1>1. CASE UNCHANGED vars
  <2>1. Inv'
    BY <1>1 DEF vars, Inv, TypeOK, isMarked
  <2>2. UNCHANGED Core!vars
    BY <1>1 DEF vars, Core!vars
  <2> QED BY <2>1, <2>2
<1>2. ASSUME NEW m \in network,
             Start(m) \/ HandleApplication(m) \/ FirstExplorer(m)
               \/ CountMessage(m) \/ AnswerWave(m) \/ FinishCampaign(m)
      PROVE  Inv' /\ Core!Next
  BY <1>2, StartStep, HandleApplicationStep, FirstExplorerStep,
     CountMessageStep, AnswerWaveStep, FinishCampaignStep
<1>3. ASSUME NEW n \in Node, SetTermininationTime(n)
      PROVE  Inv' /\ Core!Next
  BY <1>3, SetTermininationTimeStep
<1> QED BY <1>1, <1>2, <1>3 DEF Next

(* A message is what the node it goes to can work with: a voter only gets    *)
(* numbers and candidates that exist, an answer goes to a candidate, and the *)
(* levels stay between 0 and 100 (VoterNodeCoreImpl::process).               *)
THEOREM TypeCorrect == Spec => []TypeOK
<1>1. Inv => TypeOK
  BY DEF Inv
<1> QED BY <1>1, InitSnapshot, StepSnapshot, PTL DEF Spec

(* Whatever candidates and voters do while NodeCore holds a message, clocks, *)
(* messages and copies behave as Snapshot says                               *)
(* (NodeCore::receive, processImplementations, sendToDestinationsImpl).      *)
THEOREM SnapshotImplemented == Spec => ImplementsSnapshot
BY InitSnapshot, StepSnapshot, PTL DEF Spec, ImplementsSnapshot, Core!Spec

\* What is proved about Snapshot, under the refinement mapping
Abstract == INSTANCE SnapshotProofs
  WITH time <- timeMap, limit <- termininationTime,
       stamps <- {m.vectorTime : m \in network}

LEMMA AbstractSpec == Spec => Abstract!Spec
<1>1. Core!Spec => Abstract!Spec
  BY DEF Core!Spec, Core!vars, Core!Init, Core!Next, Core!Handle, Core!Begin,
         Core!Learn, Core!Working, Core!Stamped, Core!Copy, Core!Before,
         Core!Received, Core!Marked, Core!NoCut, Core!NoTime, Core!merge,
         Core!increase, Core!setTime, Core!getMaximum, Core!isTerminated,
         Abstract!Spec, Abstract!vars, Abstract!Init, Abstract!Next,
         Abstract!Handle, Abstract!Begin, Abstract!Learn, Abstract!Working,
         Abstract!Stamped, Abstract!Copy, Abstract!Before,
         Abstract!Received, Abstract!Marked, Abstract!NoCut,
         Abstract!NoTime, Abstract!merge, Abstract!increase,
         Abstract!setTime, Abstract!getMaximum, Abstract!isTerminated
<1> QED BY <1>1, SnapshotImplemented DEF ImplementsSnapshot

(* Neither a candidate's or voter's clock nor a message under way has a time *)
(* of a node that this node has not reached                                  *)
(* (NodeCore::sendToDestinationsImpl, sendTo).                               *)
THEOREM NoTimeFromTheFuture == Spec => []NoFutureTime
<1>1. Abstract!Spec => []Abstract!NoFutureTime
  BY NodeAssumption, TimeAssumption, Abstract!NothingFromTheFuture
<1>2. Abstract!NoFutureTime <=> NoFutureTime
  BY DEF NoFutureTime, Core!NoFutureTime, Abstract!NoFutureTime
<1> QED BY <1>1, <1>2, AbstractSpec, PTL

(* The past copies of candidates and voters are a consistent cut, on any     *)
(* graph and whatever they send, if the termination time is known everywhere *)
(* in time (NodeCore::createTemporaryPastImplementation,                     *)
(* processImplementations).                                                  *)
THEOREM PastCopiesAreConsistent == Spec => []ConsistentCut
<1>1. Abstract!Spec => []Abstract!ConsistentCut
  BY NodeAssumption, TimeAssumption, Abstract!CopiesAreConsistent
<1>2. Abstract!ConsistentCut <=> ConsistentCut
  BY DEF ConsistentCut, Core!ConsistentCut, Core!Learned, Core!Marked,
         Core!NoCut, Core!Before, Abstract!ConsistentCut, Abstract!Learned,
         Abstract!Marked, Abstract!NoCut, Abstract!Before
<1> QED BY <1>1, <1>2, AbstractSpec, PTL

-----------------------------------------------------------------------------
(* Once over every connection.  A voter has recorded the number of each     *)
(* VoteMe and answer it has under way, a candidate gave it a new number.    *)

Alike(x, y) ==
  /\ x.type = "normal" /\ y.type = "normal"
  /\ x.number = y.number /\ x.content = y.content
  /\ x.sourceID = y.sourceID /\ x.destinationID = y.destinationID

Once(S) == \A x, y \in S : Alike(x, y) => x = y

UsedUp ==
  \A x \in network : x.type = "normal" =>
    /\ x.number <= drawn
    /\ x.sourceID \in Voter =>
         x.number \in impl[x.sourceID].receivedMessageNumbers

OnceInv == Inv /\ Once(network) /\ UsedUp

\* What n has sent by s is new.
Fresh(n, s) ==
  /\ drawn <= s.drawn
  /\ impl[n].receivedMessageNumbers \subseteq s.impl.receivedMessageNumbers
  /\ Once(s.sent)
  /\ \A x \in s.sent : x.type = "normal" =>
       /\ x.sourceID = n /\ x.number <= s.drawn
       /\ n \in Candidate => drawn < x.number
       /\ n \in Voter => /\ x.number \in s.impl.receivedMessageNumbers
                         /\ x.number \notin impl[n].receivedMessageNumbers

\* What is drawn and the numbers of messages are natural numbers.
LEMMA NumberFacts ==
  /\ \A x \in Message : x.number \in Nat
  /\ \A s \in Works : s.drawn \in Nat
  /\ Inv => drawn \in Nat
<1>1. MaxCalls \in Nat
  BY Constants
<1>2. ASSUME NEW x \in Message PROVE x.number \in Nat
  <2>1. x.number = 0 \/ x.number \in 1 .. MaxCalls
    BY DEF Message, Number
  <2> QED BY <1>1, <2>1
<1>3. \A s \in Works : s.drawn \in 0 .. MaxCalls
  BY DEF Works
<1>4. Inv => drawn \in 0 .. MaxCalls
  BY DEF Inv, TypeOK
<1> QED BY <1>1, <1>2, <1>3, <1>4

\* s has become r and sent nothing but parts of a campaign.
LEMMA FreshUnsent ==
  ASSUME NEW n \in Node, NEW s \in Works, Fresh(n, s), NEW r \in Works,
         s.drawn <= r.drawn, drawn \in Nat,
         s.impl.receivedMessageNumbers \subseteq r.impl.receivedMessageNumbers,
         \A x \in r.sent : x \in s.sent \/ x.type # "normal"
  PROVE  Fresh(n, r)
<1>1. s.drawn \in Nat /\ r.drawn \in Nat
  BY Constants DEF Works
<1>2. Once(r.sent)
  BY DEF Fresh, Once, Alike
<1>3. \A x \in r.sent : x.type = "normal" =>
        x \in s.sent /\ x.number \in Nat /\ x.number <= r.drawn
  <2> SUFFICES ASSUME NEW x \in r.sent, x.type = "normal"
               PROVE  x \in s.sent /\ x.number \in Nat /\ x.number <= r.drawn
    OBVIOUS
  <2>1. x \in s.sent /\ x.number <= s.drawn
    BY DEF Fresh
  <2>2. x.number \in Nat
    BY <2>1, NumberFacts DEF Works
  <2> QED BY <1>1, <2>1, <2>2
<1> QED BY <1>1, <1>2, <1>3 DEF Fresh

LEMMA FreshCalled ==
  ASSUME Inv, NEW n \in Candidate, NEW m, NEW base \in Time, NEW s,
         Ready(n, m, base, s), Fresh(n, s), NEW r \in Called(n, s)
  PROVE  Fresh(n, r)
<1> DEFINE d == Drawing(s)
<1>1. /\ n \in Node /\ n \notin Voter /\ s \in Works /\ drawn \in Nat
      /\ s.drawn \in Nat
  BY Constants DEF Ready, Works, Inv, TypeOK, Voter
<1>2. CASE r = s
  BY <1>2
<1>3. CASE s.drawn < MaxCalls /\ r \in {callVoteMe(n, s), startCampaign(n, s)}
  <2>1. /\ d \in Works /\ d.drawn \in Number /\ d.drawn = s.drawn + 1
        /\ d.sent = s.sent /\ d.impl = s.impl
    <3>1. d \in Works /\ d.drawn \in Number
      BY <1>1, <1>3, DrawingReady DEF Ready
    <3> QED BY <1>1, <3>1 DEF Drawing, Works
  <2>2. Ready(n, m, base, r) /\ r \in Works
    BY <1>3, CalledReady DEF Called, Ready
  <2> HIDE DEF d
  <2>3. CASE r = startCampaign(n, s)
    <3> DEFINE e == [d EXCEPT !.first[d.drawn] = n]
               new == Letters("explorer", e.drawn, n, n, increase(e.time, n),
                              Neighbors[n])
    <3>1. e \in Works /\ e.drawn = d.drawn /\ e.sent = d.sent /\ e.impl = d.impl
      BY <1>1, <2>1 DEF Works
    <3>2. r = Announced(n, e, "explorer", n)
      BY <2>3 DEF startCampaign, d
    <3> HIDE DEF e
    <3>3. /\ r.sent = e.sent \cup new /\ r.drawn = e.drawn
          /\ r.impl.receivedMessageNumbers = e.impl.receivedMessageNumbers
      BY <3>1, <3>2 DEF Announced, Works, Impl
    <3>4. \A x \in new : x.type # "normal"
      BY DEF Letters
    <3> HIDE DEF new
    <3> QED BY <1>1, <2>1, <2>2, <3>1, <3>3, <3>4, FreshUnsent
  <2>4. CASE r = callVoteMe(n, s)
    <3> DEFINE t == increase(d.time, n)
               new == Letters("normal", d.drawn, n, n, t, Neighbors[n])
    <3>1. r = Announced(n, d, "normal", n)
      BY <2>4 DEF callVoteMe, d
    <3>2. /\ r.sent = d.sent \cup new /\ r.drawn = d.drawn
          /\ r.impl.receivedMessageNumbers = d.impl.receivedMessageNumbers
      BY <2>1, <3>1 DEF Announced, Works, Impl
    <3>3. \A x \in new : /\ x.type = "normal" /\ x.number = d.drawn
                         /\ x.sourceID = n /\ x.content = n /\ x.vectorTime = t
                         /\ x \in [type : {"normal"}, number : {d.drawn},
                                   sourceID : {n}, destinationID : Neighbors[n],
                                   content : {n}, vectorTime : {t}]
      BY DEF Letters
    <3>4. Once(new)
      BY <3>3 DEF Once, Alike
    <3> HIDE DEF new, t
    <3>5. \A x \in s.sent : x.type = "normal" =>
            x.number \in Nat /\ x.number < d.drawn
      <4> SUFFICES ASSUME NEW x \in s.sent, x.type = "normal"
                   PROVE  x.number \in Nat /\ x.number < d.drawn
        OBVIOUS
      <4>1. x.number \in Nat
        BY <1>1, NumberFacts DEF Works
      <4>2. x.number <= s.drawn
        BY DEF Fresh
      <4> QED BY <1>1, <2>1, <4>1, <4>2
    <3>6. Once(r.sent)
      <4> SUFFICES ASSUME NEW x \in r.sent, NEW y \in r.sent, Alike(x, y)
                   PROVE  x = y
        BY DEF Once
      <4>1. (x \in s.sent /\ y \in s.sent) \/ (x \in new /\ y \in new)
        BY <2>1, <3>2, <3>3, <3>5 DEF Alike
      <4> QED BY <3>4, <4>1 DEF Once, Fresh
    <3>7. ASSUME NEW x \in r.sent, x.type = "normal"
          PROVE  x.sourceID = n /\ x.number <= r.drawn /\ drawn < x.number
      <4>1. CASE x \in s.sent
        BY <1>1, <2>1, <3>2, <3>5, <3>7, <4>1 DEF Fresh
      <4>2. CASE x \in new
        BY <1>1, <2>1, <3>2, <3>3, <4>2 DEF Fresh
      <4> QED BY <2>1, <3>2, <4>1, <4>2
    <3>8. drawn <= r.drawn
      BY <1>1, <2>1, <3>2 DEF Fresh
    <3> QED BY <1>1, <2>1, <3>2, <3>6, <3>7, <3>8 DEF Fresh
  <2> QED BY <1>3, <2>3, <2>4
<1> QED BY <1>2, <1>3 DEF Called

LEMMA FreshVoted ==
  ASSUME Inv, NEW n \in Voter, NEW m, Takes(n, m), NEW base \in Time, NEW s,
         Ready(n, m, base, s), Fresh(n, s), m.type = "normal" => m.number <= drawn
  PROVE  Fresh(n, Voted(n, s, m))
<1> DEFINE next == [s EXCEPT !.impl = Told(s.impl, m)]
           r == Voted(n, s, m)
<1>1. n \in Node /\ n \notin Candidate /\ s \in Works /\ drawn \in Nat
  BY Constants DEF Voter, Ready, Inv, TypeOK
<1>2. /\ Told(s.impl, m) \in Impl
      /\ s.impl.receivedMessageNumbers
           \subseteq Told(s.impl, m).receivedMessageNumbers
  <2>1. Told(s.impl, m) \in Impl
    BY <1>1, NotedFacts DEF Noted, Works
  <2>2. s.impl \in Impl
    BY <1>1 DEF Works
  <2> QED BY <2>1, <2>2 DEF Told, Impl
<1>3. /\ next \in Works /\ next.sent = s.sent /\ next.drawn = s.drawn
      /\ next.time = s.time /\ next.impl = Told(s.impl, m)
  BY <1>1, <1>2 DEF Works
<1>4. s.drawn \in Nat
  BY <1>1, Constants DEF Works
<1>5. Fresh(n, next)
  <2> HIDE DEF next
  <2>1. s.impl.receivedMessageNumbers \subseteq next.impl.receivedMessageNumbers
    BY <1>2, <1>3
  <2>2. s.drawn <= next.drawn
    BY <1>3, <1>4
  <2> QED BY <1>1, <1>3, <2>1, <2>2, FreshUnsent
<1>6. r \in Works
  BY VotedReady DEF Ready
<1>7. CASE m.type # "normal" \/ Known(s.impl, m)
  BY <1>5, <1>7 DEF Voted
<1>8. CASE m.type = "normal" /\ ~Known(s.impl, m)
  <2>1. m.number \in Number /\ m.content \in Candidate
    BY <1>8 DEF Takes
  <2>2. m.number \in next.impl.receivedMessageNumbers
    <3>1. s.impl \in Impl
      BY <1>1 DEF Works
    <3>2. Told(s.impl, m) =
            [s.impl EXCEPT !.receivedMessageNumbers = @ \cup {m.number},
                           !.politics = Persuaded(s.impl.politics, m.content)]
      BY <1>8 DEF Told
    <3>3. m.number \in Told(s.impl, m).receivedMessageNumbers
      BY <3>1, <3>2 DEF Impl
    <3> QED BY <1>3, <3>3
  <2>3. m.number \notin s.impl.receivedMessageNumbers
    BY <1>8 DEF Known
  <2> HIDE DEF next
  <2> DEFINE t1 == increase(next.time, n)
             forward == Letters("normal", m.number, n, m.content, t1,
                                Neighbors[n] \ {m.sourceID})
             reply(vote, t) == Letters("normal", m.number, n, vote, t, {m.content})
             new(S) == /\ Once(S)
                       /\ \A x \in S : /\ x.type = "normal" /\ x.sourceID = n
                                       /\ x.number = m.number
  <2>4. ASSUME NEW vote, NEW t PROVE new(reply(vote, t))
    BY DEF Letters, Once, Alike
  <2>5. new(forward)
    BY DEF Letters, Once, Alike
  <2>6. ASSUME NEW t PROVE new(forward \cup reply(IVoteYou, t))
    <3>1. \A x \in forward, y \in reply(IVoteYou, t) : x.content # y.content
      BY <2>1, Constants DEF Letters
    <3> HIDE DEF forward, reply
    <3> QED BY <2>4, <2>5, <3>1 DEF Once, Alike
  <2>7. ASSUME NEW S, new(S), r.sent = s.sent \cup S, r.drawn = s.drawn,
               r.impl = next.impl
        PROVE  Fresh(n, r)
    <3>1. Once(r.sent)
      <4> SUFFICES ASSUME NEW x \in r.sent, NEW y \in r.sent, Alike(x, y)
                   PROVE  x = y
        BY DEF Once
      <4>1. \A z \in s.sent : z.type = "normal" => z.number # m.number
        BY <2>3 DEF Fresh
      <4>2. (x \in s.sent /\ y \in s.sent) \/ (x \in S /\ y \in S)
        BY <2>7, <4>1 DEF Alike
      <4> QED BY <2>7, <4>2 DEF Once, Fresh
    <3>2. ASSUME NEW x \in r.sent, x.type = "normal"
          PROVE  /\ x.sourceID = n /\ x.number <= r.drawn
                 /\ x.number \in r.impl.receivedMessageNumbers
                 /\ x.number \notin impl[n].receivedMessageNumbers
      <4>1. CASE x \in s.sent
        BY <1>2, <1>3, <2>7, <3>2, <4>1 DEF Fresh, next
      <4>2. CASE x \in S
        <5>1. m.number <= s.drawn
          <6>1. m.number <= drawn /\ drawn <= s.drawn
            BY <1>8 DEF Fresh
          <6>2. m.number \in Nat
            BY <2>1, Constants
          <6> QED BY <1>1, <1>4, <6>1, <6>2
        <5> QED BY <2>2, <2>3, <2>7, <4>2, <5>1 DEF Fresh
      <4> QED BY <2>7, <4>1, <4>2
    <3> QED BY <1>1, <1>3, <1>5, <2>7, <3>1, <3>2 DEF Fresh
  <2>8. CASE r = next
    BY <1>5, <2>8
  <2>9. CASE r = Replied(n, next, m, IDontVoteYou)
    <3>1. /\ r.sent = s.sent \cup reply(IDontVoteYou, t1) /\ r.drawn = s.drawn
          /\ r.impl = next.impl
      BY <1>3, <2>9 DEF Replied, Works
    <3> QED BY <2>4, <2>7, <3>1
  <2>10. CASE r = Replied(n, Forwarded(n, next, m), m, IVoteYou)
    <3> DEFINE f == Forwarded(n, next, m)
    <3>1. /\ f.sent = s.sent \cup forward /\ f.drawn = s.drawn
          /\ f.impl = next.impl
          /\ f = [next EXCEPT !.time = t1, !.stamp = t1, !.sent = @ \cup forward]
      BY <1>3 DEF Forwarded, Works
    <3> DEFINE t2 == increase(f.time, n)
    <3>2. r = [f EXCEPT !.time = t2, !.sent = @ \cup reply(IVoteYou, t2)]
      BY <2>10 DEF Replied
    <3>3. /\ r.sent = (s.sent \cup forward) \cup reply(IVoteYou, t2)
          /\ r.drawn = s.drawn /\ r.impl = next.impl
      BY <1>3, <3>1, <3>2 DEF Works
    <3>4. r.sent = s.sent \cup (forward \cup reply(IVoteYou, t2))
      BY <3>3
    <3> QED BY <2>6, <2>7, <3>3, <3>4
  <2>11. r \in {next, Replied(n, next, m, IDontVoteYou),
                Replied(n, Forwarded(n, next, m), m, IVoteYou)}
    BY DEF Voted, next
  <2> QED BY <2>8, <2>9, <2>10, <2>11
<1> QED BY <1>7, <1>8
LEMMA FreshProcessed ==
  ASSUME Inv, NEW n \in Node, NEW m, Takes(n, m), NEW base \in Time, NEW s,
         Ready(n, m, base, s), Fresh(n, s),
         m.type = "normal" => m.number <= drawn, NEW r \in Processed(n, s, m)
  PROVE  Fresh(n, r)
<1>1. CASE n \in Candidate
  <2> DEFINE next == [s EXCEPT !.impl = Noted(n, s.impl, m)]
  <2>1. s \in Works /\ s.impl \in Impl /\ drawn \in Nat /\ s.drawn \in Nat
    BY Constants DEF Ready, Works, Inv, TypeOK
  <2>2. /\ Noted(n, s.impl, m) \in Impl
        /\ Noted(n, s.impl, m).receivedMessageNumbers
             = s.impl.receivedMessageNumbers
    BY <1>1, <2>1, NotedFacts DEF Noted, Impl
  <2>3. /\ next \in Works /\ next.time = s.time /\ next.sent = s.sent
        /\ next.stamp = s.stamp /\ next.drawn = s.drawn
        /\ next.impl.receivedMessageNumbers = s.impl.receivedMessageNumbers
    BY <2>1, <2>2 DEF Works
  <2>4. r \in Called(n, next)
    BY <1>1 DEF Processed, Recalled
  <2> HIDE DEF next
  <2>5. Ready(n, m, base, next)
    BY <2>3, Unsent
  <2>6. Fresh(n, next)
    BY <2>1, <2>3, FreshUnsent
  <2> QED BY <1>1, <2>4, <2>5, <2>6, FreshCalled
<1>2. CASE n \notin Candidate
  <2>1. n \in Voter /\ r = Voted(n, s, m)
    BY <1>2 DEF Processed, Voter
  <2> QED BY <2>1, FreshVoted
<1> QED BY <1>1, <1>2

LEMMA FreshWork ==
  ASSUME Inv, NEW n \in Node, NEW m \in network, NEW base \in Time
  PROVE  Fresh(n, Work(n, m, base))
BY DEF Fresh, Work, Once, Inv, TypeOK

LEMMA FreshCounted ==
  ASSUME Inv, NEW n \in Node, NEW m \in network, m.number \in Number,
         NEW base \in Time
  PROVE  Fresh(n, Counted(n, m, base))
<1> DEFINE s == Work(n, m, base)
           r == [s EXCEPT !.counter[m.number] = @ + 1]
<1>1. Fresh(n, s) /\ s \in Works /\ drawn \in Nat /\ s.drawn \in Nat
  BY FreshWork, WorkReady, Constants DEF Ready, Works, Inv, TypeOK
<1> HIDE DEF s
<1>2. r \in Works /\ r.sent = s.sent /\ r.drawn = s.drawn /\ r.impl = s.impl
  BY <1>1 DEF Works
<1> HIDE DEF r
<1>3. Fresh(n, r)
  BY <1>1, <1>2, FreshUnsent
<1> QED BY <1>3 DEF Counted, r, s

\* What is done with m by s keeps everything once over every connection.
LEMMA FreshFinished ==
  ASSUME OnceInv, NEW n \in Node, NEW m \in network, NEW s \in Works,
         Fresh(n, s), Finish(n, m, s)
  PROVE  Once(network') /\ UsedUp'
<1>1. /\ network' = (network \ {m}) \cup s.sent /\ drawn' = s.drawn
      /\ impl' = [impl EXCEPT ![n] = s.impl] /\ impl \in [Node -> Impl]
      /\ drawn \in Nat /\ s.drawn \in Nat /\ network \subseteq Message
      /\ s.sent \subseteq Message
  BY Constants DEF Finish, OnceInv, Inv, TypeOK, Works
<1>2. n \in Candidate \/ n \in Voter
  BY DEF Voter
<1>3. ASSUME NEW x \in network, NEW y \in s.sent
      PROVE  ~Alike(x, y) /\ ~Alike(y, x)
  <2> SUFFICES ASSUME x.type = "normal", y.type = "normal",
                      x.number = y.number, x.sourceID = y.sourceID
               PROVE  FALSE
    BY DEF Alike
  <2>1. x.number \in Nat /\ x.number <= drawn /\ y.sourceID = n
    BY <1>1, NumberFacts DEF OnceInv, UsedUp, Fresh
  <2>2. CASE n \in Candidate
    <3>1. drawn < y.number
      BY <2>2 DEF Fresh
    <3> QED BY <1>1, <2>1, <3>1
  <2>3. CASE n \in Voter
    <3>1. y.number \notin impl[n].receivedMessageNumbers
      BY <2>3 DEF Fresh
    <3>2. x.number \in impl[n].receivedMessageNumbers
      BY <2>1, <2>3 DEF OnceInv, UsedUp
    <3> QED BY <3>1, <3>2
  <2> QED BY <1>2, <2>2, <2>3
<1>4. Once(network')
  <2> SUFFICES ASSUME NEW x \in network', NEW y \in network', Alike(x, y)
               PROVE  x = y
    BY DEF Once
  <2>1. (x \in network /\ y \in network) \/ (x \in s.sent /\ y \in s.sent)
    BY <1>1, <1>3
  <2> QED BY <2>1 DEF OnceInv, Fresh, Once
<1>5. ASSUME NEW x \in network', x.type = "normal"
      PROVE  /\ x.number <= drawn'
             /\ x.sourceID \in Voter =>
                  x.number \in impl'[x.sourceID].receivedMessageNumbers
  <2>1. CASE x \in network
    <3>1. x.number \in Nat /\ x.number <= drawn /\ drawn <= s.drawn
      BY <1>1, <1>5, <2>1, NumberFacts DEF OnceInv, UsedUp, Fresh
    <3>2. ASSUME x.sourceID \in Voter
          PROVE  x.number \in impl'[x.sourceID].receivedMessageNumbers
      <4>1. x.number \in impl[x.sourceID].receivedMessageNumbers
        BY <1>5, <2>1, <3>2 DEF OnceInv, UsedUp
      <4>2. CASE x.sourceID = n
        BY <1>1, <4>1, <4>2 DEF Fresh
      <4>3. CASE x.sourceID # n
        BY <1>1, <3>2, <4>1, <4>3 DEF Voter
      <4> QED BY <4>2, <4>3
    <3> QED BY <1>1, <3>1, <3>2
  <2>2. CASE x \in s.sent
    <3>1. x.sourceID = n /\ x.number <= s.drawn
      BY <1>5, <2>2 DEF Fresh
    <3>2. n \in Voter => x.number \in s.impl.receivedMessageNumbers
      BY <1>5, <2>2 DEF Fresh
    <3> QED BY <1>1, <3>1, <3>2
  <2> QED BY <1>1, <2>1, <2>2
<1>6. UsedUp'
  BY <1>5 DEF UsedUp
<1> QED BY <1>4, <1>6

LEMMA StartOnce ==
  ASSUME OnceInv, NEW m \in network, Start(m)
  PROVE  Once(network') /\ UsedUp'
<1> DEFINE n == m.destinationID
<1>1. Inv /\ n \in Node /\ n \in Candidate
  BY MessageFacts DEF Start, Addressed, OnceInv
<1>2. PICK base \in Time : base = timeMap[n]
  BY <1>1 DEF Inv, TypeOK
<1> DEFINE s0 == Work(n, m, base)
           s1 == startCampaign(n, s0)
<1>3. PICK s \in Called(n, s1) : Finish(n, m, s)
  BY <1>2 DEF Start
<1> HIDE DEF n
<1>4. Ready(n, m, base, s0) /\ Fresh(n, s0) /\ s0.drawn < MaxCalls /\ s0 \in Works
  BY <1>1, WorkReady, FreshWork DEF Work, Start, Ready
<1> HIDE DEF s0
<1>5. Ready(n, m, base, s1)
  BY <1>1, <1>4, StartCampaignReady
<1>6. Fresh(n, s1)
  <2> DEFINE d == Drawing(s0)
             e == [d EXCEPT !.first[d.drawn] = n]
             new == Letters("explorer", e.drawn, n, n, increase(e.time, n),
                            Neighbors[n])
  <2>1. /\ d \in Works /\ d.drawn \in Number /\ d.drawn = s0.drawn + 1
        /\ d.sent = s0.sent /\ d.impl = s0.impl /\ s0.drawn \in Nat /\ drawn \in Nat
    <3>1. d \in Works /\ d.drawn \in Number
      BY <1>1, <1>4, DrawingReady DEF Ready
    <3>2. s0.drawn \in Nat /\ drawn \in Nat
      BY <1>1, <1>4, Constants DEF Works, Inv, TypeOK
    <3> QED BY <1>4, <3>1, <3>2 DEF Drawing, Works
  <2> HIDE DEF d
  <2>2. e \in Works /\ e.drawn = d.drawn /\ e.sent = d.sent /\ e.impl = d.impl
    BY <1>1, <2>1 DEF Works
  <2>3. s1 = Announced(n, e, "explorer", n)
    BY DEF startCampaign, d
  <2> HIDE DEF e, s1
  <2>4. /\ s1.sent = e.sent \cup new /\ s1.drawn = e.drawn
        /\ s1.impl.receivedMessageNumbers = e.impl.receivedMessageNumbers
    BY <2>2, <2>3 DEF Announced, Works, Impl
  <2>5. \A x \in new : x.type # "normal"
    BY DEF Letters
  <2> HIDE DEF new
  <2>6. s1 \in Works
    BY <1>5 DEF Ready
  <2> QED BY <1>1, <1>4, <2>1, <2>2, <2>4, <2>5, <2>6, FreshUnsent
<1>7. Fresh(n, s) /\ s \in Works
  BY <1>1, <1>3, <1>5, <1>6, FreshCalled, CalledReady DEF Ready
<1> QED BY <1>1, <1>3, <1>7, FreshFinished

LEMMA HandleApplicationOnce ==
  ASSUME OnceInv, NEW m \in network, HandleApplication(m)
  PROVE  Once(network') /\ UsedUp'
<1> DEFINE n == m.destinationID
           time == Received(n, m)
           s0 == Work(n, m, time)
<1>1. Inv /\ n \in Node /\ Takes(n, m) /\ (m.type = "normal" => m.number <= drawn)
  BY MessageFacts DEF HandleApplication, OnceInv, UsedUp
<1>2. PICK s \in Processed(n, s0, m) : Finish(n, m, s)
  BY DEF HandleApplication
<1> HIDE DEF n
<1>3. time \in Time
  BY <1>1, ReceivedFacts
<1> HIDE DEF time
<1>4. Ready(n, m, time, s0) /\ Fresh(n, s0)
  BY <1>1, <1>3, WorkReady, FreshWork
<1>5. Fresh(n, s) /\ s \in Works
  BY <1>1, <1>2, <1>3, <1>4, ProcessedReady, FreshProcessed DEF Ready
<1> QED BY <1>1, <1>2, <1>5, FreshFinished

LEMMA FirstExplorerOnce ==
  ASSUME OnceInv, NEW m \in network, FirstExplorer(m)
  PROVE  Once(network') /\ UsedUp'
<1> DEFINE n == m.destinationID
           w == m.number
           time == Received(n, m)
           entered(s) == [s EXCEPT !.first[w] = m.sourceID, !.counter[w] = 1]
           others == Neighbors[n] \ {m.sourceID}
           new(s) == Letters("explorer", w, n, m.content, increase(s.time, n), others)
           passed(s) ==
             [s EXCEPT !.time = increase(s.time, n), !.sent = @ \cup new(s)]
           s0 == Work(n, m, time)
<1>1. /\ Inv /\ n \in Node /\ Takes(n, m) /\ w \in Number /\ m.content \in Candidate
      /\ m.sourceID \in Node /\ m.type # "normal" /\ drawn \in Nat
  BY MessageFacts, NumberFacts DEF FirstExplorer, OnceInv
<1>2. PICK s \in Processed(n, entered(s0), m) :
        \E t \in Processed(n, passed(s), m) : Finish(n, m, t)
  BY DEF FirstExplorer
<1>3. PICK t \in Processed(n, passed(s), m) : Finish(n, m, t)
  BY <1>2
<1> HIDE DEF n, w
<1>4. time \in Time
  BY <1>1, ReceivedFacts
<1> HIDE DEF time
<1>5. Ready(n, m, time, s0) /\ s0 \in Works /\ Fresh(n, s0) /\ s0.drawn \in Nat
  BY <1>1, <1>4, WorkReady, FreshWork, NumberFacts DEF Ready
<1> HIDE DEF s0
<1>6. Ready(n, m, time, entered(s0)) /\ Fresh(n, entered(s0))
  <2> DEFINE r == entered(s0)
  <2>1. /\ r \in Works /\ r.time = s0.time /\ r.sent = s0.sent
        /\ r.stamp = s0.stamp /\ r.drawn = s0.drawn /\ r.impl = s0.impl
    BY <1>1, <1>5 DEF Works
  <2> HIDE DEF r
  <2>2. Ready(n, m, time, r) /\ Fresh(n, r)
    BY <1>1, <1>4, <1>5, <2>1, Unsent, FreshUnsent
  <2> QED BY <2>2 DEF r
<1>7. Ready(n, m, time, s) /\ s \in Works /\ Fresh(n, s) /\ s.drawn \in Nat
  BY <1>1, <1>2, <1>4, <1>6, ProcessedReady, FreshProcessed, NumberFacts
     DEF Ready
<1>8. Ready(n, m, time, passed(s)) /\ Fresh(n, passed(s))
  <2> DEFINE r == passed(s)
  <2>1. Sendable("explorer", w, m.content, others)
    BY <1>1, Constants DEF Sendable
  <2>2. increase(s.time, n) \in Time
    BY <1>1, <1>7, IncreaseFacts DEF Works
  <2>3. new(s) \subseteq Message
    BY <1>1, <2>1, <2>2, LettersFacts
  <2>4. \A x \in new(s) : x.type # "normal"
    BY DEF Letters
  <2>5. new(s) = Letters("explorer", w, n, m.content, increase(s.time, n), others)
    OBVIOUS
  <2> HIDE DEF new
  <2>6. /\ r = [s EXCEPT !.time = increase(s.time, n), !.sent = @ \cup new(s)]
        /\ r.time = increase(s.time, n) /\ r.sent = s.sent \cup new(s)
        /\ r.stamp = s.stamp /\ r.drawn = s.drawn /\ r.impl = s.impl
    BY <1>7 DEF Works
  <2>7. s.sent \cup new(s) \in SUBSET Message
    BY <1>7, <2>3 DEF Works
  <2> HIDE DEF r
  <2>8. r \in Works
    BY <1>7, <2>2, <2>6, <2>7 DEF Works
  <2>9. r.sent = s.sent \cup Letters("explorer", w, n, m.content, r.time, others)
    BY <2>5, <2>6
  <2>10. Ready(n, m, time, r)
    BY <1>1, <1>4, <1>7, <2>1, <2>6, <2>8, <2>9, Sent
  <2>11. Fresh(n, r)
    <3>1. \A x \in r.sent : x \in s.sent \/ x.type # "normal"
      BY <2>4, <2>6
    <3>2. s.drawn <= r.drawn
      BY <1>7, <2>6
    <3>3. s.impl.receivedMessageNumbers \subseteq r.impl.receivedMessageNumbers
      BY <2>6
    <3> QED BY <1>1, <1>7, <2>8, <3>1, <3>2, <3>3, FreshUnsent
  <2> QED BY <2>10, <2>11 DEF r
<1>9. Fresh(n, t) /\ t \in Works
  BY <1>1, <1>3, <1>4, <1>8, ProcessedReady, FreshProcessed DEF Ready
<1> QED BY <1>1, <1>3, <1>9, FreshFinished

LEMMA CountMessageOnce ==
  ASSUME OnceInv, NEW m \in network, CountMessage(m)
  PROVE  Once(network') /\ UsedUp'
<1> DEFINE n == m.destinationID
           time == Received(n, m)
           s == Counted(n, m, time)
<1>1. Inv /\ n \in Node /\ m.number \in Number
  BY MessageFacts DEF CountMessage, OnceInv
<1>2. Finish(n, m, s)
  BY DEF CountMessage
<1> HIDE DEF n
<1>3. time \in Time
  BY <1>1, ReceivedFacts
<1> HIDE DEF time
<1>4. s \in Works /\ Fresh(n, s)
  BY <1>1, <1>3, CountedReady, FreshCounted DEF Ready
<1> HIDE DEF s
<1> QED BY <1>1, <1>2, <1>4, FreshFinished

LEMMA AnswerWaveOnce ==
  ASSUME OnceInv, NEW m \in network, AnswerWave(m)
  PROVE  Once(network') /\ UsedUp'
<1> DEFINE n == m.destinationID
           w == m.number
           first == FirstNeighborID[n][w]
           time == Received(n, m)
           echo == Letters("echo", w, n, m.content, NoTime, {first})
           s == Counted(n, m, time)
           r == [s EXCEPT !.sent = echo]
<1>1. /\ Inv /\ n \in Node /\ w \in Number /\ m.content \in Candidate
      /\ first \in Node /\ drawn \in Nat
  <2>1. Inv /\ n \in Node /\ w \in Number /\ m.content \in Candidate
    BY MessageFacts DEF AnswerWave, OnceInv
  <2>2. first # NoNode
    BY DEF AnswerWave, HasEntry
  <2>3. first \in Node \cup {NoNode} /\ drawn \in Nat
    <3>1. first \in Node \cup {NoNode}
      BY <2>1 DEF Inv, TypeOK
    <3> QED BY <2>1, <3>1, NumberFacts
  <2> QED BY <2>1, <2>2, <2>3
<1>2. Finish(n, m, r)
  BY DEF AnswerWave
<1> HIDE DEF n, w, first
<1>3. time \in Time
  BY <1>1, ReceivedFacts
<1> HIDE DEF time
<1>4. s \in Works /\ Fresh(n, s) /\ s.drawn \in Nat
  BY <1>1, <1>3, CountedReady, FreshCounted, NumberFacts DEF w, Ready
<1> HIDE DEF s
<1>5. Sendable("echo", w, m.content, {first})
  BY <1>1 DEF Sendable
<1>6. echo \subseteq Message
  BY <1>1, <1>5, LettersFacts, NoCopyYet
<1>7. \A x \in echo : x.type # "normal"
  BY DEF Letters
<1> HIDE DEF echo
<1>8. r \in Works /\ r.sent = echo /\ r.drawn = s.drawn /\ r.impl = s.impl
  BY <1>4, <1>6 DEF Works
<1> HIDE DEF r
<1>9. Fresh(n, r)
  BY <1>1, <1>4, <1>7, <1>8, FreshUnsent
<1> QED BY <1>1, <1>2, <1>8, <1>9, FreshFinished

LEMMA FinishCampaignOnce ==
  ASSUME OnceInv, NEW m \in network, FinishCampaign(m)
  PROVE  Once(network') /\ UsedUp'
<1> DEFINE n == m.destinationID
           time == Received(n, m)
           s0 == Counted(n, m, time)
<1>1. /\ Inv /\ n \in Node /\ Takes(n, m) /\ m.number \in Number
      /\ m.type # "normal"
  BY MessageFacts DEF FinishCampaign, OnceInv
<1>2. PICK s \in Processed(n, s0, m) : Finish(n, m, s)
  BY DEF FinishCampaign
<1> HIDE DEF n
<1>3. time \in Time
  BY <1>1, ReceivedFacts
<1> HIDE DEF time
<1>4. Ready(n, m, time, s0) /\ Fresh(n, s0)
  BY <1>1, <1>3, CountedReady, FreshCounted
<1>5. Fresh(n, s) /\ s \in Works
  BY <1>1, <1>2, <1>3, <1>4, ProcessedReady, FreshProcessed DEF Ready
<1> QED BY <1>1, <1>2, <1>5, FreshFinished

LEMMA InitOnce == Init => OnceInv
<1> SUFFICES ASSUME Init PROVE OnceInv
  OBVIOUS
<1>1. ASSUME NEW x \in network
      PROVE  \E n \in Node : x = InitiatorMessage(n)
  BY <1>1, CandidateAssumption, Constants DEF Init
<1>2. \A n \in Node : /\ InitiatorMessage(n).destinationID = n
                      /\ InitiatorMessage(n).number = 0
                      /\ InitiatorMessage(n).sourceID = NoNode
  BY DEF InitiatorMessage
<1>3. Once(network)
  BY <1>1, <1>2 DEF Once, Alike
<1>4. UsedUp
  <2>1. drawn = 0 /\ NoNode \notin Voter
    BY Constants DEF Init, Voter
  <2> SUFFICES ASSUME NEW x \in network
               PROVE  x.number <= drawn /\ x.sourceID \notin Voter
    BY DEF UsedUp
  <2>2. x.number = 0 /\ x.sourceID = NoNode
    BY <1>1, <1>2
  <2> QED BY <2>1, <2>2
<1> QED BY <1>3, <1>4, InitSnapshot DEF OnceInv

LEMMA StepOnce == OnceInv /\ [Next]_vars => OnceInv'
<1> SUFFICES ASSUME OnceInv, [Next]_vars PROVE OnceInv'
  OBVIOUS
<1>1. ASSUME UNCHANGED vars PROVE Once(network') /\ UsedUp'
  BY <1>1 DEF vars, OnceInv, Once, UsedUp
<1>2. ASSUME NEW m \in network,
             Start(m) \/ HandleApplication(m) \/ FirstExplorer(m)
               \/ CountMessage(m) \/ AnswerWave(m) \/ FinishCampaign(m)
      PROVE  Once(network') /\ UsedUp'
  BY <1>2, StartOnce, HandleApplicationOnce, FirstExplorerOnce,
     CountMessageOnce, AnswerWaveOnce, FinishCampaignOnce
<1>3. ASSUME NEW n \in Node, SetTermininationTime(n)
      PROVE  Once(network') /\ UsedUp'
  BY <1>3 DEF SetTermininationTime, OnceInv, Once, UsedUp
<1>4. Once(network') /\ UsedUp'
  BY <1>1, <1>2, <1>3 DEF Next
<1>5. Inv'
  BY StepSnapshot DEF OnceInv
<1> QED BY <1>4, <1>5 DEF OnceInv, Once, Alike

(* Over no connection are two VoteMe, or two answers, of one number under    *)
(* way, on any graph and for any number of calls                             *)
(* (VoterNodeCoreImpl::process).                                             *)
THEOREM NumbersOnce == Spec => []OncePerNumber
<1>1. OnceInv => OncePerNumber
  BY DEF OnceInv, OncePerNumber, Once, Alike
<1> QED BY <1>1, InitOnce, StepOnce, PTL DEF Spec
=============================================================================
