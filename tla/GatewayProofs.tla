---------------------------- MODULE GatewayProofs ----------------------------
(***************************************************************************)
(* For any number of requests, workers and providers: what stands behind a *)
(* result in quorum mode, that a quorum of more than half of the workers   *)
(* leaves nothing for the order of keys to decide, and that workers take   *)
(* turns evenly.                                                           *)
(***************************************************************************)
EXTENDS Gateway, FiniteSetTheorems, TLAPS

AnsweredRight(r) == answer[r] # None => Backed(r, answer[r])

LEMMA SameCounts ==
  ASSUME NEW r, reports'[r] = reports[r], NEW v
  PROVE  resultCounts(r, v)' = resultCounts(r, v)
BY DEF resultCounts, ReportersOf, Successes, Reported

LEMMA SameAnswer ==
  ASSUME NEW r, reports'[r] = reports[r], answer'[r] = answer[r], AnsweredRight(r)
  PROVE  AnsweredRight(r)'
BY DEF AnsweredRight, Backed, resultCounts, ReportersOf, Successes, Reported

-----------------------------------------------------------------------------
(* Types.                                                                  *)

LEMMA InitialType == Init => TypeOK
BY GatewayAssumption, NoneAssumption DEF Init, TypeOK, Phases, Reported

LEMMA PassType ==
  ASSUME TypeOK, NEW r \in Requests, NEW workers \in SUBSET W, Pass(r, workers),
         phase[r] \in {"posted", "counted"}, Reported(r) = {}
  PROVE  TypeOK'
<1>1. phase' \in [Requests -> Phases] /\ route' \in [Requests -> SUBSET W]
  BY DEF TypeOK, Pass, Phases
<1>2. ASSUME NEW q \in Requests PROVE Reported(q)' \subseteq route'[q]
  BY DEF TypeOK, Pass, Reported
<1>3. ASSUME NEW q \in Requests PROVE phase'[q] = "answered" <=> answer'[q] # None
  BY DEF TypeOK, Pass
<1>4. QED
  BY <1>1, <1>2, <1>3 DEF TypeOK, Pass

LEMMA RespondType ==
  ASSUME TypeOK, NEW r \in Requests, NEW a \in Answer, Respond(r, a)
  PROVE  TypeOK'
<1>1. phase' \in [Requests -> Phases] /\ answer' \in [Requests -> Answer \cup {None}]
  BY DEF TypeOK, Respond, Phases
<1>2. ASSUME NEW q \in Requests PROVE Reported(q)' \subseteq route'[q]
  BY DEF TypeOK, Respond, Reported
<1>3. ASSUME NEW q \in Requests PROVE phase'[q] = "answered" <=> answer'[q] # None
  BY NoneAssumption DEF TypeOK, Respond
<1>4. QED
  BY <1>1, <1>2, <1>3 DEF TypeOK, Respond

-----------------------------------------------------------------------------
(* The invariant: types, that nobody is asked before a request is passed   *)
(* on, and the property itself.                                            *)

Unasked == \A r \in Requests : phase[r] \in {"new", "posted", "counted"} => route[r] = {}

IInv == TypeOK /\ Unasked /\ QuorumBehind

LEMMA Started == Init => IInv
<1> SUFFICES ASSUME Init PROVE IInv
  OBVIOUS
<1>1. TypeOK
  BY InitialType
<1>2. Unasked /\ QuorumBehind
  BY DEF Init, Unasked, QuorumBehind
<1>3. QED
  BY <1>1, <1>2 DEF IInv

LEMMA InList == ASSUME NEW n \in Nat PROVE n % Workers \in W
BY GatewayAssumption DEF W

\* Nothing of what QuorumBehind speaks of changes.
LEMMA Untouched ==
  ASSUME QuorumBehind, mode' = mode, answer' = answer, reports' = reports
  PROVE  QuorumBehind'
<1>1. ASSUME NEW r \in Requests, NEW v PROVE resultCounts(r, v)' = resultCounts(r, v)
  BY SameCounts
<1>2. QED
  BY <1>1 DEF QuorumBehind, Backed, resultCounts, ReportersOf, Successes, Reported

LEMMA Passed ==
  ASSUME IInv, NEW r \in Requests, NEW workers \in SUBSET W, Pass(r, workers),
         phase[r] \in {"posted", "counted"}
  PROVE  IInv'
<1>1. Reported(r) = {}
  BY DEF IInv, Unasked, TypeOK
<1>2. TypeOK'
  BY <1>1, PassType DEF IInv
<1>3. Unasked'
  BY DEF IInv, TypeOK, Unasked, Pass
<1>4. QuorumBehind'
  BY Untouched DEF IInv, Pass
<1>5. QED
  BY <1>2, <1>3, <1>4 DEF IInv

LEMMA Responded ==
  ASSUME IInv, NEW r \in Requests, NEW a \in Answer, Respond(r, a),
         mode = "quorum" => Backed(r, a)
  PROVE  IInv'
<1>1. TypeOK'
  BY RespondType DEF IInv
<1>2. Unasked'
  BY DEF IInv, TypeOK, Unasked, Respond
<1>3. ASSUME NEW q \in Requests, NEW v PROVE resultCounts(q, v)' = resultCounts(q, v)
  BY SameCounts DEF Respond
<1>4. answer'[r] = a /\ \A q \in Requests : q # r => answer'[q] = answer[q]
  BY DEF IInv, TypeOK, Respond
<1>5. ASSUME mode = "quorum", NEW q \in Requests, answer'[q] # None
      PROVE  Backed(q, answer'[q])
  <2>1. CASE q = r
    BY <1>4, <1>5, <2>1
  <2>2. CASE q # r
    BY <1>4, <1>5, <2>2 DEF IInv, QuorumBehind
  <2>3. QED
    BY <2>1, <2>2
<1>6. QuorumBehind'
  BY <1>5 DEF QuorumBehind, Backed, Respond, resultCounts, ReportersOf, Successes, Reported
<1>7. QED
  BY <1>1, <1>2, <1>6 DEF IInv

-----------------------------------------------------------------------------
(* The steps.                                                              *)

LEMMA Received == ASSUME IInv, NEW r \in Requests, Receive(r) PROVE IInv'
<1>1. TypeOK'
  BY NoneAssumption DEF IInv, TypeOK, Receive, Phases, Reported
<1>2. Unasked'
  BY DEF IInv, TypeOK, Unasked, Receive
<1>3. QuorumBehind'
  BY Untouched DEF IInv, Receive
<1>4. QED
  BY <1>1, <1>2, <1>3 DEF IInv

LEMMA Counted == ASSUME IInv, NEW r \in Requests, incrementAndReturn(r) PROVE IInv'
<1>1. TypeOK'
  BY NoneAssumption DEF IInv, TypeOK, incrementAndReturn, Phases, Reported
<1>2. Unasked'
  BY DEF IInv, TypeOK, Unasked, incrementAndReturn
<1>3. QuorumBehind'
  BY Untouched DEF IInv, incrementAndReturn
<1>4. QED
  BY <1>1, <1>2, <1>3 DEF IInv

LEMMA Routed ==
  ASSUME IInv, NEW r \in Requests, randomLoadBalancing(r) \/ roundRobin(r) \/ quorum(r)
  PROVE  IInv'
<1>1. number[r] % Workers \in W
  BY InList DEF IInv, TypeOK
<1>2. PICK workers \in SUBSET W : Pass(r, workers) /\ phase[r] \in {"posted", "counted"}
  BY <1>1 DEF randomLoadBalancing, roundRobin, quorum
<1>3. QED
  BY <1>2, Passed

LEMMA Fired == ASSUME IInv, NEW r \in Requests, Timeout(r) PROVE IInv'
<1>1. TypeOK'
  BY NoneAssumption DEF IInv, TypeOK, Timeout, Reported
<1>2. Unasked' /\ QuorumBehind'
  BY Untouched DEF IInv, Unasked, Timeout
<1>3. QED
  BY <1>1, <1>2 DEF IInv

\* A report comes while the request is open, and so changes nothing about an answer.
LEMMA HasReported ==
  ASSUME IInv, NEW r \in Requests, NEW w \in W, WorkerReports(r, w) PROVE IInv'
<1>0. PICK p \in P : \E e \in eth_call(p) : reports' = [reports EXCEPT ![r][w] = e]
  BY DEF WorkerReports
<1>1. PICK e \in eth_call(p) : reports' = [reports EXCEPT ![r][w] = e]
  BY <1>0
<1>2. e \in Report
  <2>1. ASSUME NEW v \in Values \cup {Message} PROVE Success(v, p) \in Report
    BY DEF Success, Report
  <2>2. [success |-> FALSE] \in Report
    BY DEF Report
  <2>3. QED
    BY <2>1, <2>2 DEF eth_call
<1>3. reports' \in [Requests -> [W -> Report \cup {None}]]
  <2>1. [reports[r] EXCEPT ![w] = e] \in [W -> Report \cup {None}]
    BY <1>2 DEF IInv, TypeOK
  <2>2. QED
    BY <1>1, <2>1 DEF IInv, TypeOK
<1>4. ASSUME NEW q \in Requests PROVE Reported(q)' \subseteq route'[q]
  BY <1>1 DEF IInv, TypeOK, WorkerReports, Reported
<1>5. TypeOK'
  BY <1>3, <1>4 DEF IInv, TypeOK, WorkerReports
<1>6. Unasked'
  BY DEF IInv, Unasked, WorkerReports
<1>7. ASSUME NEW q \in Requests, mode = "quorum" PROVE AnsweredRight(q)'
  <2>1. AnsweredRight(q) /\ answer'[q] = answer[q]
    BY <1>7 DEF IInv, QuorumBehind, AnsweredRight, WorkerReports
  <2>2. CASE q = r
    BY <2>1, <2>2 DEF IInv, TypeOK, WorkerReports, AnsweredRight
  <2>3. CASE q # r
    BY <1>1, <2>1, <2>3, SameAnswer DEF IInv, TypeOK
  <2>4. QED
    BY <2>2, <2>3
<1>8. QuorumBehind'
  BY <1>7 DEF QuorumBehind, AnsweredRight, WorkerReports
<1>9. QED
  BY <1>5, <1>6, <1>8 DEF IInv

\* An error says nothing of the reports.
LEMMA Refused ==
  ASSUME IInv, NEW r \in Requests, NotListed(r) \/ NoMode(r) \/ Expire(r)
  PROVE  IInv'
<1>1. Respond(r, Error) /\ Error \in Answer /\ Backed(r, Error)
  BY DEF NotListed, NoMode, Expire, Error, Answer, Backed
<1> HIDE DEF Error
<1>2. QED
  BY <1>1, Responded

LEMMA OneAnswered == ASSUME IInv, NEW r \in Requests, AnswerOfOne(r) PROVE IInv'
<1>1. mode # "quorum"
  BY DEF AnswerOfOne
<1>2. Error \in Answer
  BY DEF Error, Answer
<1>3. ASSUME NEW w \in Successes(r) PROVE Result(reports[r][w].value) \in Answer
  <2>1. w \in W /\ reports[r][w] # None /\ reports[r][w].success
    BY DEF Successes, Reported
  <2>2. reports[r][w] \in Report
    BY <2>1 DEF IInv, TypeOK
  <2>3. reports[r][w].value \in Values \cup {Message}
    BY <2>1, <2>2 DEF Report
  <2>4. QED
    BY <2>3 DEF Result, Answer
<1>4. PICK a \in Answer : Respond(r, a)
  BY <1>2, <1>3 DEF AnswerOfOne
<1>5. QED
  BY <1>1, <1>4, Responded

LEMMA Checked == ASSUME IInv, NEW r \in Requests, Check(r) PROVE IInv'
<1>1. ASSUME NEW v \in Known, resultCounts(r, v) >= QuorumNumber, Maximal(r, v),
             Respond(r, Result(v))
      PROVE  IInv'
  <2>1. Result(v) \in Answer /\ Result(v).kind = "result" /\ Result(v).value = v
    BY DEF Result, Answer, Known
  <2>2. \A u \in Values : resultCounts(r, u) <= resultCounts(r, v)
    BY <1>1 DEF Maximal, Known
  <2>3. QED
    BY <1>1, <2>1, <2>2, Responded DEF Backed
<1>2. ASSUME \A v \in Known : resultCounts(r, v) < QuorumNumber,
             Respond(r, [kind |-> "no consensus"])
      PROVE  IInv'
  <2> DEFINE a == [kind |-> "no consensus"]
  <2>1. a \in Answer /\ a.kind # "result"
    BY DEF Answer
  <2>2. \A v \in Values : resultCounts(r, v) < QuorumNumber
    BY <1>2 DEF Known
  <2> HIDE DEF a
  <2>3. Respond(r, a)
    BY <1>2 DEF a
  <2>4. QED
    BY <2>1, <2>2, <2>3, Responded DEF Backed
<1>3. QED
  BY <1>1, <1>2 DEF Check, findSameResults

LEMMA Inductive == ASSUME IInv, [Next]_vars PROVE IInv'
<1>1. CASE UNCHANGED vars
  <2>1. TypeOK' /\ Unasked'
    BY <1>1 DEF IInv, TypeOK, Unasked, Reported, vars
  <2>2. QED
    BY <1>1, <2>1, Untouched DEF IInv, vars
<1>2. CASE Next
  <2>1. PICK r \in Requests : \/ Receive(r) \/ NotListed(r) \/ Step(r) \/ Expire(r)
                              \/ \E w \in W : WorkerReports(r, w)
    BY <1>2 DEF Next
  <2>2. QED
    BY <2>1, Received, Counted, Routed, Fired, HasReported, Refused, OneAnswered, Checked
    DEF Step
<1>3. QED
  BY <1>1, <1>2

THEOREM Invariance == Spec => []IInv
<1>1. Init => IInv
  BY Started
<1>2. IInv /\ [Next]_vars => IInv'
  BY Inductive
<1>3. QED
  BY <1>1, <1>2, PTL DEF Spec

-----------------------------------------------------------------------------
\* Requests keep their shape, and workers report only what they were asked.
THEOREM TypeCorrect == Spec => []TypeOK
<1>1. IInv => TypeOK
  BY DEF IInv
<1>2. QED
  BY <1>1, Invariance, PTL

\* A quorum of workers stands behind each result, and none is missed.
THEOREM ResultsHaveQuorum == Spec => []QuorumBehind
<1>1. IInv => QuorumBehind
  BY DEF IInv
<1>2. QED
  BY <1>1, Invariance, PTL

-----------------------------------------------------------------------------
(* More than half of the workers.                                          *)

LEMMA Majority ==
  ASSUME 2 * QuorumNumber > Workers, NEW r, NEW u, NEW v,
         resultCounts(r, u) >= QuorumNumber, resultCounts(r, v) >= QuorumNumber
  PROVE  u = v
<1> DEFINE U == ReportersOf(r, u)
           V == ReportersOf(r, v)
<1>1. IsFiniteSet(W) /\ Cardinality(W) = Workers
  BY FS_Interval, GatewayAssumption DEF W
<1>2. U \subseteq W /\ V \subseteq W
  BY DEF ReportersOf, Successes, Reported
<1>3. IsFiniteSet(U) /\ IsFiniteSet(V) /\ IsFiniteSet(U \cup V)
  BY <1>1, <1>2, FS_Subset, FS_Union
<1>4. Cardinality(U \cup V) <= Workers
  BY <1>1, <1>2, FS_Subset
<1>5. SUFFICES ASSUME u # v PROVE FALSE
  OBVIOUS
<1>6. U \cap V = {}
  BY <1>5 DEF ReportersOf
<1>7. Cardinality(U \cup V) = Cardinality(U) + Cardinality(V) - Cardinality(U \cap V)
  BY <1>3, FS_Union
<1>8. Cardinality(U \cap V) = 0
  BY <1>6, FS_EmptySet
<1>9. Cardinality(U) \in Nat /\ Cardinality(V) \in Nat
  BY <1>3, FS_CardinalityType
<1>10. Cardinality(U) >= QuorumNumber /\ Cardinality(V) >= QuorumNumber
  BY DEF resultCounts
<1>11. QED
  BY <1>4, <1>7, <1>8, <1>9, <1>10, GatewayAssumption

\* No value but the answer was reported often enough, so that the order of keys has
\* nothing to decide: what the default of 2 does not give to four workers or more.
OneCandidate ==
  mode = "quorum" =>
    \A r \in Requests : answer[r] # None /\ answer[r].kind = "result" =>
      \A v \in Values : resultCounts(r, v) >= QuorumNumber => v = answer[r].value

\* With a quorum of more than half of the workers a result has no rival.
THEOREM MajorityDecides ==
  ASSUME 2 * QuorumNumber > Workers
  PROVE  Spec => []OneCandidate
<1>1. QuorumBehind => OneCandidate
  BY Majority DEF QuorumBehind, Backed, OneCandidate
<1>2. QED
  BY <1>1, ResultsHaveQuorum, PTL
-----------------------------------------------------------------------------
(* Remainders.                                                             *)

LEMMA Divided ==
  ASSUME NEW n \in Nat, NEW m \in Nat \ {0}
  PROVE  \E q \in Nat : n = m * q + (n % m)
<1>1. n = m * (n \div m) + (n % m) /\ n % m \in 0..(m - 1) /\ n \div m \in Int
  BY Z3
<1>2. n \div m >= 0
  BY Z3, <1>1
<1>3. n \div m \in Nat
  BY <1>1, <1>2
<1>4. WITNESS n \div m \in Nat
<1>5. QED
  BY <1>1

LEMMA RemainderIs ==
  ASSUME NEW q \in Nat, NEW m \in Nat \ {0}, NEW w \in 0..(m - 1), NEW n \in Nat, n = m * q + w
  PROVE  n % m = w
<1>1. PICK p : p = n \div m
  OBVIOUS
<1>2. p \in Int /\ n = m * p + (n % m) /\ n % m \in 0..(m - 1)
  BY Z3, <1>1
<1>3. m * (p - q) = w - (n % m)
  BY Z3, <1>2
<1>4. ~(p - q >= 1) /\ ~(p - q <= -1)
  BY SMT, <1>2, <1>3
<1>5. QED
  BY SMT, <1>2, <1>3, <1>4

\* How far the next number for v lies behind one for w.
Gap(v, w) == IF v > w THEN v - w ELSE (v - w) + Workers

\* Of the first numbers at most one is for v, and every later one for v has one for w
\* before it.
LEMMA NumberBefore ==
  ASSUME NEW v \in W, NEW w \in W, v # w, NEW n \in Nat, n % Workers = v
  PROVE  /\ Gap(v, w) \in 1..(Workers - 1)
         /\ n <= Gap(v, w) => n = v
         /\ n > Gap(v, w) => n - Gap(v, w) \in Nat /\ (n - Gap(v, w)) % Workers = w
<1>1. /\ Workers \in Nat \ {0} /\ v \in 0..(Workers - 1) /\ w \in 0..(Workers - 1)
  BY GatewayAssumption DEF W
<1>2. PICK d : d = Gap(v, w)
  OBVIOUS
<1>3. d \in 1..(Workers - 1)
  BY <1>1, <1>2 DEF Gap
<1>4. PICK q \in Nat : n = Workers * q + v
  BY <1>1, Divided
<1>5. ASSUME n <= d PROVE n = v
  <2>1. Workers * q < Workers
    BY <1>1, <1>3, <1>4, <1>5
  <2>2. q = 0
    BY Z3, <1>1, <2>1
  <2>3. QED
    BY Z3, <1>1, <1>4, <2>2
<1>6. ASSUME n > d PROVE n - d \in Nat /\ (n - d) % Workers = w
  <2>1. n - d \in Nat
    BY <1>3, <1>6
  <2>2. CASE v > w
    <3>1. n - d = Workers * q + w
      BY Z3, <1>1, <1>2, <1>4, <2>2 DEF Gap
    <3>2. QED
      BY <1>1, <2>1, <3>1, RemainderIs
  <2>3. CASE ~(v > w)
    <3>1. d = (v - w) + Workers
      BY <1>2, <2>3 DEF Gap
    <3>2. q # 0
      <4>1. SUFFICES ASSUME q = 0 PROVE FALSE
        OBVIOUS
      <4>2. n = v
        BY Z3, <1>1, <1>4, <4>1
      <4>3. QED
        BY <1>1, <1>6, <3>1, <4>2
    <3>3. PICK p \in Nat : q = p + 1
      <4>1. q - 1 \in Nat /\ q = (q - 1) + 1
        BY <3>2
      <4>2. QED
        BY <4>1
    <3>4. n - d = Workers * p + w
      BY Z3, <1>1, <1>4, <3>1, <3>3
    <3>5. QED
      BY <1>1, <2>1, <3>4, RemainderIs
  <2>4. QED
    BY <2>2, <2>3
<1>7. QED
  BY <1>2, <1>3, <1>5, <1>6

-----------------------------------------------------------------------------
(* Taking turns.                                                           *)

\* The counter gave each of its numbers to one request, which goes by it.
Numbered ==
  mode = "round-robin" =>
    /\ \A r \in Requests : number[r] <= counter
    /\ \A q, r \in Requests : number[q] = number[r] /\ number[r] # 0 => q = r
    /\ \A n \in 1..counter : \E r \in Requests : number[r] = n
    /\ \A r \in Requests :
         /\ phase[r] \in {"new", "posted"} => number[r] = 0
         /\ phase[r] = "counted" => number[r] # 0
         /\ route[r] # {} => number[r] # 0 /\ route[r] = {number[r] % Workers}

LEMMA NumberedStays ==
  ASSUME Numbered, UNCHANGED <<mode, counter, number, route>>,
         \A r \in Requests : \/ phase'[r] = phase[r]
                             \/ phase[r] = "new" /\ phase'[r] = "posted"
                             \/ phase'[r] \in {"asked", "answered"}
  PROVE  Numbered'
BY DEF Numbered

LEMMA NumberedStep ==
  ASSUME TypeOK, Numbered, [Next]_vars
  PROVE  Numbered'
<1>0. TypeOK => phase \in [Requests -> Phases] /\ number \in [Requests -> Nat] /\ counter \in Nat
                /\ route \in [Requests -> SUBSET W]
  BY DEF TypeOK
<1>1. ASSUME NEW r \in Requests, incrementAndReturn(r) PROVE Numbered'
  <2>1. /\ phase[r] = "posted" /\ counter' = counter + 1
        /\ number' = [number EXCEPT ![r] = counter'] /\ phase' = [phase EXCEPT ![r] = "counted"]
        /\ UNCHANGED <<mode, route>> /\ mode = "round-robin"
    BY <1>1 DEF incrementAndReturn
  <2>2. number'[r] = counter + 1 /\ \A q \in Requests \ {r} : number'[q] = number[q]
    BY <1>0, <2>1
  <2>3. number[r] = 0 /\ \A q \in Requests : number[q] <= counter /\ number[q] \in Nat
    BY <1>0, <2>1 DEF Numbered
  <2>4. \A q \in Requests : number'[q] <= counter'
    BY <1>0, <2>1, <2>2, <2>3
  <2>5. \A p, q \in Requests : number'[p] = number'[q] /\ number'[q] # 0 => p = q
    BY <1>0, <2>1, <2>2, <2>3 DEF Numbered
  <2>6. ASSUME NEW n \in 1..counter' PROVE \E q \in Requests : number'[q] = n
    <3>1. CASE n = counter + 1
      BY <2>2, <3>1
    <3>2. CASE n # counter + 1
      <4>1. n \in 1..counter
        BY <1>0, <2>1, <3>2
      <4>2. PICK q \in Requests : number[q] = n
        BY <2>1, <4>1 DEF Numbered
      <4>3. q # r
        BY <2>3, <4>1, <4>2
      <4>4. QED
        BY <2>2, <4>2, <4>3
    <3>3. QED
      BY <3>1, <3>2
  <2>7. ASSUME NEW q \in Requests
        PROVE  /\ phase'[q] \in {"new", "posted"} => number'[q] = 0
               /\ phase'[q] = "counted" => number'[q] # 0
               /\ route'[q] # {} => number'[q] # 0 /\ route'[q] = {number'[q] % Workers}
    <3>1. CASE q = r
      <4>1. route[q] = {}
        BY <2>1, <2>3, <3>1 DEF Numbered
      <4>2. number'[q] # 0 /\ phase'[q] = "counted"
        BY <1>0, <2>1, <2>2, <3>1
      <4>3. QED
        BY <2>1, <4>1, <4>2
    <3>2. CASE q # r
      BY <1>0, <2>1, <2>2, <3>2 DEF Numbered
    <3>3. QED
      BY <3>1, <3>2
  <2>8. QED
    BY <2>4, <2>5, <2>6, <2>7 DEF Numbered
<1>2. ASSUME NEW r \in Requests, roundRobin(r) PROVE Numbered'
  BY <1>0, <1>2 DEF roundRobin, Pass, Numbered
<1>3. ASSUME NEW r \in Requests, randomLoadBalancing(r) \/ quorum(r) PROVE Numbered'
  BY <1>3 DEF randomLoadBalancing, quorum, Pass, Numbered
<1>4. ASSUME NEW r \in Requests, NEW a, Respond(r, a) PROVE Numbered'
  BY <1>0, <1>4, NumberedStays DEF Respond
<1>5. ASSUME NEW r \in Requests, \/ NotListed(r) \/ AnswerOfOne(r) \/ Check(r)
                                 \/ Expire(r) \/ NoMode(r)
      PROVE  Numbered'
  BY <1>4, <1>5 DEF NotListed, AnswerOfOne, Check, findSameResults, Expire, NoMode
<1>6. ASSUME NEW r \in Requests, Receive(r) \/ Timeout(r) \/ \E w \in W : WorkerReports(r, w)
      PROVE  Numbered'
  BY <1>0, <1>6, NumberedStays DEF Receive, Timeout, WorkerReports
<1>7. CASE UNCHANGED vars
  BY <1>7, NumberedStays DEF vars
<1>8. QED
  BY <1>1, <1>2, <1>3, <1>5, <1>6, <1>7 DEF Next, Step

\* A worker's requests, but one, have each a request of another worker before them.
LEMMA SharesEven ==
  ASSUME TypeOK, Numbered, mode = "round-robin", \A r \in Requests : Settled(r),
         NEW v \in W, NEW w \in W
  PROVE  Share(v) <= Share(w) + 1
<1> DEFINE Of(u) == {r \in Requests : u \in route[r]}
<1>1. \A u \in W : Share(u) = Cardinality(Of(u)) /\ IsFiniteSet(Of(u)) /\ Share(u) \in Nat
  <2>1. SUFFICES ASSUME NEW u \in W
                 PROVE  Share(u) = Cardinality(Of(u)) /\ IsFiniteSet(Of(u)) /\ Share(u) \in Nat
    OBVIOUS
  <2>2. IsFiniteSet(Of(u))
    BY FS_Subset, GatewayAssumption
  <2>3. Share(u) = Cardinality(Of(u))
    BY DEF Share
  <2>4. QED
    BY <2>2, <2>3, FS_CardinalityType
<1>2. \A u \in W, r \in Requests :
        r \in Of(u) <=> number[r] \in Nat \ {0} /\ number[r] % Workers = u
  BY DEF TypeOK, Numbered, Settled
<1>3. \A u \in W : Of(u) \subseteq Requests
  OBVIOUS
<1> HIDE DEF Of
<1>4. CASE v = w
  BY <1>1, <1>4
<1>5. CASE v # w
  <2>1. PICK d : d = Gap(v, w)
    OBVIOUS
  <2>2. /\ d \in Nat \ {0}
        /\ \A n \in Nat : n % Workers = v /\ n <= d => n = v
        /\ \A n \in Nat : n % Workers = v /\ n > d => n - d \in Nat /\ (n - d) % Workers = w
    <3>1. Gap(v, w) \in Nat \ {0}
      BY <1>5, GatewayAssumption DEF Gap, W
    <3>2. QED
      BY <1>5, <2>1, <3>1, NumberBefore
  <2> DEFINE Early == {r \in Of(v) : number[r] <= d}
             Late == Of(v) \ Early
             before == [r \in Late |-> CHOOSE q \in Requests : number[q] = number[r] - d]
  <2>3. \A q, r \in Early : q = r
    <3>1. SUFFICES ASSUME NEW q \in Early, NEW r \in Early PROVE q = r
      OBVIOUS
    <3>2. number[q] = v /\ number[r] = v /\ number[r] # 0 /\ q \in Requests /\ r \in Requests
      BY <1>2, <1>3, <2>2
    <3>3. QED
      BY <3>2 DEF Numbered
  <2>4. ASSUME NEW r \in Late
        PROVE  /\ before[r] \in Of(w) /\ number[before[r]] = number[r] - d
               /\ r \in Requests /\ number[r] \in Nat /\ number[r] # 0
    <3>1. /\ r \in Requests /\ number[r] \in Nat /\ number[r] % Workers = v
          /\ number[r] > d /\ number[r] <= counter /\ counter \in Nat
      BY <1>2, <1>3, <2>2 DEF TypeOK, Numbered
    <3>2. /\ number[r] - d \in 1..counter /\ (number[r] - d) % Workers = w
      BY <2>2, <3>1
    <3>3. \E q \in Requests : number[q] = number[r] - d
      BY <3>2 DEF Numbered
    <3>4. before[r] \in Requests /\ number[before[r]] = number[r] - d
      BY <3>3
    <3> HIDE DEF before
    <3>5. before[r] \in Of(w)
      BY <1>2, <3>2, <3>4
    <3>6. QED
      BY <2>2, <3>1, <3>4, <3>5
  <2>5. ASSUME NEW q \in Late, NEW r \in Late, before[q] = before[r]
        PROVE  q = r
    <3> HIDE DEF Late, before
    <3>1. number[q] - d = number[r] - d
      BY <2>4, <2>5
    <3>2. number[q] = number[r]
      BY <2>2, <2>4, <3>1
    <3>3. QED
      BY <2>4, <3>2 DEF Numbered
  <2>6. before \in Injection(Late, Of(w))
    BY <2>4, <2>5 DEF Injection, IsInjective
  <2> HIDE DEF before
  <2>7. IsFiniteSet(Late) /\ Cardinality(Late) <= Share(w)
    BY <1>1, <2>6, FS_Injection
  <2>8. Share(v) <= Cardinality(Late) + 1 /\ Cardinality(Late) \in Nat
    <3>1. CASE Early = {}
      <4>1. Of(v) = Late
        BY <3>1
      <4> HIDE DEF Late
      <4>2. QED
        BY <1>1, <2>7, <4>1, FS_CardinalityType
    <3>2. ASSUME NEW e \in Early
          PROVE  Share(v) <= Cardinality(Late) + 1 /\ Cardinality(Late) \in Nat
      <4>1. Of(v) = Late \cup {e}
        BY <2>3
      <4> HIDE DEF Late, Early
      <4>2. /\ Cardinality(Late) \in Nat
            /\ Cardinality(Late \cup {e}) \in {Cardinality(Late), Cardinality(Late) + 1}
        BY <2>7, FS_AddElement, FS_CardinalityType
      <4>3. Share(v) = Cardinality(Late \cup {e})
        BY Zenon, <1>1, <4>1
      <4>4. PICK x, y : x = Cardinality(Late) /\ y = Cardinality(Late \cup {e})
        OBVIOUS
      <4>5. x \in Nat /\ y \in {x, x + 1} /\ Share(v) = y
        BY <4>2, <4>3, <4>4
      <4>6. Share(v) <= x + 1
        BY <4>5
      <4>7. QED
        BY <4>2, <4>4, <4>6
    <3>3. QED
      BY <3>1, <3>2
  <2>9. QED
    BY <1>1, <2>7, <2>8
<1>6. QED
  BY <1>4, <1>5

\* Workers take turns, for any number of requests and workers: the counter's numbers are
\* each used once and none is skipped, however requests overtake each other between the
\* counter and the worker (incrementAndReturn and roundRobin in rpc.aqua).
THEOREM SpreadEvenly == Spec => []EvenlySpread
<1>1. Init => Numbered
  BY DEF Init, Numbered
<1>2. IInv /\ Numbered /\ [Next]_vars => Numbered'
  BY NumberedStep DEF IInv
<1>3. IInv /\ Numbered => EvenlySpread
  BY SharesEven DEF IInv, EvenlySpread
<1>4. QED
  BY <1>1, <1>2, <1>3, Invariance, PTL DEF Spec
=============================================================================
