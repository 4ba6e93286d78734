-------------------------------- MODULE Gateway --------------------------------
(***************************************************************************)
(* The fRPC gateway: index.js with rpc.aqua and the eth-rpc module.        *)
(*                                                                         *)
(* A JSON-RPC request is passed to one worker, chosen by time or in turn,  *)
(* or to all of them; each worker asks a provider.  In quorum mode the     *)
(* reports that are there when all workers answered, or when the timeout   *)
(* fires, are compared.  Requests run concurrently, a worker may stay      *)
(* silent, and a provider may say what it likes.                           *)
(***************************************************************************)
EXTENDS Integers, FiniteSets

CONSTANTS Requests,      \* the requests clients may send
          Workers,       \* the length of the list of workers
          Providers,     \* the length of the list of providers
          QuorumNumber,  \* quorumNumber of the configuration, or 2
          Values,        \* what providers give as a result
          Message,       \* the message of a JSON-RPC error of a provider
          None,          \* nothing yet
          Load           \* bound: how many requests clients send, by mode

VARIABLES
  mode,      \* mode of the configuration
  counter,   \* the counter service
  phase,     \* where a request is
  number,    \* its number from the counter
  route,     \* the workers it was passed to
  reports,   \* what they reported
  timedOut,  \* whether the timeout of quorum fired
  answer     \* what the client gets

vars == <<mode, counter, phase, number, route, reports, timedOut, answer>>

\* The mode is not checked when the configuration is read.
Modes == {"random", "round-robin", "quorum", "unknown"}
\* The workers of the deal, the same ones for every request: nobody joins or leaves.
W == 0..(Workers - 1)
P == 0..(Providers - 1)

ASSUME GatewayAssumption ==
  /\ IsFiniteSet(Requests)
  /\ Workers \in Nat \ {0} /\ Providers \in Nat \ {0} /\ QuorumNumber \in Nat \ {0}
  /\ Load \in [Modes -> Nat] /\ Message \notin Values

Phases == {"new", "posted", "counted", "asked", "answered"}

\* A report that is a success has a value; it has the provider it came from.
Success(v, p) == [success |-> TRUE, value |-> v, provider |-> p]
Report == [success : {TRUE}, value : Values \cup {Message}, provider : P]
            \cup [success : {FALSE}]

\* A JSON-RPC response: a result, one that says there is no consensus, or an error.
Answer == [kind : {"result"}, value : Values \cup {Message}]
            \cup [kind : {"no consensus", "error"}]

ASSUME NoneAssumption == None \notin Report /\ None \notin Answer

Init ==
  /\ mode \in Modes
  /\ counter = 0
  /\ phase = [r \in Requests |-> "new"]
  /\ number = [r \in Requests |-> 0]
  /\ route = [r \in Requests |-> {}]
  /\ reports = [r \in Requests |-> [w \in W |-> None]]
  /\ timedOut = [r \in Requests |-> FALSE]
  /\ answer = [r \in Requests |-> None]

-----------------------------------------------------------------------------
Sent == {r \in Requests : phase[r] # "new"}

\* POST /.
Receive(r) ==
  /\ phase[r] = "new" /\ Cardinality(Sent) < Load[mode]
  /\ phase' = [phase EXCEPT ![r] = "posted"]
  /\ UNCHANGED <<mode, counter, number, route, reports, timedOut, answer>>

\* On the peer that has the counter.
incrementAndReturn(r) ==
  /\ mode = "round-robin" /\ phase[r] = "posted"
  /\ counter' = counter + 1
  /\ number' = [number EXCEPT ![r] = counter']
  /\ phase' = [phase EXCEPT ![r] = "counted"]
  /\ UNCHANGED <<mode, route, reports, timedOut, answer>>

Pass(r, workers) ==
  /\ phase' = [phase EXCEPT ![r] = "asked"]
  /\ route' = [route EXCEPT ![r] = workers]
  /\ UNCHANGED <<mode, counter, number, reports, timedOut, answer>>

\* Mutation: the worker is chosen by what the counter is by now.
roundRobin_Rereads(r) == phase[r] = "counted" /\ Pass(r, {counter % Workers})

\* The time decides.
randomLoadBalancing(r) ==
  mode = "random" /\ phase[r] = "posted" /\ \E w \in W : Pass(r, {w})

roundRobin(r) == phase[r] = "counted" /\ Pass(r, {number[r] % Workers})

quorum(r) == mode = "quorum" /\ phase[r] = "posted" /\ Pass(r, W)

\* The provider of a request in turn is given by its number, otherwise by the time.
Provider(r, p) == mode = "round-robin" => p = number[r] % Providers

\* What eth_call makes of a response: an error of the provider is a success whose value
\* is the message; when the provider cannot be reached, or answers something else, it is
\* not a success.
eth_call(p) ==
  {Success(v, p) : v \in Values \cup {Message}} \cup {[success |-> FALSE]}

WorkerReports(r, w) ==
  /\ phase[r] = "asked" /\ w \in route[r] /\ reports[r][w] = None
  /\ \E p \in P : Provider(r, p)
                  /\ \E e \in eth_call(p) : reports' = [reports EXCEPT ![r][w] = e]
  /\ UNCHANGED <<mode, counter, phase, number, route, timedOut, answer>>

Timeout(r) ==
  /\ mode = "quorum" /\ phase[r] = "asked" /\ ~timedOut[r]
  /\ timedOut' = [timedOut EXCEPT ![r] = TRUE]
  /\ UNCHANGED <<mode, counter, phase, number, route, reports, answer>>

-----------------------------------------------------------------------------
Respond(r, a) ==
  /\ phase' = [phase EXCEPT ![r] = "answered"]
  /\ answer' = [answer EXCEPT ![r] = a]
  /\ UNCHANGED <<mode, counter, number, route, reports, timedOut>>

Result(v) == [kind |-> "result", value |-> v]
Error == [kind |-> "error"]

Reported(r) == {w \in W : reports[r][w] # None}
Successes(r) == {w \in Reported(r) : reports[r][w].success}
ReportersOf(r, v) == {w \in Successes(r) : reports[r][w].value = v}
resultCounts(r, v) == Cardinality(ReportersOf(r, v))

\* The method is none of the listed ones.
NotListed(r) ==
  /\ phase[r] = "new" /\ Cardinality(Sent) < Load[mode]
  /\ Respond(r, Error)

\* methodHandler has no result to parse.
NoMode(r) == mode = "unknown" /\ phase[r] = "posted" /\ Respond(r, Error)

\* JSON.parse of the value of a report that is no success fails.
AnswerOfOne(r) ==
  /\ mode # "quorum" /\ phase[r] = "asked"
  /\ \E w \in Reported(r) :
       Respond(r, IF w \in Successes(r) THEN Result(reports[r][w].value) ELSE Error)

Known == Values \cup {Message}
Maximal(r, v) == \A u \in Known : resultCounts(r, u) <= resultCounts(r, v)

\* Mutation: it is enough that a value was reported most often.
findSameResults_Most(r) ==
  \/ \E v \in Known : /\ resultCounts(r, v) >= 1 /\ Maximal(r, v)
                      /\ Respond(r, Result(v))
  \/ /\ \A v \in Known : resultCounts(r, v) < 1
     /\ Respond(r, [kind |-> "no consensus"])

\* The value reported most often, if often enough; of several, the order of keys decides.
\* Without a success the maximum of nothing is less than any number.
findSameResults(r) ==
  \/ \E v \in Known : /\ resultCounts(r, v) >= QuorumNumber /\ Maximal(r, v)
                      /\ Respond(r, Result(v))
  \/ /\ \A v \in Known : resultCounts(r, v) < QuorumNumber
     /\ Respond(r, [kind |-> "no consensus"])

\* Mutation: the reports are compared once all are there, and not before.
Check_All(r) ==
  /\ mode = "quorum" /\ phase[r] = "asked" /\ Reported(r) = W
  /\ findSameResults(r)

\* All workers answered, or the timeout fired; what comes later is not looked at.
Check(r) ==
  /\ mode = "quorum" /\ phase[r] = "asked"
  /\ Reported(r) = W \/ timedOut[r]
  /\ findSameResults(r)

\* The time to live of a request is over, or the workers could not be found out: the
\* client gets an error.
Expire(r) ==
  /\ mode # "unknown" /\ phase[r] \in {"posted", "counted", "asked"}
  /\ Respond(r, Error)

-----------------------------------------------------------------------------
Step(r) ==
  \/ incrementAndReturn(r) \/ randomLoadBalancing(r) \/ roundRobin(r) \/ quorum(r)
  \/ Timeout(r) \/ AnswerOfOne(r) \/ Check(r) \/ NoMode(r)

Next == \E r \in Requests : \/ Receive(r) \/ NotListed(r) \/ Step(r) \/ Expire(r)
                            \/ \E w \in W : WorkerReports(r, w)

\* The gateway and its timers go on; clients and workers need not.  The time to live is
\* not relied on where there is the timeout of quorum, which is the shorter one.
Proceeds(r) == Step(r) \/ (mode # "quorum" /\ Expire(r))
Spec == Init /\ [][Next]_vars /\ \A r \in Requests : WF_vars(Proceeds(r))

-----------------------------------------------------------------------------
(* Properties.                                                             *)

\* Requests are where they should be with what they should have: a report comes from a
\* worker that was asked, and an answer is there once the request is over.
TypeOK ==
  /\ mode \in Modes /\ counter \in Nat
  /\ phase \in [Requests -> Phases] /\ number \in [Requests -> Nat]
  /\ route \in [Requests -> SUBSET W]
  /\ reports \in [Requests -> [W -> Report \cup {None}]]
  /\ timedOut \in [Requests -> BOOLEAN]
  /\ answer \in [Requests -> Answer \cup {None}]
  /\ \A r \in Requests : /\ Reported(r) \subseteq route[r]
                         /\ phase[r] = "answered" <=> answer[r] # None

\* What the reports say of an answer.
Backed(r, a) ==
  /\ a.kind = "result" =>
       /\ resultCounts(r, a.value) >= QuorumNumber
       /\ \A v \in Values : resultCounts(r, v) <= resultCounts(r, a.value)
  /\ a.kind = "no consensus" => \A v \in Values : resultCounts(r, v) < QuorumNumber

\* A result in quorum mode was reported as a success by as many workers as the quorum
\* asks for, and no other value by more, late and failed reports notwithstanding; when
\* the answer is that there is no consensus, no value was reported that often
\* (findSameResults, and what join and the timeout leave it to see).
QuorumBehind ==
  mode = "quorum" => \A r \in Requests : answer[r] # None => Backed(r, answer[r])

Settled(r) == number[r] # 0 => route[r] # {}
Share(w) == Cardinality({r \in Requests : w \in route[r]})

\* Concurrent requests are spread evenly over the workers: once none is between counter
\* and worker, no worker has been given two more than another, unless requests were given
\* up in between (incrementAndReturn and the use of its number, not of the counter).
EvenlySpread ==
  mode = "round-robin" /\ (\A r \in Requests : Settled(r)) => \A v, w \in W : Share(v) <= Share(w) + 1

\* Every request is answered, whatever the workers do (the timeout of quorum, and the
\* time to live of the others).
EachAnswered == \A r \in Requests : phase[r] = "posted" ~> phase[r] = "answered"
=============================================================================
