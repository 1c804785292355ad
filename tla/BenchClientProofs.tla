-------------------------- MODULE BenchClientProofs --------------------------
(***************************************************************************)
(* Theorems about BenchClient, for any configuration, any rates, durations *)
(* and number of milliseconds in a second, and however late ticks are.     *)
(***************************************************************************)
EXTENDS BenchClient, SequenceTheorems, FiniteSetTheorems, TLAPS

USE IntervalsAssumption, TimeAssumption, BoundsAssumption

(***************************************************************************)
(* The inductive invariant                                                 *)
(***************************************************************************)

\* While an interval runs its two clocks and its history agree: next_interval
\* ticks when the interval has its age, and request_interval has ticked once
\* per delay.
ClocksAgree ==
    /\ phase = "waiting" => interval = 0 /\ final_request_count = {}
    /\ phase \in {"running", "sending"} =>
          /\ interval > 0
          /\ final_request_count = {}
          /\ next_in + interval_age = IntervalDuration(interval)
    /\ interval > 0 /\ phase # "panicked" =>
          /\ interval \in DOMAIN config
          /\ IsValid(interval)
          /\ request_delay = RequestDelay(interval)
          /\ request_in = interval_requests * request_delay - interval_age
          /\ request_in <= request_delay

\* Each request is under way or answered or lost, and no answer comes twice;
\* only the one that is being sent can be known to the server and have no row.
AnswersAreOfRequests ==
    /\ under_way \cap answered = {}
    /\ \A id \in under_way \cup answered :
          id < next_request_id \/ (phase = "sending" /\ id = next_request_id)
    /\ \A i \in DOMAIN server_messages : server_messages[i] \in answered
    /\ \A i, j \in DOMAIN server_messages :
          server_messages[i] = server_messages[j] => i = j

IndInv ==
    /\ TypeOK
    /\ ClocksAgree
    /\ AnswersAreOfRequests
    /\ OnlyBadIntervalsPanic
    /\ RowsAreTrue

(***************************************************************************)
(* The intervals of a configuration                                        *)
(***************************************************************************)

LEMMA ConfigType ==
    ASSUME NEW c \in Configs
    PROVE  /\ c \in Seq(RequestInterval)
           /\ DOMAIN c = 1 .. Len(c)
           /\ Len(c) \in 0 .. MaxIntervals
<1>. PICK k \in 0 .. MaxIntervals : c \in [1 .. k -> RequestInterval]
  BY DEF Configs
<1>. QED
  OBVIOUS

LEMMA IntervalType ==
    ASSUME config \in Configs, NEW i \in DOMAIN config
    PROVE  IntervalDuration(i) \in Nat /\ RequestDelay(i) \in Nat
<1>1. config[i] \in RequestInterval
  BY ConfigType
<1>2. config[i].duration_sec \in Nat /\ config[i].requests_per_sec \in Nat
  BY <1>1 DEF RequestInterval
<1>3. IntervalDuration(i) \in Nat
  BY <1>2 DEF IntervalDuration
<1>. QED
  BY <1>2, <1>3 DEF RequestDelay

\* If k delays fit in a time, then k is at most the quotient.
LEMMA Quotient ==
    ASSUME NEW a \in Nat, NEW d \in Nat \ {0}, NEW k \in Int, k * d <= a
    PROVE  k <= a \div d
<1>1. a \div d \in Nat /\ a < d * (a \div d + 1)
  OBVIOUS
<1> DEFINE q == a \div d
<1>2. q \in Nat /\ k * d < d * (q + 1)
  BY <1>1
<1>. HIDE DEF q
<1>3. ~(k >= q + 1)
  <2>1. k >= q + 1 => k * d >= (q + 1) * d
    BY <1>2
  <2>. QED
    BY <1>2, <2>1
<1>. QED
  BY <1>2, <1>3 DEF q

LEMMA PaceHolds == TypeOK /\ ClocksAgree => NotFasterThanDelay
<1>. SUFFICES ASSUME TypeOK, ClocksAgree, interval > 0, phase # "panicked"
              PROVE  interval_requests <= interval_age \div RequestDelay(interval) + 1
  BY DEF NotFasterThanDelay
<1> DEFINE d == RequestDelay(interval)
<1>1. d \in Nat \ {0} /\ interval_age \in Nat /\ interval_requests \in Nat
  BY IntervalType DEF ClocksAgree, TypeOK, IsValid
<1>2. interval_requests * d - interval_age <= d
  BY DEF ClocksAgree
<1>. HIDE DEF d
<1>3. (interval_requests - 1) * d <= interval_age
  <2>1. interval_requests * d \in Int /\ (interval_requests - 1) * d = interval_requests * d - d
    BY <1>1
  <2>. QED
    BY <1>1, <1>2, <2>1
<1>4. interval_requests - 1 <= interval_age \div d
  BY <1>1, <1>3, Quotient
<1>5. interval_age \div d \in Nat
  BY <1>1
<1>. QED
  BY <1>1, <1>4, <1>5 DEF d

(***************************************************************************)
(* Steps that begin an interval                                            *)
(***************************************************************************)

LEMMA BeginIntervalKeepsClocks ==
    ASSUME TypeOK, NEW i \in DOMAIN config, BeginInterval(i),
           UNCHANGED <<config, final_request_count>>, final_request_count = {}
    PROVE  /\ phase' \in {"running", "panicked"}
           /\ interval' \in 1 .. MaxIntervals
           /\ request_delay' \in Nat /\ request_in' = 0
           /\ next_in' \in Nat
           /\ interval_age' = 0 /\ interval_requests' = 0
           /\ ClocksAgree'
           /\ phase' = "panicked" => ~IsValid(i)
<1>1. i \in 1 .. MaxIntervals /\ IntervalDuration(i) \in Nat /\ RequestDelay(i) \in Nat
  BY ConfigType, IntervalType DEF TypeOK
<1>2. /\ IsValid(i)' = IsValid(i)
      /\ IntervalDuration(i)' = IntervalDuration(i)
      /\ RequestDelay(i)' = RequestDelay(i)
  BY DEF IsValid, IntervalDuration, RequestDelay
<1>3. /\ interval' = i /\ next_in' = IntervalDuration(i)
      /\ request_delay' = RequestDelay(i) /\ request_in' = 0
      /\ interval_age' = 0 /\ interval_requests' = 0
      /\ phase' = IF IsValid(i) THEN "running" ELSE "panicked"
  BY DEF BeginInterval, NewRequestInterval, FirstEnd
<1>4. ClocksAgree'
  <2>1. phase' = "running" \/ phase' = "panicked"
    BY <1>3
  <2>2. phase' # "panicked" => IsValid(i)
    BY <1>3
  <2>3. /\ IsValid(interval)' = IsValid(i)
        /\ IntervalDuration(interval)' = IntervalDuration(i)
        /\ RequestDelay(interval)' = RequestDelay(i)
    BY <1>2, <1>3 DEF IsValid, IntervalDuration, RequestDelay
  <2>. QED
    BY <1>1, <1>3, <2>1, <2>2, <2>3 DEF ClocksAgree
<1>. QED
  BY <1>1, <1>3, <1>4

(***************************************************************************)
(* What a step that does not touch a part of the invariant leaves of it    *)
(***************************************************************************)

LEMMA PanicFrame ==
    ASSUME OnlyBadIntervalsPanic, UNCHANGED config,
           phase' = "panicked" =>
              phase = "panicked" \/ \E i \in DOMAIN config : ~IsValid(i)
    PROVE  OnlyBadIntervalsPanic'
<1>1. \A i : IsValid(i)' = IsValid(i)
  BY DEF IsValid, IntervalDuration, RequestDelay
<1>. QED
  BY <1>1 DEF OnlyBadIntervalsPanic

LEMMA RowsFrame ==
    ASSUME RowsAreTrue, phase = "panicked" => phase' = "panicked",
           UNCHANGED <<request_data, response_count, answered, server_messages>>
    PROVE  RowsAreTrue'
BY DEF RowsAreTrue

LEMMA AnswersFrame ==
    ASSUME TypeOK, AnswersAreOfRequests, UNCHANGED serverVars,
           \/ next_request_id' = next_request_id
                 /\ (phase = "sending" => phase' = "sending")
           \/ next_request_id' = next_request_id + 1
    PROVE  AnswersAreOfRequests'
BY DEF TypeOK, AnswersAreOfRequests, serverVars

LEMMA ClocksFrame ==
    ASSUME ClocksAgree, UNCHANGED <<config, interval, request_delay, request_in,
                                    next_in, final_request_count, historyVars>>,
           \/ phase' = phase
           \/ phase = "sending" /\ phase' = "running"
           \/ phase \in {"running", "sending"} /\ Ended'
    PROVE  ClocksAgree'
<1>1. /\ \A i : IsValid(i)' = IsValid(i)
      /\ IntervalDuration(interval)' = IntervalDuration(interval)
      /\ RequestDelay(interval)' = RequestDelay(interval)
  BY DEF IsValid, IntervalDuration, RequestDelay
<1>. QED
  BY <1>1 DEF ClocksAgree, historyVars, Ended

(***************************************************************************)
(* The steps                                                               *)
(***************************************************************************)

LEMMA TakeStartSignalStep == IndInv /\ TakeStartSignal => IndInv'
<1>. SUFFICES ASSUME IndInv, TakeStartSignal PROVE IndInv'
  OBVIOUS
<1>. USE DEF IndInv
<1>1. AnswersAreOfRequests' /\ RowsAreTrue'
  BY RowsFrame, AnswersFrame DEF TakeStartSignal, serverVars
<1>2. CASE config = <<>>
  <2>1. /\ phase' \in {"done", "unsaved"} /\ interval' = 0
        /\ UNCHANGED <<config, interval, request_delay, request_in, next_in,
                       historyVars>>
    BY <1>2 DEF TakeStartSignal, ClocksAgree, BeginInterval, NewRequestInterval,
                SaveResults
  <2>2. TypeOK'
    BY <2>1 DEF TakeStartSignal, TypeOK, Phases, serverVars, historyVars
  <2>3. ClocksAgree'
    BY <2>1 DEF ClocksAgree
  <2>4. OnlyBadIntervalsPanic'
    BY <2>1 DEF OnlyBadIntervalsPanic
  <2>. QED
    BY <1>1, <2>2, <2>3, <2>4
<1>3. CASE config # <<>>
  <2>1. 1 \in DOMAIN config /\ BeginInterval(1)
    BY <1>3, ConfigType DEF TakeStartSignal, TypeOK
  <2>2. UNCHANGED <<config, final_request_count, next_request_id, request_data,
                    response_count, under_way, answered, server_messages>>
    BY DEF TakeStartSignal, serverVars
  <2>3. final_request_count = {}
    BY DEF TakeStartSignal, ClocksAgree
  <2>4. /\ phase' \in {"running", "panicked"}
        /\ interval' \in 1 .. MaxIntervals
        /\ request_delay' \in Nat /\ request_in' = 0 /\ next_in' \in Nat
        /\ interval_age' = 0 /\ interval_requests' = 0
        /\ ClocksAgree'
        /\ phase' = "panicked" => ~IsValid(1)
    BY <2>1, <2>2, <2>3, BeginIntervalKeepsClocks
  <2>5. TypeOK'
    BY <2>2, <2>4 DEF TypeOK, Phases
  <2>6. OnlyBadIntervalsPanic'
    BY <2>1, <2>2, <2>4, PanicFrame
  <2>. QED
    BY <1>1, <2>4, <2>5, <2>6
<1>. QED
  BY <1>2, <1>3

\* The answer that the client takes has a row: it is that of a request which
\* was sent, and the only one waiting for that row.
LEMMA HandleServerMessageStep == IndInv /\ HandleServerMessage => IndInv'
<1>. SUFFICES ASSUME IndInv, HandleServerMessage PROVE IndInv'
  OBVIOUS
<1>. USE DEF IndInv
<1> DEFINE id  == Head(server_messages)
           n   == Len(request_data)
<1>1. /\ phase = "running" /\ server_messages # <<>>
      /\ server_messages' = Tail(server_messages)
      /\ UNCHANGED <<config, interval, request_delay, request_in, next_in,
                     final_request_count, next_request_id, under_way, answered,
                     historyVars>>
  BY DEF HandleServerMessage, CanTakeMessage
<1>2. /\ server_messages \in Seq(Nat) /\ Len(server_messages) \in Nat
      /\ request_data \in Seq(BOOLEAN) /\ n \in Nat /\ n = next_request_id
      /\ DOMAIN request_data = 1 .. n
      /\ response_count \in Nat
  BY DEF TypeOK
<1>3. /\ id \in Nat /\ id = server_messages[1] /\ 1 \in DOMAIN server_messages
      /\ Tail(server_messages) \in Seq(Nat)
      /\ Len(Tail(server_messages)) = Len(server_messages) - 1
      /\ \A i \in DOMAIN Tail(server_messages) :
            /\ i + 1 \in DOMAIN server_messages
            /\ Tail(server_messages)[i] = server_messages[i + 1]
  BY <1>1, <1>2, HeadTailProperties
<1>4. id < n
  BY <1>1, <1>2, <1>3 DEF AnswersAreOfRequests
<1>5. RowOf(id) = id + 1 /\ RowOf(id) \in DOMAIN request_data
  BY <1>2, <1>3, <1>4 DEF RowOf
<1>6. /\ request_data' = [i \in 1 .. n |-> request_data[i] \/ i = id + 1]
      /\ response_count' = response_count + 1
      /\ phase' = phase
  <2>1. ~RunFinished(final_request_count)
    BY <1>1 DEF ClocksAgree, RunFinished
  <2>. QED
    BY <1>1, <1>2, <1>5, <2>1 DEF HandleServerMessage
<1>7. /\ request_data' \in Seq(BOOLEAN) /\ Len(request_data') = n
      /\ \A i \in 1 .. n : request_data'[i] <=> (request_data[i] \/ i = id + 1)
  <2>1. \A i \in 1 .. n : (request_data[i] \/ i = id + 1) \in BOOLEAN
    OBVIOUS
  <2>2. request_data' \in [1 .. n -> BOOLEAN]
    BY <1>6, <2>1
  <2>3. \A i \in 1 .. n : request_data'[i] <=> (request_data[i] \/ i = id + 1)
    BY <1>6, Zenon
  <2>. QED
    BY <1>2, <2>2, <2>3
<1>8. TypeOK'
  BY <1>1, <1>2, <1>3, <1>6, <1>7 DEF TypeOK, historyVars
<1>9. ClocksAgree' /\ OnlyBadIntervalsPanic'
  BY <1>1, <1>6, ClocksFrame, PanicFrame
<1>10. AnswersAreOfRequests'
  BY <1>1, <1>2, <1>3, <1>6 DEF AnswersAreOfRequests
<1>11. RowsAreTrue'
  <2> DEFINE waiting == {server_messages[i] : i \in DOMAIN server_messages}
             taken   == {m \in 0 .. n - 1 : request_data[m + 1]}
  <2>1. taken = answered \ waiting /\ response_count = Cardinality(taken)
    BY <1>1 DEF RowsAreTrue
  <2>2. id \in waiting /\ id \in answered /\ id \notin taken
    BY <1>3, <2>1 DEF AnswersAreOfRequests
  <2>3. waiting' = waiting \ {id}
    <3>1. ASSUME NEW m \in waiting, m # id PROVE m \in waiting'
      <4>. PICK i \in DOMAIN server_messages : m = server_messages[i]
        BY <3>1
      <4>1. i # 1 /\ i - 1 \in DOMAIN Tail(server_messages)
        BY <1>2, <1>3, <3>1
      <4>2. Tail(server_messages)[i - 1] = m
        BY <1>2, <1>3, <4>1
      <4>. QED
        BY <1>1, <4>1, <4>2
    <3>2. waiting' \subseteq waiting
      BY <1>1, <1>3
    <3>3. id \notin waiting'
      <4>. SUFFICES ASSUME NEW i \in DOMAIN Tail(server_messages)
                    PROVE  Tail(server_messages)[i] # id
        BY <1>1
      <4>1. i + 1 \in DOMAIN server_messages /\ i + 1 # 1
        BY <1>2, <1>3
      <4>. QED
        BY <1>3, <4>1 DEF AnswersAreOfRequests
    <3>. QED
      BY <3>1, <3>2, <3>3
  <2>4. taken' = taken \cup {id}
    <3>1. \A m \in 0 .. n - 1 :
             request_data'[m + 1] <=> (request_data[m + 1] \/ m = id)
      BY <1>2, <1>3, <1>7
    <3>2. taken' = {m \in 0 .. n - 1 : request_data'[m + 1]}
      BY <1>7
    <3>3. id \in 0 .. n - 1
      BY <1>2, <1>3, <1>4
    <3>. QED
      BY <3>1, <3>2, <3>3
  <2>5. Cardinality(taken') = Cardinality(taken) + 1
    <3>1. IsFiniteSet(0 .. n - 1)
      BY <1>2, FS_Interval
    <3>2. IsFiniteSet(taken)
      BY <3>1, FS_Subset
    <3>. HIDE DEF taken
    <3>. QED
      BY <2>2, <2>4, <3>2, FS_AddElement
  <2>6. taken' = answered' \ waiting'
    BY <1>1, <2>1, <2>2, <2>3, <2>4
  <2>. QED
    BY <1>6, <1>7, <2>1, <2>5, <2>6 DEF RowsAreTrue
<1>. QED
  BY <1>8, <1>9, <1>10, <1>11

LEMMA BeginSendStep == IndInv /\ BeginSend => IndInv'
<1>. SUFFICES ASSUME IndInv, BeginSend PROVE IndInv'
  OBVIOUS
<1>. USE DEF IndInv
<1>1. /\ phase = "running" /\ phase' = "sending"
      /\ request_in <= 0
      /\ request_in' = request_in + request_delay
      /\ interval_requests' = interval_requests + 1
      /\ under_way' \subseteq under_way \cup {next_request_id}
      /\ UNCHANGED <<config, interval, request_delay, next_in,
                     final_request_count, next_request_id, request_data,
                     response_count, answered, server_messages, interval_age>>
  BY DEF BeginSend
<1>2. /\ request_in \in Int /\ request_delay \in Nat /\ next_request_id \in Nat
      /\ interval_requests \in Nat /\ interval_age \in Nat
  BY DEF TypeOK
<1>3. TypeOK'
  BY <1>1 DEF TypeOK, Phases
<1>4. ClocksAgree'
  <2>1. /\ \A i : IsValid(i)' = IsValid(i)
        /\ IntervalDuration(interval)' = IntervalDuration(interval)
        /\ RequestDelay(interval)' = RequestDelay(interval)
    BY <1>1 DEF IsValid, IntervalDuration, RequestDelay
  <2>2. request_in = interval_requests * request_delay - interval_age
    BY <1>1 DEF ClocksAgree
  <2>3. (interval_requests + 1) * request_delay
           = interval_requests * request_delay + request_delay
    BY <1>2
  <2>4. request_in' = interval_requests' * request_delay - interval_age
    BY <1>1, <1>2, <2>2, <2>3
  <2>. QED
    BY <1>1, <1>2, <2>1, <2>4 DEF ClocksAgree
<1>5. OnlyBadIntervalsPanic' /\ RowsAreTrue'
  BY <1>1, PanicFrame, RowsFrame
<1>6. AnswersAreOfRequests'
  BY <1>1, <1>2 DEF AnswersAreOfRequests
<1>. QED
  BY <1>3, <1>4, <1>5, <1>6

LEMMA EndSendStep == IndInv /\ EndSend => IndInv'
<1>. SUFFICES ASSUME IndInv, EndSend PROVE IndInv'
  OBVIOUS
<1>. USE DEF IndInv
<1> DEFINE n == Len(request_data)
<1>1. /\ phase = "sending" /\ phase' = "running"
      /\ request_data' = Append(request_data, FALSE)
      /\ next_request_id' = next_request_id + 1
      /\ UNCHANGED <<config, interval, request_delay, request_in, next_in,
                     final_request_count, response_count, serverVars,
                     historyVars>>
  BY DEF EndSend, TakeId
<1>2. /\ request_data \in Seq(BOOLEAN) /\ n \in Nat /\ n = next_request_id
      /\ request_data' \in Seq(BOOLEAN) /\ Len(request_data') = n + 1
      /\ \A i \in 1 .. n : request_data'[i] = request_data[i]
      /\ request_data'[n + 1] = FALSE
  BY <1>1 DEF TypeOK
<1>3. TypeOK'
  BY <1>1, <1>2 DEF TypeOK, Phases, serverVars, historyVars
<1>4. ClocksAgree' /\ OnlyBadIntervalsPanic'
  BY <1>1, ClocksFrame, PanicFrame
<1>5. AnswersAreOfRequests'
  BY <1>1, AnswersFrame
<1>6. RowsAreTrue'
  <2> DEFINE taken == {m \in 0 .. Len(request_data) - 1 : request_data[m + 1]}
  <2>1. \A m \in 0 .. (n + 1) - 1 :
           request_data'[m + 1] <=> (m \in 0 .. n - 1 /\ request_data[m + 1])
    BY <1>2
  <2>2. taken' = {m \in 0 .. (n + 1) - 1 : request_data'[m + 1]}
    BY <1>2
  <2>3. taken' = taken
    BY <1>2, <2>1, <2>2
  <2>4. /\ taken = answered \ {server_messages[i] : i \in DOMAIN server_messages}
        /\ response_count = Cardinality(taken)
    BY <1>1 DEF RowsAreTrue
  <2>5. /\ taken' = (answered \ {server_messages[i] : i \in DOMAIN server_messages})'
        /\ response_count' = Cardinality(taken)'
    <3>. HIDE DEF taken
    <3>. QED
      BY <1>1, <2>3, <2>4 DEF serverVars
  <2>. QED
    BY <2>5 DEF RowsAreTrue
<1>. QED
  BY <1>3, <1>4, <1>5, <1>6

LEMMA NextIntervalStep == IndInv /\ NextInterval => IndInv'
<1>. SUFFICES ASSUME IndInv, NextInterval PROVE IndInv'
  OBVIOUS
<1>. USE DEF IndInv
<1>1. /\ phase = "running"
      /\ UNCHANGED <<config, next_request_id, request_data, response_count,
                     serverVars>>
  BY DEF NextInterval
<1>2. AnswersAreOfRequests' /\ RowsAreTrue'
  BY <1>1, RowsFrame, AnswersFrame DEF serverVars
<1>3. CASE /\ interval < Len(config)
           /\ BeginInterval(interval + 1)
           /\ UNCHANGED final_request_count
  <2>1. interval + 1 \in DOMAIN config
    BY <1>1, <1>3, ConfigType DEF TypeOK, ClocksAgree
  <2>2. final_request_count = {}
    BY <1>1 DEF ClocksAgree
  <2>3. /\ phase' \in {"running", "panicked"}
        /\ interval' \in 1 .. MaxIntervals
        /\ request_delay' \in Nat /\ request_in' = 0 /\ next_in' \in Nat
        /\ interval_age' = 0 /\ interval_requests' = 0
        /\ ClocksAgree'
        /\ phase' = "panicked" => ~IsValid(interval + 1)
    BY <1>1, <1>3, <2>1, <2>2, BeginIntervalKeepsClocks
  <2>4. TypeOK'
    BY <1>1, <1>3, <2>3 DEF TypeOK, Phases, serverVars
  <2>5. OnlyBadIntervalsPanic'
    BY <1>1, <2>1, <2>3, PanicFrame
  <2>. QED
    BY <1>2, <2>3, <2>4, <2>5
<1>4. CASE /\ interval = Len(config)
           /\ final_request_count' = {Len(request_data)}
           /\ IF RunFinished({Len(request_data)}) THEN SaveResults
              ELSE UNCHANGED phase
           /\ next_in' = next_in + IntervalDuration(interval)
           /\ UNCHANGED <<interval, request_delay, request_in, historyVars>>
  <2>1. Len(request_data) \in Nat
    BY DEF TypeOK
  <2>2. phase' \in {"done", "unsaved"}
    BY <1>4, <2>1 DEF RunFinished, SaveResults
  <2>3. interval \in DOMAIN config
    BY <1>1 DEF ClocksAgree
  <2>4. IntervalDuration(interval) \in Nat
    BY <2>3, IntervalType DEF TypeOK
  <2>5. TypeOK'
    BY <1>1, <1>4, <2>1, <2>2, <2>4 DEF TypeOK, Phases, serverVars, historyVars
  <2>6. ClocksAgree'
    <3>1. /\ IsValid(interval)' = IsValid(interval)
          /\ RequestDelay(interval)' = RequestDelay(interval)
      BY <1>1, <1>4 DEF IsValid, IntervalDuration, RequestDelay
    <3>. QED
      BY <1>1, <1>4, <2>2, <3>1 DEF ClocksAgree, historyVars
  <2>7. OnlyBadIntervalsPanic'
    BY <2>2 DEF OnlyBadIntervalsPanic
  <2>. QED
    BY <1>2, <2>5, <2>6, <2>7
<1>. QED
  BY <1>3, <1>4 DEF NextInterval

LEMMA AnswerStep ==
    ASSUME IndInv, NEW id \in under_way, Answer(id)
    PROVE  IndInv'
<1>. USE DEF IndInv
<1>1. /\ Len(server_messages) < BatchSize
      /\ under_way' = under_way \ {id}
      /\ answered' = answered \cup {id}
      /\ server_messages' = Append(server_messages, id)
      /\ UNCHANGED <<config, phase, interval, request_delay, request_in, next_in,
                     final_request_count, next_request_id, request_data,
                     response_count, historyVars>>
  BY DEF Answer, clientVars
<1>2. /\ id \in Nat /\ server_messages \in Seq(Nat) /\ Len(server_messages) \in Nat
      /\ server_messages' \in Seq(Nat)
      /\ Len(server_messages') = Len(server_messages) + 1
      /\ \A i \in 1 .. Len(server_messages) :
            server_messages'[i] = server_messages[i]
      /\ server_messages'[Len(server_messages) + 1] = id
  BY <1>1 DEF TypeOK
<1>3. TypeOK'
  BY <1>1, <1>2 DEF TypeOK, historyVars
<1>4. ClocksAgree' /\ OnlyBadIntervalsPanic'
  BY <1>1, ClocksFrame, PanicFrame
<1>5. id \notin answered
  BY DEF AnswersAreOfRequests
<1>6. AnswersAreOfRequests'
  <2>1. \A i \in DOMAIN server_messages' : server_messages'[i] \in answered'
    BY <1>1, <1>2 DEF AnswersAreOfRequests
  <2>2. \A i, j \in DOMAIN server_messages' :
           server_messages'[i] = server_messages'[j] => i = j
    BY <1>1, <1>2, <1>5 DEF AnswersAreOfRequests
  <2>. QED
    BY <1>1, <2>1, <2>2 DEF AnswersAreOfRequests
<1>7. RowsAreTrue'
  <2>1. {server_messages'[i] : i \in DOMAIN server_messages'}
           = {server_messages[i] : i \in DOMAIN server_messages} \cup {id}
    BY <1>2
  <2>2. phase # "panicked" =>
           id \notin {m \in 0 .. Len(request_data) - 1 : request_data[m + 1]}
    BY <1>5 DEF RowsAreTrue
  <2>. QED
    BY <1>1, <2>1, <2>2 DEF RowsAreTrue
<1>. QED
  BY <1>3, <1>4, <1>6, <1>7

LEMMA ElapseStep == IndInv /\ Elapse => IndInv'
<1>. SUFFICES ASSUME IndInv, Elapse PROVE IndInv'
  OBVIOUS
<1>. USE DEF IndInv
<1>1. /\ phase \in {"running", "sending"}
      /\ next_in > -MaxOverdue
      /\ request_in' = request_in - 1
      /\ next_in' = next_in - 1
      /\ interval_age' = interval_age + 1
      /\ UNCHANGED <<config, phase, interval, request_delay, final_request_count,
                     next_request_id, request_data, response_count, serverVars,
                     interval_requests>>
  BY DEF Elapse
<1>2. /\ request_in \in Int /\ next_in \in Int /\ request_delay \in Nat
      /\ interval_requests \in Nat /\ interval_age \in Nat
  BY DEF TypeOK
<1>3. TypeOK'
  BY <1>1, <1>2 DEF TypeOK, serverVars
<1>4. ClocksAgree'
  <2>1. /\ IsValid(interval)' = IsValid(interval)
        /\ IntervalDuration(interval)' = IntervalDuration(interval)
        /\ RequestDelay(interval)' = RequestDelay(interval)
    BY <1>1 DEF IsValid, IntervalDuration, RequestDelay
  <2>2. IntervalDuration(interval) \in Nat /\ interval_requests * request_delay \in Nat
    BY <1>1, <1>2, IntervalType DEF ClocksAgree, TypeOK
  <2>. QED
    BY <1>1, <1>2, <2>1, <2>2 DEF ClocksAgree
<1>5. AnswersAreOfRequests' /\ OnlyBadIntervalsPanic' /\ RowsAreTrue'
  BY <1>1, PanicFrame, RowsFrame, AnswersFrame DEF serverVars
<1>. QED
  BY <1>3, <1>4, <1>5

LEMMA StutterStep == IndInv /\ UNCHANGED vars => IndInv'
BY RowsFrame, AnswersFrame, ClocksFrame, PanicFrame
   DEF IndInv, TypeOK, vars, clientVars, serverVars, historyVars

(***************************************************************************)
(* The theorems                                                            *)
(***************************************************************************)

LEMMA InitIndInv == Init => IndInv
<1>. SUFFICES ASSUME Init PROVE IndInv
  OBVIOUS
<1>1. TypeOK
  BY DEF Init, TypeOK, Phases
<1>2. ClocksAgree /\ AnswersAreOfRequests /\ OnlyBadIntervalsPanic
  BY DEF Init, ClocksAgree, AnswersAreOfRequests, OnlyBadIntervalsPanic
<1>3. RowsAreTrue
  BY FS_EmptySet DEF Init, RowsAreTrue
<1>. QED
  BY <1>1, <1>2, <1>3 DEF IndInv

LEMMA NextIndInv == IndInv /\ [Next]_vars => IndInv'
BY TakeStartSignalStep, HandleServerMessageStep, BeginSendStep, EndSendStep,
   NextIntervalStep, AnswerStep, ElapseStep, StutterStep
   DEF Next, ClientStep

\* IndInv is an invariant of the bench client.
THEOREM Invariance == Spec => []IndInv
BY InitIndInv, NextIndInv, PTL DEF Spec

\* Every variable keeps its type.
THEOREM TypeCorrectness == Spec => []TypeOK
<1>1. IndInv => TypeOK
  BY DEF IndInv
<1>. QED
  BY <1>1, Invariance, PTL

\* No answer ever makes the client panic, however fast it comes: only an
\* interval that cannot run does (client.rs:127-128, data_collection.rs:41).
THEOREM PanicSafety == Spec => []OnlyBadIntervalsPanic
<1>1. IndInv => OnlyBadIntervalsPanic
  BY DEF IndInv
<1>. QED
  BY <1>1, Invariance, PTL

\* The rows of the client's data say which requests were answered, in whatever
\* order the answers come (data_collection.rs:39-43).
THEOREM RowSafety == Spec => []RowsAreTrue
<1>1. IndInv => RowsAreTrue
  BY DEF IndInv
<1>. QED
  BY <1>1, Invariance, PTL

\* The client never sends faster than its delay allows, for any rate and
\* however late its ticks come (client.rs:61, 76, 86).
THEOREM PaceSafety == Spec => []NotFasterThanDelay
<1>1. IndInv => NotFasterThanDelay
  BY PaceHolds DEF IndInv
<1>. QED
  BY <1>1, Invariance, PTL

\* An interval ends when its time is over and not before (client.rs:62-63,
\* 84-85).
THEOREM IntervalSafety == Spec => IntervalsRunTheirTime
<1> DEFINE Ends == \/ interval' # interval /\ interval > 0
                   \/ phase = "running" /\ phase' \in {"done", "unsaved"}
<1>1. IndInv /\ [Next]_vars =>
         [Ends => interval_age >= IntervalDuration(interval)]_vars
  <2>. SUFFICES ASSUME IndInv, Next, Ends
                PROVE  interval_age >= IntervalDuration(interval)
    BY DEF vars, clientVars
  <2>1. CASE NextInterval
    <3>1. phase = "running" /\ next_in <= 0
      BY <2>1 DEF NextInterval
    <3>2. interval \in DOMAIN config
      BY <3>1 DEF IndInv, ClocksAgree
    <3>3. /\ IntervalDuration(interval) \in Nat /\ next_in \in Int
          /\ interval_age \in Nat
      BY <3>2, IntervalType DEF IndInv, TypeOK
    <3>. QED
      BY <3>1, <3>3 DEF IndInv, ClocksAgree
  <2>2. CASE TakeStartSignal
    BY <2>2 DEF TakeStartSignal, IndInv, ClocksAgree
  <2>3. CASE HandleServerMessage
    <3>1. phase' \notin {"done", "unsaved"}
      BY <2>3 DEF HandleServerMessage, CanTakeMessage, IndInv, ClocksAgree,
                  RunFinished
    <3>. QED
      BY <2>3, <3>1 DEF HandleServerMessage
  <2>4. CASE BeginSend \/ EndSend \/ Elapse \/ \E id \in under_way : Answer(id)
    BY <2>4 DEF BeginSend, EndSend, TakeId, Elapse, Answer, clientVars
  <2>. QED
    BY <2>1, <2>2, <2>3, <2>4 DEF Next, ClientStep
<1>. QED
  BY <1>1, Invariance, PTL DEF Spec, IntervalsRunTheirTime

(***************************************************************************)
(* The run advances                                                        *)
(***************************************************************************)

\* Nothing was sent before the StartSignal.
NothingSentYet == phase = "waiting" => next_request_id = 0

LEMMA InitNothingSent == Init => NothingSentYet
BY DEF Init, NothingSentYet

LEMMA NextNothingSent == IndInv /\ NothingSentYet /\ [Next]_vars => NothingSentYet'
<1>. SUFFICES ASSUME IndInv, NothingSentYet, [Next]_vars, phase' = "waiting"
              PROVE  next_request_id' = 0
  BY DEF NothingSentYet
<1>1. CASE TakeStartSignal \/ BeginSend \/ EndSend
  BY <1>1 DEF TakeStartSignal, BeginInterval, NewRequestInterval, BeginSend, EndSend,
              TakeId, SaveResults
<1>2. ~HandleServerMessage
  BY DEF HandleServerMessage, CanTakeMessage, SaveResults
<1>3. CASE NextInterval
  BY <1>3 DEF NextInterval, BeginInterval, NewRequestInterval, SaveResults
<1>4. CASE Elapse \/ UNCHANGED clientVars
  BY <1>4 DEF Elapse, clientVars, NothingSentYet
<1>. QED
  BY <1>1, <1>2, <1>3, <1>4 DEF Next, ClientStep, Answer, vars

LEMMA UnderWayIsFinite ==
    ASSUME IndInv
    PROVE  IsFiniteSet(under_way) /\ Cardinality(under_way) \in Nat
<1>1. under_way \subseteq 0 .. next_request_id
  BY DEF IndInv, TypeOK, AnswersAreOfRequests
<1>2. next_request_id \in Nat
  BY DEF IndInv, TypeOK
<1>3. IsFiniteSet(0 .. next_request_id)
  BY <1>2, FS_Interval
<1>4. IsFiniteSet(under_way)
  BY <1>1, <1>3, FS_Subset
<1>. QED
  BY <1>4, FS_CardinalityType

\* What the invariant says of the summands of StepsLeft.
LEMMA Summands ==
    ASSUME IndInv, phase \in {"running", "sending"}
    PROVE  /\ next_in \in Int
           /\ request_in \in Int /\ request_delay \in Nat
           /\ request_in <= request_delay /\ request_delay # 0
BY DEF IndInv, TypeOK, ClocksAgree, IsValid

LEMMA Advance ==
    ASSUME IndInv, NothingSentYet, Next
    PROVE  \/ interval' > interval
           \/ Ended'
           \/ /\ StepsLeft' \in Nat
              /\ \/ StepsLeft' < StepsLeft
                 \/ next_in' < next_in /\ StepsLeft' <= StepsLeft + 4
<1>. SUFFICES ASSUME ~Ended'
              PROVE  \/ interval' > interval
                     \/ /\ StepsLeft' \in Nat
                        /\ \/ StepsLeft' < StepsLeft
                           \/ next_in' < next_in /\ StepsLeft' <= StepsLeft + 4
  OBVIOUS
<1> DEFINE D == request_delay - request_in
           s == IF phase = "sending" THEN 1 ELSE 0
           c == Cardinality(under_way)
           k == Len(server_messages)
<1>1. /\ c \in Nat /\ k \in Nat /\ s \in Nat
      /\ StepsLeft = 4 * D + s + 2 * c + k
  BY UnderWayIsFinite DEF IndInv, TypeOK, StepsLeft
<1>2. phase \in {"running", "sending"} =>
         /\ D \in Nat
         /\ next_in \in Int /\ request_in \in Int /\ request_delay \in Nat \ {0}
  BY Summands
<1>3. CASE TakeStartSignal
  BY <1>3 DEF TakeStartSignal, BeginInterval, NewRequestInterval, IndInv, ClocksAgree,
              SaveResults, Ended
<1>4. CASE HandleServerMessage
  <2>1. /\ phase = "running" /\ phase' = "running" /\ server_messages # <<>>
        /\ server_messages' = Tail(server_messages)
        /\ UNCHANGED <<request_delay, request_in, next_in, under_way>>
    BY <1>4 DEF HandleServerMessage, CanTakeMessage, SaveResults, Ended
  <2>2. Len(server_messages') = k - 1 /\ k - 1 \in Nat
    BY <2>1 DEF IndInv, TypeOK
  <2>3. StepsLeft' = 4 * D + s + 2 * c + (k - 1)
    BY <2>1, <2>2 DEF StepsLeft
  <2>. HIDE DEF D, s, c, k
  <2>. QED
    BY <1>1, <1>2, <2>1, <2>2, <2>3
<1>5. CASE BeginSend
  <2>1. /\ phase = "running" /\ phase' = "sending" /\ request_in <= 0
        /\ request_in' = request_in + request_delay
        /\ under_way' \in {under_way, under_way \cup {next_request_id}}
        /\ UNCHANGED <<request_delay, next_in, server_messages>>
    BY <1>5 DEF BeginSend
  <2>2. PICK d \in {c, c + 1} : Cardinality(under_way') = d
    <3>1. next_request_id \notin under_way
      BY <2>1 DEF IndInv, TypeOK, AnswersAreOfRequests
    <3>. QED
      BY <2>1, <3>1, UnderWayIsFinite, FS_AddElement
  <2> DEFINE E == 0 - request_in
  <2>3. StepsLeft' = 4 * E + 1 + 2 * d + k
    <3>1. request_delay - (request_in + request_delay) = E
      BY <1>2, <2>1
    <3>. QED
      BY <2>1, <2>2, <3>1 DEF StepsLeft
  <2>4. E \in Nat /\ E + 1 <= D /\ s = 0
    BY <1>2, <2>1
  <2>. HIDE DEF D, E, s, c, k
  <2>. QED
    BY <1>1, <1>2, <2>1, <2>2, <2>3, <2>4
<1>6. CASE EndSend
  <2>1. /\ phase = "sending" /\ phase' = "running"
        /\ UNCHANGED <<request_delay, request_in, next_in, under_way, server_messages>>
    BY <1>6 DEF EndSend, TakeId, serverVars
  <2>2. StepsLeft' = 4 * D + 0 + 2 * c + k
    BY <2>1 DEF StepsLeft
  <2>3. s = 1
    BY <2>1
  <2>. HIDE DEF D, s, c, k
  <2>. QED
    BY <1>1, <1>2, <2>1, <2>2, <2>3
<1>7. CASE NextInterval
  <2>1. interval \in Int /\ Len(request_data) \in Nat
    BY DEF IndInv, TypeOK
  <2>2. RunFinished({Len(request_data)})
    BY <2>1 DEF RunFinished
  <2>. QED
    BY <1>7, <2>1, <2>2 DEF NextInterval, BeginInterval, NewRequestInterval,
                           SaveResults, Ended
<1>8. CASE Elapse
  <2>1. /\ phase \in {"running", "sending"}
        /\ request_in' = request_in - 1 /\ next_in' = next_in - 1
        /\ UNCHANGED <<phase, request_delay, under_way, server_messages>>
    BY <1>8 DEF Elapse, serverVars
  <2>2. request_delay - (request_in - 1) = D + 1
    BY <1>2, <2>1
  <2>3. StepsLeft' = 4 * (D + 1) + s + 2 * c + k
    BY <2>1, <2>2 DEF StepsLeft
  <2>. HIDE DEF D, s, c, k
  <2>. QED
    BY <1>1, <1>2, <2>1, <2>2, <2>3
<1>9. ASSUME NEW id \in under_way, Answer(id)
      PROVE  StepsLeft' \in Nat /\ StepsLeft' < StepsLeft
  <2>1. /\ under_way' = under_way \ {id} /\ server_messages' = Append(server_messages, id)
        /\ UNCHANGED <<phase, request_delay, request_in, next_in>>
    BY <1>9 DEF Answer, clientVars
  <2>2. phase \in {"running", "sending"}
    BY <2>1 DEF IndInv, TypeOK, Phases, AnswersAreOfRequests, NothingSentYet, Ended
  <2>3. Cardinality(under_way') = c - 1 /\ c - 1 \in Nat
    <3>1. Cardinality(under_way') = c - 1
      BY <2>1, UnderWayIsFinite, FS_RemoveElement
    <3>2. c # 0
      BY UnderWayIsFinite, FS_EmptySet
    <3>. QED
      BY <1>1, <3>1, <3>2
  <2>4. Len(server_messages') = k + 1
    BY <2>1 DEF IndInv, TypeOK
  <2>5. StepsLeft' = 4 * D + s + 2 * (c - 1) + (k + 1)
    BY <2>1, <2>3, <2>4 DEF StepsLeft
  <2>. HIDE DEF D, s, c, k
  <2>. QED
    BY <1>1, <1>2, <2>2, <2>3, <2>5
<1>. QED
  BY <1>3, <1>4, <1>5, <1>6, <1>7, <1>8, <1>9 DEF Next, ClientStep

\* Between two milliseconds the bench client and its server take finitely many
\* steps, and a millisecond adds four at most, for any configuration and however
\* late the client is: a run that does not end is one whose interval is overdue
\* for ever (client.rs:66-91, configs.rs:45-57).
THEOREM Progress == Spec => RunAdvances
<1> DEFINE Advances == \/ interval' > interval
                       \/ Ended'
                       \/ /\ StepsLeft' \in Nat
                          /\ \/ StepsLeft' < StepsLeft
                             \/ next_in' < next_in /\ StepsLeft' <= StepsLeft + 4
<1>1. IndInv /\ NothingSentYet /\ [Next]_vars => [Advances]_vars
  BY Advance
<1>. QED
  BY <1>1, InitIndInv, NextIndInv, InitNothingSent, NextNothingSent, PTL
     DEF Spec, RunAdvances
=============================================================================
