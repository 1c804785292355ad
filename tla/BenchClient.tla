---------------------------- MODULE BenchClient ----------------------------
(***************************************************************************)
(* The bench client: the request loop of client/client.rs, what it records *)
(* in data_collection.rs, and the intervals of client/configs.rs.          *)
(*                                                                         *)
(* Time passes in milliseconds, in steps of their own, while the loop waits*)
(* and while a send waits.  A tokio interval is a countdown to its next    *)
(* tick; the first tick is due at once, and the ticks that were missed are *)
(* made up for one after the other (MissedTickBehavior::Burst).  Nothing in*)
(* the code bounds how late a tick is seen, so an interval may go on after *)
(* its end for as long as its sends take longer than the delay between     *)
(* them; the model follows it for MaxOverdue milliseconds.                 *)
(***************************************************************************)
EXTENDS Integers, Sequences, FiniteSets

CONSTANTS MaxIntervals,  \* bound: request intervals of a configuration
          Durations,     \* duration_sec
          Rates,         \* requests_per_sec
          MsPerSec,      \* 1000, scaled down
          BatchSize,     \* capacity of the channel server_messages
          MaxOverdue     \* bound: milliseconds that an interval is followed
                         \* after its end

ASSUME IntervalsAssumption == Durations \subseteq Nat /\ Rates \subseteq Nat
ASSUME TimeAssumption == MsPerSec \in Nat \ {0} /\ MaxOverdue \in Nat
ASSUME BoundsAssumption == MaxIntervals \in Nat /\ BatchSize \in Nat \ {0}

VARIABLES config,              \* requests
          phase,               \* where the client's task is
          interval,            \* number of the current interval, from 1
          request_delay,       \* period of request_interval
          request_in,          \* until the next tick of request_interval
          next_in,             \* until the next tick of next_interval
          final_request_count, \* an Option, as a set
          next_request_id,
          request_data,        \* per row: has it a response_time?
          response_count

clientVars == <<config, phase, interval, request_delay, request_in, next_in,
                final_request_count, next_request_id, request_data,
                response_count>>

VARIABLES under_way,        \* the server has the request, and no answer yet
          answered,         \* history: what the server has answered
          server_messages   \* the answers that wait for the client

serverVars == <<under_way, answered, server_messages>>

VARIABLES interval_age,      \* history: milliseconds of the interval so far
          interval_requests  \* history: requests sent in it

historyVars == <<interval_age, interval_requests>>

vars == <<clientVars, serverVars, historyVars>>

RequestInterval == [duration_sec : Durations, requests_per_sec : Rates]

Configs == UNION {[1 .. k -> RequestInterval] : k \in 0 .. MaxIntervals}

\* "unsaved": the run is over, but save_results failed and its expect ended
\* the process.
Phases == {"waiting", "running", "sending", "done", "unsaved", "panicked"}

TypeOK ==
    /\ config \in Configs
    /\ phase \in Phases
    /\ interval \in 0 .. MaxIntervals
    /\ request_delay \in Nat
    /\ request_in \in Int
    /\ next_in \in Int /\ next_in >= -MaxOverdue
    /\ final_request_count \in SUBSET Nat
    /\ next_request_id \in Nat
    /\ request_data \in Seq(BOOLEAN)
    /\ next_request_id = Len(request_data)
    /\ response_count \in Nat
    /\ under_way \in SUBSET Nat
    /\ answered \in SUBSET Nat
    /\ server_messages \in Seq(Nat) /\ Len(server_messages) <= BatchSize
    /\ interval_age \in Nat
    /\ interval_requests \in Nat

Init ==
    /\ config \in Configs
    /\ phase = "waiting"
    /\ interval = 0
    /\ request_delay = 0 /\ request_in = 0 /\ next_in = 0
    /\ final_request_count = {}
    /\ next_request_id = 0
    /\ request_data = <<>> /\ response_count = 0
    /\ under_way = {} /\ answered = {} /\ server_messages = <<>>
    /\ interval_age = 0 /\ interval_requests = 0

(***************************************************************************)
(* Intervals                                                               *)
(***************************************************************************)

\* get_interval_duration
IntervalDuration(i) == config[i].duration_sec * MsPerSec

\* get_request_delay, before its assertion that the delay is not 0.
RequestDelay(i) ==
    IF config[i].requests_per_sec = 0 THEN 999999 * MsPerSec
    ELSE MsPerSec \div config[i].requests_per_sec

\* Mutant: get_request_delay without its assertion.
IsValidAnyDelay(i) == IntervalDuration(i) # 0

\* Neither the assertion of get_request_delay nor tokio's, that the period of
\* an interval is not zero, fails.
IsValid(i) == RequestDelay(i) # 0 /\ IntervalDuration(i) # 0

\* Mutant: the first tick of next_interval, due at once, is not awaited.
FirstTickNotAwaited(i) == 0

\* When next_interval ticks for the second time.
FirstEnd(i) == IntervalDuration(i)

\* Mutant: the request interval of the first interval is kept.
KeepRequestInterval(i) ==
    IF i = 1 THEN request_delay' = RequestDelay(i) /\ request_in' = 0
    ELSE UNCHANGED <<request_delay, request_in>>

\* request_interval = interval(new_interval.get_request_delay())
NewRequestInterval(i) == request_delay' = RequestDelay(i) /\ request_in' = 0

\* Both intervals are created anew; one that is not valid ends the process
\* before it has saved anything.
BeginInterval(i) ==
    /\ interval' = i
    /\ phase' = IF IsValid(i) THEN "running" ELSE "panicked"
    /\ next_in' = FirstEnd(i)
    /\ NewRequestInterval(i)
    /\ interval_age' = 0 /\ interval_requests' = 0

\* self.save_results().expect(..): the files can be written or cannot.
SaveResults == phase' \in {"done", "unsaved"}

\* run, up to its loop: the StartSignal has come.  (No other message can come
\* first: the server answers nothing that it was not asked.)
TakeStartSignal ==
    /\ phase = "waiting"
    /\ \/ /\ config = <<>>
          /\ SaveResults
          /\ UNCHANGED <<interval, request_delay, request_in, next_in,
                         historyVars>>
       \/ config # <<>> /\ BeginInterval(1)
    /\ UNCHANGED <<config, final_request_count, next_request_id, request_data,
                   response_count, serverVars>>

(***************************************************************************)
(* The select loop, whose branches are tried in the order of the code      *)
(***************************************************************************)

\* Mutant: the run ends when the last request has its answer.
RunFinishedWhenAnswered(counts) == \E count \in counts : response_count >= count

\* run_finished, for a value of final_request_count
RunFinished(counts) == \E count \in counts : Len(request_data) >= count

\* Mutant: answers are recorded in the order in which they arrive.
RowOfArrival(id) == response_count + 1

\* new_response: the row of a command.
RowOf(id) == id + 1

\* Mutant: answers are taken while a send waits, too.
CanTakeMessageAnytime == phase \in {"running", "sending"}

\* The loop is at its select.
CanTakeMessage == phase = "running"

\* server_messages.recv(), the first branch: handle_server_message, which
\* indexes request_data, then run_finished.
HandleServerMessage ==
    LET row      == RowOf(Head(server_messages))
        in_range == row \in DOMAIN request_data
    IN /\ CanTakeMessage
       /\ server_messages # <<>>
       /\ server_messages' = Tail(server_messages)
       /\ request_data' =
             [i \in DOMAIN request_data |-> request_data[i] \/ i = row]
       /\ response_count' =
             IF in_range THEN response_count + 1 ELSE response_count
       /\ \/ ~in_range /\ phase' = "panicked"
          \/ in_range /\ RunFinished(final_request_count) /\ SaveResults
          \/ in_range /\ ~RunFinished(final_request_count) /\ UNCHANGED phase
       /\ UNCHANGED <<config, interval, request_delay, request_in, next_in,
                      final_request_count, next_request_id, under_way, answered,
                      historyVars>>

\* request_interval.tick(), the second branch: send_request up to its await.
\* The request may be lost: the server is gone, or its proposal.
BeginSend ==
    /\ phase = "running"
    /\ server_messages = <<>>
    /\ final_request_count = {}
    /\ request_in <= 0
    /\ phase' = "sending"
    /\ request_in' = request_in + request_delay
    /\ interval_requests' = interval_requests + 1
    /\ under_way' \in {under_way, under_way \cup {next_request_id}}
    /\ UNCHANGED <<config, interval, request_delay, next_in,
                   final_request_count, next_request_id, request_data,
                   response_count, answered, server_messages, interval_age>>

\* Mutant: the next request gets the same id.
ReuseId == UNCHANGED next_request_id

\* next_request_id += 1
TakeId == next_request_id' = next_request_id + 1

\* The rest of send_request: new_request.
EndSend ==
    /\ phase = "sending"
    /\ phase' = "running"
    /\ request_data' = Append(request_data, FALSE)
    /\ TakeId
    /\ UNCHANGED <<config, interval, request_delay, request_in, next_in,
                   final_request_count, response_count, serverVars,
                   historyVars>>

\* next_interval.tick(), the last branch.  A request that becomes due in the
\* same millisecond may be seen too late.
NextInterval ==
    /\ phase = "running"
    /\ server_messages = <<>>
    /\ request_in >= 0
    /\ next_in <= 0
    /\ \/ /\ interval < Len(config)
          /\ BeginInterval(interval + 1)
          /\ UNCHANGED final_request_count
       \/ /\ interval = Len(config)
          /\ final_request_count' = {Len(request_data)}
          /\ IF RunFinished({Len(request_data)}) THEN SaveResults
             ELSE UNCHANGED phase
          /\ next_in' = next_in + IntervalDuration(interval)
          /\ UNCHANGED <<interval, request_delay, request_in, historyVars>>
    /\ UNCHANGED <<config, next_request_id, request_data, response_count,
                   serverVars>>

(***************************************************************************)
(* The rest of the world                                                   *)
(***************************************************************************)

\* The server answers in the order of the log, which need not be the order in
\* which it was asked.
Answer(id) ==
    /\ Len(server_messages) < BatchSize
    /\ under_way' = under_way \ {id}
    /\ answered' = answered \cup {id}
    /\ server_messages' = Append(server_messages, id)
    /\ UNCHANGED <<clientVars, historyVars>>

\* A millisecond passes, however late the client is with its ticks, until the
\* bound.  (When final_request_count is known the run is over, and time does not
\* matter any more.)
Elapse ==
    /\ phase \in {"running", "sending"}
    /\ final_request_count = {}
    /\ next_in > -MaxOverdue
    /\ request_in' = request_in - 1
    /\ next_in' = next_in - 1
    /\ interval_age' = interval_age + 1
    /\ UNCHANGED <<config, phase, interval, request_delay, final_request_count,
                   next_request_id, request_data, response_count, serverVars,
                   interval_requests>>

ClientStep ==
    \/ TakeStartSignal
    \/ HandleServerMessage
    \/ BeginSend \/ EndSend
    \/ NextInterval

Next == ClientStep \/ Elapse \/ \E id \in under_way : Answer(id)

Spec == Init /\ [][Next]_vars

\* The StartSignal comes, the client's task is polled, a send does not wait
\* for ever (SendsComplete of Backpressure) and time goes on.  Nothing makes
\* the server answer.
FairSpec == Spec /\ WF_vars(ClientStep) /\ WF_vars(Elapse)

(***************************************************************************)
(* Properties                                                              *)
(***************************************************************************)

\* The client saves its results only at its end, so a panic before that loses
\* them all.  None happens but for an interval of the configuration that cannot
\* run, in particular none by an answer that is faster than the await of its
\* request, after which only its row is made (client.rs:127-128,
\* data_collection.rs:41).  That the files cannot be written is another matter.
OnlyBadIntervalsPanic ==
    phase = "panicked" => \E i \in DOMAIN config : ~IsValid(i)

\* A row has a response time if and only if its own command was answered and
\* the answer taken, whatever the order of the answers, and response_count
\* counts them (data_collection.rs:39-43).
RowsAreTrue ==
    phase # "panicked" =>
        LET waiting == {server_messages[i] : i \in DOMAIN server_messages}
            taken   == {id \in 0 .. Len(request_data) - 1 : request_data[id + 1]}
        IN /\ taken = answered \ waiting
           /\ response_count = Cardinality(taken)

\* Of the requests of an interval one is due at once and then one per delay:
\* bursts after a wait never make them more than that (client.rs:61, 76, 86).
\* Because 1000 / requests_per_sec is rounded down they can still be more
\* than requests_per_sec asks for, and a rate of 0 sends one.
NotFasterThanDelay ==
    interval > 0 /\ phase # "panicked" =>
        interval_requests <= interval_age \div RequestDelay(interval) + 1

\* No interval ends early, the last one included: next_interval's first tick,
\* which is due at once, is taken before the loop (client.rs:62-63, 84-85).
IntervalsRunTheirTime ==
    [][\/ interval' # interval /\ interval > 0
       \/ phase = "running" /\ phase' \in {"done", "unsaved"}
       => interval_age >= IntervalDuration(interval)]_vars

Ended == phase \in {"done", "unsaved", "panicked"}

\* At most the steps that the client and the server can take before time goes
\* on: four for each request that is due, its burst included, and what the
\* requests already made still have to go through.
StepsLeft ==
    4 * (request_delay - request_in)
        + (IF phase = "sending" THEN 1 ELSE 0)
        + 2 * Cardinality(under_way) + Len(server_messages)

\* Nothing goes on for ever between two milliseconds, and a millisecond adds the
\* steps of one request at most: ticks that are made up for one after the other
\* do not outrun the time that they are late, which a delay of 0 would let them
\* do, and answers ask for no new request (client.rs:66-91, configs.rs:45-57).
\* A run that does not end is therefore one whose interval is overdue for ever.
RunAdvances ==
    [][\/ interval' > interval
       \/ Ended'
       \/ /\ StepsLeft' \in Nat
          /\ \/ StepsLeft' < StepsLeft
             \/ next_in' < next_in /\ StepsLeft' <= StepsLeft + 4]_vars

\* The end of the interval should have come MaxOverdue milliseconds ago: missed
\* ticks of request_interval go before it, since the select is biased
\* (client.rs:69), and new ones are missed while they are made up for.
Overdue == ~Ended /\ next_in = -MaxOverdue /\ interval > 0

\* The run ends whatever becomes of its requests, or a client that cannot keep
\* up with its ticks holds up the end of an interval: final_request_count is
\* compared with the requests sent, not with the answers (client.rs:132-139).
RunEnds == <>(Ended \/ Overdue)
=============================================================================
