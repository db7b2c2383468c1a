------------------------- MODULE ControlLoopProofs -------------------------
(* The safety properties of ControlLoop, for any calls, applications, channel *)
(* size and receiver.                                                         *)
EXTENDS ControlLoop, TLAPS, FiniteSetTheorems, WellFoundedInduction

\* A set of naturals has a least element.
LEMMA NatMin ==
  ASSUME NEW T \in SUBSET Nat, T # {}
  PROVE  \E x \in T : \A y \in T : x <= y
  <1> DEFINE R == OpToRel(<, Nat)
  <1>1. IsWellFoundedOn(R, Nat)
    BY NatLessThanWellFounded, Zenon
  <1>2. \A x, y \in Nat : <<y, x>> \in R <=> y < x
    BY Zenon DEF OpToRel
  <1> HIDE DEF R
  <1>3. PICK x \in T : \A y \in T : ~(<<y, x>> \in R)
    BY <1>1, WFMin, Zenon
  <1>4. ASSUME NEW y \in T PROVE x <= y
    <2>1. x \in Nat /\ y \in Nat /\ ~(y < x)
      BY <1>2, <1>3, Zenon
    <2> QED
      BY <2>1
  <1> QED
    BY <1>4, Zenon

\* Min picks an element, no larger than any other.
LEMMA MinOfNaturals ==
  ASSUME NEW T \in SUBSET Nat, T # {}
  PROVE  Min(T) \in T /\ \A y \in T : Min(T) <= y
  BY NatMin, Zenon DEF Min

\* The ids that are tried: each of 1 .. MAX_ID is, and the first is `next`.
Try(next, k) == ((next - 1 + k) % MAX_ID) + 1

\* Trying goes through every id once, from `next` on.
LEMMA TryCovers ==
  ASSUME NEW next \in 1 .. MAX_ID
  PROVE  /\ \A k \in Nat : Try(next, k) \in 1 .. MAX_ID
         /\ \A id \in 1 .. MAX_ID : \E k \in 0 .. MAX_ID - 1 : Try(next, k) = id
         /\ Try(next, 0) = next
  <1> DEFINE M == MAX_ID
  <1>1. M \in Nat \ {0} /\ next \in Nat /\ 1 <= next /\ next <= M
    BY ControlAssumption
  <1> HIDE DEF M
  <1>2. \A a \in Nat : a % M \in 0 .. M - 1
    BY <1>1, SMT
  <1>3. \A a \in Nat : a < M => a % M = a
    BY <1>1, SMT
  <1>4. \A a \in Nat : M <= a /\ a < M + M => a % M = a - M
    BY <1>1, SMT
  <1>5. ASSUME NEW k \in Nat PROVE Try(next, k) \in 1 .. M
    <2>1. (next - 1 + k) \in Nat
      BY <1>1
    <2> QED
      BY <1>1, <1>2, <2>1 DEF Try, M
  <1>6. ASSUME NEW id \in 1 .. M PROVE \E k \in 0 .. M - 1 : Try(next, k) = id
    <2>1. CASE next <= id
      <3>1. id - next \in 0 .. M - 1 /\ (next - 1 + (id - next)) = id - 1 /\ id - 1 \in Nat /\ id - 1 < M
        BY <1>1, <2>1
      <3>2. Try(next, id - next) = id
        BY <1>1, <1>3, <3>1 DEF Try, M
      <3> QED
        BY <3>1, <3>2, Zenon
    <2>2. CASE id < next
      <3>1. /\ M + id - next \in 0 .. M - 1 /\ (next - 1 + (M + id - next)) = M + id - 1
            /\ M + id - 1 \in Nat /\ M + id - 1 < M + M /\ M <= M + id - 1 /\ M + id - 1 - M = id - 1
        BY <1>1, <2>2
      <3>2. Try(next, M + id - next) = id
        BY <1>1, <1>4, <3>1 DEF Try, M
      <3> QED
        BY <3>1, <3>2, Zenon
    <2> QED
      BY <1>1, <2>1, <2>2
  <1>7. Try(next, 0) = next
    <2>1. next - 1 + 0 = next - 1 /\ next - 1 \in Nat /\ next - 1 < M
      BY <1>1
    <2> QED
      BY <1>1, <1>3, <2>1 DEF Try, M
  <1> QED
    BY <1>5, <1>6, <1>7, Zenon DEF M

\* allocate_id finds an id no pending request uses, `next` itself if it is free.
LEMMA AllocateId ==
  ASSUME NEW next \in 1 .. MAX_ID, NEW used \in SUBSET (1 .. MAX_ID), Cardinality(used) < MAX_ID
  PROVE  /\ allocate_id(next, used) \in (1 .. MAX_ID) \ used
         /\ next \notin used => allocate_id(next, used) = next
  <1> DEFINE free == {k \in 0 .. MAX_ID - 1 : Try(next, k) \notin used}
  <1>1. MAX_ID \in Nat \ {0}
    BY ControlAssumption, Zenon
  <1>2. allocate_id(next, used) = Try(next, Min(free))
    BY Zenon DEF allocate_id, Try
  <1>3. free # {}
    <2> SUFFICES ASSUME free = {} PROVE FALSE
      OBVIOUS
    <2>1. 1 .. MAX_ID \subseteq used
      BY TryCovers, Zenon
    <2>2. used = 1 .. MAX_ID
      BY <2>1, Zenon
    <2>3. Cardinality(1 .. MAX_ID) = MAX_ID
      BY <1>1, FS_Interval
    <2> QED
      BY <1>1, <2>2, <2>3
  <1>4. free \in SUBSET Nat
    BY <1>1
  <1>5. Min(free) \in free /\ \A k \in free : Min(free) <= k
    <2> HIDE DEF free
    <2> QED
      BY <1>3, <1>4, MinOfNaturals, Zenon
  <1>6. Min(free) \in Nat /\ Try(next, Min(free)) \notin used
    BY <1>4, <1>5, Zenon
  <1>7. ASSUME next \notin used PROVE Try(next, Min(free)) = next
    <2>1. 0 \in free
      BY <1>1, <1>7, TryCovers
    <2>2. Min(free) = 0
      <3> HIDE DEF free
      <3> QED
        BY <1>5, <1>6, <2>1
    <2> QED
      BY <2>2, TryCovers, Zenon
  <1> QED
    <2> HIDE DEF free
    <2> QED
      BY <1>2, <1>6, <1>7, TryCovers

\* The id after the last is the first.
LEMMA SuccessorType ==
  ASSUME NEW id \in 1 .. MAX_ID
  PROVE  /\ successor(id) \in 1 .. MAX_ID
         /\ id < MAX_ID => successor(id) = id + 1
  <1> DEFINE M == MAX_ID
  <1>1. M \in Nat \ {0} /\ id \in Nat /\ id <= M
    BY ControlAssumption
  <1> HIDE DEF M
  <1>2. id % M \in 0 .. M - 1 /\ (id < M => id % M = id)
    BY <1>1, SMT
  <1> QED
    BY <1>1, <1>2 DEF successor, M
-----------------------------------------------------------------------------
Responses == [ok : BOOLEAN, by : Calls \cup {None}, shows : Transports \cup {None}]
Writers == {request.call : request \in written}
Requesters(t) == {c \in Writers : table(c) = t}

\* A call has at most one command in the channel, and nothing but giving up
\* happens to it there.
ChannelInv ==
  /\ \A i, j \in 1 .. Len(channel) : channel[i] = channel[j] => i = j
  /\ \A i \in 1 .. Len(channel) : calls[channel[i]].phase \in {"Queued", "Done"}

\* A call writes its request once: it has not before the request is taken from
\* the channel, and stop() not before its CLOSE has been answered.
RequestsInv ==
  \A c \in Calls :
    /\ calls[c].phase = "Idle" \/ calls[c].op \in Operations
    /\ calls[c].phase = "Firing" => calls[c].command = "Fire"
    /\ \/ calls[c].phase = "Idle"
       \/ calls[c].command = "Request" /\ calls[c].phase = "Sending"
       \/ calls[c].command = "Request" /\ \E i \in 1 .. Len(channel) : channel[i] = c
       \/ calls[c].command = "Fire" /\ calls[c].op.kind = "Stop"
       => c \notin Writers

\* What is pending was written, with its id, and is in the table of its call.
PendingInv ==
  \A t \in Tables : \A id \in DOMAIN pending[t] :
    [call |-> pending[t][id], id |-> id] \in written /\ table(pending[t][id]) = t

IInv ==
  /\ ControlTypeOK
  /\ ChannelInv
  /\ RequestsInv
  /\ PendingInv
  /\ WaitingCallsArePending
  /\ LaunchedAppsAreStopped
-----------------------------------------------------------------------------
\* The fields of a call have their types.
LEMMA CallFacts ==
  ASSUME ControlTypeOK, NEW c \in Calls
  PROVE  /\ calls[c] \in CallStates
         /\ calls[c].op \in Operations \cup {None}
         /\ calls[c].command \in {None, "Request", "Fire", "Close"}
         /\ calls[c].phase \in {"Idle", "Sending", "Queued", "Firing", "Waiting", "Answered", "Done"}
         /\ calls[c].response \in Responses
  BY Zenon DEF ControlTypeOK, CallStates, Responses

\* A call answered with a response, all else as it was.
answered(call, response) == [call EXCEPT !.phase = "Answered", !.response = response]

\* A call that is answered keeps what it asked for.
LEMMA AnsweredType ==
  ASSUME NEW call \in CallStates,
         NEW r \in Responses
  PROVE  /\ answered(call, r) \in CallStates
         /\ answered(call, r).op = call.op /\ answered(call, r).command = call.command
         /\ answered(call, r).phase = "Answered" /\ answered(call, r).response = r
  BY Zenon DEF CallStates, Responses, answered

\* The same response with another ok.
with_ok(response, ok) == [response EXCEPT !.ok = ok]

\* A response with another verdict.
LEMMA WithOkType ==
  ASSUME NEW r \in Responses, NEW ok \in BOOLEAN
  PROVE  /\ with_ok(r, ok) \in Responses
         /\ with_ok(r, ok).ok = ok /\ with_ok(r, ok).by = r.by /\ with_ok(r, ok).shows = r.shows
  BY Zenon DEF with_ok, Responses

\* What the loop does to a call it does not take from the channel: nothing, or
\* it answers.  A call that is still queued is answered only when the channel is
\* dropped.
Served(c) ==
  \/ calls'[c] = calls[c]
  \/ /\ calls[c].phase \in {"Queued", "Firing", "Waiting"}
     /\ calls[c].phase = "Queued" => channel' = << >>
     /\ \/ calls'[c] = answered(calls[c], with_ok(calls[c].response, FALSE))
        \/ calls[c].phase = "Firing" /\ calls'[c] = answered(calls[c], with_ok(calls[c].response, TRUE))
        \/ /\ calls[c].phase = "Waiting"
           /\ \E r \in Responses :
                calls'[c] = answered(calls[c], r)

\* A call a step serves is answered or stays where it is.
LEMMA ServedFacts ==
  ASSUME ControlTypeOK, NEW c \in Calls, Served(c)
  PROVE  /\ calls'[c] \in CallStates
         /\ calls'[c].op = calls[c].op /\ calls'[c].command = calls[c].command
         /\ \/ calls'[c].phase = calls[c].phase
            \/ /\ calls[c].phase \in {"Queued", "Firing", "Waiting"} /\ calls'[c].phase = "Answered"
               /\ calls[c].phase = "Queued" => channel' = << >>
  <1>1. calls[c] \in CallStates /\ calls[c].response \in Responses
    BY CallFacts, Zenon
  <1>2. CASE calls'[c] = calls[c]
    BY <1>1, <1>2, Zenon
  <1>3. ASSUME NEW r \in Responses,
               calls'[c] = answered(calls[c], r)
        PROVE  /\ calls'[c] \in CallStates /\ calls'[c].phase = "Answered"
               /\ calls'[c].op = calls[c].op /\ calls'[c].command = calls[c].command
    BY <1>1, <1>3, AnsweredType
  <1>4. /\ with_ok(calls[c].response, FALSE) \in Responses
        /\ with_ok(calls[c].response, TRUE) \in Responses
    BY <1>1, WithOkType, Zenon
  <1> QED
    BY <1>2, <1>3, <1>4, Zenon DEF Served

\* The tables after a step hold what they held, and every call that waits.
Kept(tbls) ==
  /\ DOMAIN pending' = Tables
  /\ \A t \in Tables :
       /\ \A id \in DOMAIN pending'[t] : id \in DOMAIN tbls[t] /\ pending'[t][id] = tbls[t][id]
       /\ \A id \in DOMAIN tbls[t] : calls'[tbls[t][id]].phase = "Waiting" => id \in DOMAIN pending'[t]

\* retain drops the entries of calls that no longer wait, and no others.
LEMMA RetainKeeps ==
  ASSUME NEW tbls, pending' = retain(tbls, calls')
  PROVE  Kept(tbls)
  BY Zenon DEF retain, Kept

\* A step of the loop that serves calls and takes nothing from the channel.
Serves ==
  /\ calls' \in [Calls -> CallStates] /\ \A c \in Calls : Served(c)
  /\ Kept(pending)
  /\ channel' \in {channel, << >>}
  /\ UNCHANGED <<next_id, written>>

\* The table of a call depends on its operation only.
LEMMA TableKept ==
  ASSUME NEW c \in Calls, calls'[c].op = calls[c].op
  PROVE  table(c)' = table(c)
  BY Zenon DEF table

\* Answering calls and dropping entries keeps the tables and the channel sound.
LEMMA ServesInv ==
  ASSUME IInv, Serves
  PROVE  /\ \A c \in Calls : table(c)' = table(c)
         /\ ChannelInv' /\ RequestsInv' /\ PendingInv' /\ WaitingCallsArePending'
         /\ channel' \in Seq(Calls) /\ Len(channel') <= COMMAND_CAPACITY
         /\ DOMAIN pending' = Tables
         /\ \A t \in Tables : \A id \in DOMAIN pending'[t] : id \in 1 .. MAX_ID /\ pending'[t][id] \in Calls
  <1>1. /\ ControlTypeOK /\ ChannelInv /\ RequestsInv /\ PendingInv /\ WaitingCallsArePending
        /\ channel \in Seq(Calls) /\ Len(channel) <= COMMAND_CAPACITY /\ COMMAND_CAPACITY \in Nat
        /\ \A t \in Tables : \A id \in DOMAIN pending[t] : id \in 1 .. MAX_ID /\ pending[t][id] \in Calls
    BY ControlAssumption, Zenon DEF IInv, ControlTypeOK
  <1>2. /\ \A c \in Calls : Served(c)
        /\ channel' = channel \/ channel' = << >>
        /\ written' = written /\ Kept(pending)
    BY Zenon DEF Serves
  <1>3. ASSUME NEW c \in Calls
        PROVE  /\ calls'[c].op = calls[c].op /\ calls'[c].command = calls[c].command
               /\ \/ calls'[c].phase = calls[c].phase
                  \/ /\ calls[c].phase \in {"Queued", "Firing", "Waiting"} /\ calls'[c].phase = "Answered"
                     /\ calls[c].phase = "Queued" => channel' = << >>
               /\ table(c)' = table(c)
    BY <1>1, <1>2, ServedFacts, TableKept, Zenon
  <1>4. ChannelInv'
    <2>1. CASE channel' = << >>
      BY <2>1 DEF ChannelInv
    <2>2. CASE channel' = channel /\ channel' # << >>
      <3>1. \A i \in 1 .. Len(channel) : channel[i] \in Calls
        BY <1>1
      <3> QED
        BY <1>1, <1>3, <2>2, <3>1 DEF ChannelInv
    <2> QED
      BY <1>2, <2>1, <2>2, Zenon
  <1>5. RequestsInv'
    <2> SUFFICES ASSUME NEW c \in Calls
                 PROVE  /\ calls'[c].phase = "Idle" \/ calls'[c].op \in Operations
                        /\ calls'[c].phase = "Firing" => calls'[c].command = "Fire"
                        /\ \/ calls'[c].phase = "Idle"
                           \/ calls'[c].command = "Request" /\ calls'[c].phase = "Sending"
                           \/ calls'[c].command = "Request" /\ \E i \in 1 .. Len(channel') : channel'[i] = c
                           \/ calls'[c].command = "Fire" /\ calls'[c].op.kind = "Stop"
                           => c \notin Writers'
      BY Zenon DEF RequestsInv
    <2>1. Writers' = Writers
      BY <1>2, Zenon DEF Writers
    <2>2. (\E i \in 1 .. Len(channel') : channel'[i] = c) => \E i \in 1 .. Len(channel) : channel[i] = c
      BY <1>2
    <2>3. /\ calls[c].phase = "Idle" \/ calls[c].op \in Operations
          /\ calls[c].phase = "Firing" => calls[c].command = "Fire"
          /\ \/ calls[c].phase = "Idle"
             \/ calls[c].command = "Request" /\ calls[c].phase = "Sending"
             \/ calls[c].command = "Request" /\ \E i \in 1 .. Len(channel) : channel[i] = c
             \/ calls[c].command = "Fire" /\ calls[c].op.kind = "Stop"
             => c \notin Writers
      BY <1>1, Zenon DEF RequestsInv
    <2> QED
      BY <1>3, <2>1, <2>2, <2>3, Zenon
  <1>6. PendingInv'
    <2> SUFFICES ASSUME NEW t \in Tables, NEW id \in DOMAIN pending'[t]
                 PROVE  [call |-> pending'[t][id], id |-> id] \in written' /\ table(pending[t][id])' = t
      BY Zenon DEF PendingInv
    <2>1. id \in DOMAIN pending[t] /\ pending'[t][id] = pending[t][id]
      BY <1>2, Zenon DEF Kept
    <2>2. pending[t][id] \in Calls /\ [call |-> pending[t][id], id |-> id] \in written /\ table(pending[t][id]) = t
      BY <1>1, <2>1, Zenon DEF PendingInv
    <2>3. table(pending[t][id])' = t
      BY <1>3, <2>1, <2>2, Zenon DEF table
    <2> QED
      BY <1>2, <2>1, <2>2, <2>3, Zenon
  <1>7. WaitingCallsArePending'
    <2> SUFFICES ASSUME NEW c \in Calls, calls'[c].phase = "Waiting"
                 PROVE  \E id \in DOMAIN pending'[table(c)'] :
                          pending'[table(c)'][id] = c /\ [call |-> c, id |-> id] \in written'
      BY Zenon DEF WaitingCallsArePending
    <2>1. calls[c].phase = "Waiting" /\ table(c)' = table(c)
      BY <1>3, Zenon
    <2>2. PICK id \in DOMAIN pending[table(c)] : pending[table(c)][id] = c /\ [call |-> c, id |-> id] \in written
      BY <1>1, <2>1, Zenon DEF WaitingCallsArePending
    <2>3. table(c) \in Tables
      BY Zenon DEF table, Tables
    <2>4. id \in DOMAIN pending'[table(c)] /\ pending'[table(c)][id] = c
      BY <1>2, <2>2, <2>3, Zenon DEF Kept
    <2> QED
      BY <1>2, <2>1, <2>2, <2>4, Zenon
  <1>8. channel' \in Seq(Calls) /\ Len(channel') <= COMMAND_CAPACITY
    <2>1. CASE channel' = channel
      BY <1>1, <2>1, Zenon
    <2>2. CASE channel' = << >>
      BY <1>1, <2>2
    <2> QED
      BY <1>2, <2>1, <2>2, Zenon
  <1>9. /\ DOMAIN pending' = Tables
        /\ \A t \in Tables : \A id \in DOMAIN pending'[t] : id \in 1 .. MAX_ID /\ pending'[t][id] \in Calls
    BY <1>1, <1>2, Zenon DEF Kept
  <1> QED
    BY <1>3, <1>4, <1>5, <1>6, <1>7, <1>8, <1>9, Zenon

Shows(c) == calls[c].response.shows

\* The end of the loop answers every call that is not over.
LEMMA EndServed ==
  ASSUME IInv, NEW reason, End(reason)
  PROVE  /\ calls' \in [Calls -> CallStates] /\ Kept(pending)
         /\ \A t \in Tables : DOMAIN pending'[t] = {}
         /\ \A c \in Calls : Served(c) /\ Shows(c)' = Shows(c) /\ calls'[c].phase # "Waiting"
  <1>1. ControlTypeOK
    BY Zenon DEF IInv
  <1>2. ASSUME NEW c \in Calls
        PROVE  /\ Served(c) /\ calls'[c] \in CallStates /\ Shows(c)' = Shows(c)
               /\ calls'[c].phase # "Waiting"
    <2>1. CASE calls[c].phase \in {"Queued", "Firing", "Waiting"}
      <3>1. /\ calls'[c] = answered(calls[c], with_ok(calls[c].response, FALSE)) /\ channel' = << >>
            /\ calls[c] \in CallStates /\ calls[c].response \in Responses
        BY <1>1, <2>1, CallFacts, Zenon DEF End, answered, with_ok, CallStates, Responses
      <3>2. Served(c)
        BY <2>1, <3>1, Zenon DEF Served
      <3> DEFINE r == with_ok(calls[c].response, FALSE)
      <3>3. r \in Responses /\ r.shows = Shows(c) /\ calls'[c] = answered(calls[c], r)
        BY <3>1, WithOkType, Zenon DEF Shows
      <3>4. calls'[c] \in CallStates /\ calls'[c].phase = "Answered" /\ calls'[c].response.shows = Shows(c)
        <4> HIDE DEF r
        <4>1. /\ answered(calls[c], r) \in CallStates
              /\ answered(calls[c], r).phase = "Answered" /\ answered(calls[c], r).response = r
          BY <3>1, <3>3, AnsweredType, Zenon
        <4> QED
          BY <3>3, <4>1, Zenon
      <3> QED
        BY <3>2, <3>4, Zenon DEF Shows
    <2>2. CASE calls[c].phase \notin {"Queued", "Firing", "Waiting"}
      <3>1. calls'[c] = calls[c] /\ calls[c] \in CallStates
        BY <1>1, <2>2, CallFacts, Zenon DEF End
      <3> QED
        BY <2>2, <3>1, Zenon DEF Served, Shows
    <2> QED
      BY <2>1, <2>2, Zenon
  <1>3. calls' \in [Calls -> CallStates]
    <2>1. calls' = [c \in Calls |-> calls'[c]]
      BY Zenon DEF End
    <2> QED
      BY <1>2, <2>1, Zenon
  <1>4. DOMAIN pending' = Tables /\ \A t \in Tables : DOMAIN pending'[t] = {}
    <2>1. pending' = [t \in Tables |-> << >>]
      BY Zenon DEF End
    <2>2. DOMAIN << >> = {}
      OBVIOUS
    <2> QED
      BY <2>1, <2>2, Zenon
  <1>5. Kept(pending)
    <2>1. \A t \in Tables : \A id \in DOMAIN pending[t] : pending[t][id] \in Calls
      BY <1>1, Zenon DEF ControlTypeOK
    <2> QED
      BY <1>2, <1>4, <2>1, Zenon DEF Kept
  <1> QED
    BY <1>2, <1>3, <1>4, <1>5, Zenon

\* The end of the loop answers calls and drops entries, and enters none.
LEMMA EndServes ==
  ASSUME IInv, NEW reason, End(reason), UNCHANGED <<next_id, written>>
  PROVE  Serves /\ \A c \in Calls : Shows(c)' = Shows(c)
  BY EndServed, Zenon DEF End, Serves

\* A message answers some of the calls that wait.
LEMMA RespondServes ==
  ASSUME IInv, NEW who, NEW responses, DOMAIN responses = who,
         \A c \in who : responses[c] \in Responses,
         Continue(respond(calls, responses), pending), UNCHANGED <<channel, next_id, written>>
  PROVE  /\ Serves
         /\ \A c \in Calls : \/ calls'[c] = calls[c]
                             \/ c \in who /\ calls[c].phase = "Waiting" /\ calls'[c] = answered(calls[c], responses[c])
  <1>1. ControlTypeOK /\ calls' = respond(calls, responses) /\ pending' = retain(pending, calls')
    BY Zenon DEF IInv, Continue
  <1>2. ASSUME NEW c \in Calls
        PROVE  \/ calls'[c] = calls[c]
               \/ c \in who /\ calls[c].phase = "Waiting" /\ calls'[c] = answered(calls[c], responses[c])
    BY <1>1, Zenon DEF respond, answered
  <1>3. ASSUME NEW c \in Calls PROVE Served(c)
    BY <1>2, Zenon DEF Served
  <1>4. calls' \in [Calls -> CallStates]
    <2>1. calls' = [c \in Calls |-> calls'[c]]
      BY <1>1, Zenon DEF respond
    <2> QED
      BY <1>1, <1>3, <2>1, ServedFacts, Zenon
  <1> QED
    BY <1>1, <1>2, <1>3, <1>4, RetainKeeps, Zenon DEF Serves

\* The write of a SendFire has ended.
LEMMA FiredServes ==
  ASSUME IInv, \/ calls' = calls /\ pending' = pending
               \/ calls' \in {calls, fired(calls)} /\ pending' = retain(pending, calls'),
         UNCHANGED <<channel, next_id, written>>
  PROVE  Serves /\ \A c \in Calls : Shows(c)' = Shows(c)
  <1>1. ControlTypeOK /\ calls \in [Calls -> CallStates]
    BY Zenon DEF IInv, ControlTypeOK
  <1>2. ASSUME NEW c \in Calls PROVE Served(c) /\ Shows(c)' = Shows(c)
    <2>1. CASE calls'[c] = calls[c]
      BY <2>1, Zenon DEF Served, Shows
    <2>2. CASE calls' = fired(calls) /\ calls[c].phase = "Firing"
      <3>1. /\ calls'[c] = answered(calls[c], with_ok(calls[c].response, TRUE))
            /\ calls[c] \in CallStates /\ calls[c].response \in Responses
        BY <1>1, <2>2, CallFacts, Zenon DEF fired, answered, with_ok, CallStates, Responses
      <3>2. Served(c)
        BY <2>2, <3>1, Zenon DEF Served
      <3> DEFINE r == with_ok(calls[c].response, TRUE)
      <3>3. r \in Responses /\ r.shows = Shows(c) /\ calls'[c] = answered(calls[c], r)
        BY <3>1, WithOkType, Zenon DEF Shows
      <3>4. calls'[c] \in CallStates /\ calls'[c].phase = "Answered" /\ calls'[c].response.shows = Shows(c)
        <4> HIDE DEF r
        <4>1. /\ answered(calls[c], r) \in CallStates
              /\ answered(calls[c], r).phase = "Answered" /\ answered(calls[c], r).response = r
          BY <3>1, <3>3, AnsweredType, Zenon
        <4> QED
          BY <3>3, <4>1, Zenon
      <3> QED
        BY <3>2, <3>4, Zenon DEF Shows
    <2>3. CASE calls' = fired(calls) /\ calls[c].phase # "Firing"
      BY <2>1, <2>3, Zenon DEF fired
    <2> QED
      BY <2>1, <2>2, <2>3, Zenon
  <1>3. calls' \in [Calls -> CallStates]
    <2>1. CASE calls' = calls
      BY <1>1, <2>1, Zenon
    <2>2. CASE calls' = fired(calls)
      <3>1. calls' = [c \in Calls |-> calls'[c]]
        BY <2>2, Zenon DEF fired
      <3> QED
        BY <1>1, <1>2, <3>1, ServedFacts, Zenon
    <2> QED
      BY <2>1, <2>2, Zenon
  <1>4. Kept(pending)
    <2>1. CASE pending' = pending
      BY <1>1, <2>1, Zenon DEF Kept, ControlTypeOK
    <2>2. CASE pending' = retain(pending, calls')
      BY <2>2, RetainKeeps, Zenon
    <2> QED
      BY <2>1, <2>2, Zenon
  <1> QED
    BY <1>2, <1>3, <1>4, Zenon DEF Serves
-----------------------------------------------------------------------------
\* What a close has done about an application nobody was told of.
TornDown(t) ==
  t \notin stopped => <<"CLOSE", t>> \in torn_down /\ (t \in session_ids => <<"STOP", t>> \in torn_down)

\* Applications: while the loop goes on, what was shown is known or stopped.
LEMMA ShownStep ==
  ASSUME LaunchedAppsAreStopped, result' = result,
         (known \cup stopped) \subseteq (known \cup stopped)',
         Running \/ UNCHANGED <<session_ids, stopped, torn_down>>,
         \A c \in Calls : \/ Shows(c)' \in {Shows(c), None}
                          \/ Running /\ Shows(c)' \in known'
  PROVE  LaunchedAppsAreStopped'
  <1> SUFFICES ASSUME NEW c \in Calls, Shows(c)' # None
               PROVE  /\ Running' => Shows(c)' \in (known \cup stopped)'
                      /\ (result' = "Requested") => TornDown(Shows(c))'
    BY Zenon DEF LaunchedAppsAreStopped, Shows, TornDown
  <1>1. Shows(c) # None => /\ Running => Shows(c) \in known \cup stopped
                           /\ result = "Requested" => TornDown(Shows(c))
    BY Zenon DEF LaunchedAppsAreStopped, Shows, TornDown
  <1>2. CASE Running
    BY <1>1, <1>2, Zenon DEF Running
  <1>3. CASE ~Running
    BY <1>1, <1>3, Zenon DEF Running, TornDown
  <1> QED
    BY <1>2, <1>3, Zenon

\* When it ends on request, all that is known is torn down.
LEMMA ShownEnd ==
  ASSUME LaunchedAppsAreStopped, Running, NEW reason, result' = reason, reason # "Running",
         reason = "Requested" => torn_down' = send_teardown(known), UNCHANGED <<session_ids, stopped>>,
         \A c \in Calls : Shows(c)' = Shows(c)
  PROVE  LaunchedAppsAreStopped'
  <1> SUFFICES ASSUME NEW c \in Calls, Shows(c)' # None
               PROVE  /\ Running' => Shows(c)' \in (known \cup stopped)'
                      /\ (result' = "Requested") => TornDown(Shows(c))'
    BY Zenon DEF LaunchedAppsAreStopped, Shows, TornDown
  <1>1. Shows(c) # None => Shows(c) \in known \cup stopped
    BY Zenon DEF LaunchedAppsAreStopped, Shows
  <1>2. \A t \in known : /\ <<"CLOSE", t>> \in send_teardown(known)
                         /\ t \in session_ids => <<"STOP", t>> \in send_teardown(known)
    BY Zenon DEF send_teardown
  <1> QED
    BY <1>1, <1>2, Zenon DEF Running, TornDown
-----------------------------------------------------------------------------
\* The types of what Serves says nothing of.
RestOK ==
  /\ known_apps \in [Transports -> Apps \cup {None}]
  /\ session_ids \subseteq Transports /\ stopped \subseteq Transports
  /\ torn_down \subseteq {"CLOSE", "STOP"} \X Transports
  /\ heartbeat \in [due : 1 .. HEARTBEAT_INTERVAL, ready : BOOLEAN, since : 0 .. HEARTBEAT_TIMEOUT,
                    unread : {None, "PING", "PONG"}]
  /\ quiet \in 0 .. HEARTBEAT_TIMEOUT /\ blocked \in 0 .. MaxBlocked
  /\ owner \in {"Open", "Closing", "Dropped"}
  /\ result \in {"Running", "Requested", "PeerClosed", "HeartbeatTimeout", "Error"}

\* What a step that serves has to show besides.
LEMMA RestFacts ==
  ASSUME IInv
  PROVE  RestOK /\ LaunchedAppsAreStopped
  BY Zenon DEF IInv, ControlTypeOK, RestOK

\* A step that serves keeps the invariant.
LEMMA ServesStep ==
  ASSUME IInv, Serves, RestOK', LaunchedAppsAreStopped'
  PROVE  IInv'
  <1>1. next_id' \in [Tables -> 1 .. MAX_ID] /\ written' \subseteq [call : Calls, id : 1 .. MAX_ID]
    BY Zenon DEF IInv, ControlTypeOK, Serves
  <1>2. ControlTypeOK'
    BY <1>1, ServesInv, Zenon DEF ControlTypeOK, RestOK, Serves
  <1> QED
    BY <1>2, ServesInv, Zenon DEF IInv

\* A step that ends the loop, but for send_teardown.
LEMMA EndStep ==
  ASSUME IInv, Running, NEW reason \in {"PeerClosed", "HeartbeatTimeout", "Error"}, End(reason),
         UNCHANGED <<next_id, written, apps, owner>>,
         heartbeat' \in [due : 1 .. HEARTBEAT_INTERVAL, ready : BOOLEAN, since : 0 .. HEARTBEAT_TIMEOUT,
                         unread : {None, "PING", "PONG"}],
         quiet' \in 0 .. HEARTBEAT_TIMEOUT, blocked' \in 0 .. MaxBlocked
  PROVE  IInv'
  <1>1. RestOK /\ LaunchedAppsAreStopped
    BY RestFacts, Zenon
  <1>2. Serves /\ \A c \in Calls : Shows(c)' = Shows(c)
    BY EndServes, Zenon
  <1>3. result' = reason /\ UNCHANGED <<known_apps, session_ids, stopped, torn_down>> /\ owner' = owner
    BY Zenon DEF End, apps
  <1>4. LaunchedAppsAreStopped'
    BY <1>1, <1>2, <1>3, ShownEnd, Zenon
  <1>5. RestOK'
    BY <1>1, <1>3, Zenon DEF RestOK
  <1> QED
    BY <1>2, <1>4, <1>5, ServesStep, Zenon

\* write_json_message_timed of a heartbeat.
LEMMA WriteStep ==
  ASSUME IInv, Running, Write(calls, pending, channel), UNCHANGED <<next_id, written, apps, owner>>,
         heartbeat' \in [due : 1 .. HEARTBEAT_INTERVAL, ready : BOOLEAN, since : 0 .. HEARTBEAT_TIMEOUT,
                         unread : {None, "PING", "PONG"}],
         quiet' \in 0 .. HEARTBEAT_TIMEOUT
  PROVE  IInv'
  <1>1. RestOK /\ LaunchedAppsAreStopped /\ MaxBlocked \in Nat
    BY RestFacts, ControlAssumption, Zenon
  <1>2. CASE End("Error") /\ UNCHANGED blocked
    <2>1. blocked' \in 0 .. MaxBlocked
      BY <1>1, <1>2, Zenon DEF RestOK
    <2> QED
      BY <1>2, <2>1, EndStep, Zenon
  <1>3. CASE /\ \/ calls' = calls /\ pending' = pending
                \/ calls' \in {calls, fired(calls)} /\ pending' = retain(pending, calls')
             /\ channel' = channel /\ result' = result /\ blocked' \in 0 .. MaxBlocked
    <2>1. Serves /\ \A c \in Calls : Shows(c)' = Shows(c)
      BY <1>3, FiredServes, Zenon
    <2>2. UNCHANGED <<known_apps, session_ids, stopped, torn_down>> /\ owner' = owner
      BY Zenon DEF apps
    <2>3. LaunchedAppsAreStopped'
      <3>1. (known \cup stopped)' = known \cup stopped
        BY <2>2, Zenon DEF known
      <3> QED
        BY <1>1, <1>3, <2>1, <2>2, <3>1, ShownStep, Zenon
    <2>4. RestOK'
      BY <1>1, <1>3, <2>2, Zenon DEF RestOK
    <2> QED
      BY <2>1, <2>3, <2>4, ServesStep, Zenon
  <1> QED
    BY <1>1, <1>2, <1>3 DEF Write, Continue
-----------------------------------------------------------------------------
\* The steps of the loop that take nothing from the channel.
LEMMA WriteFailsStep ==
  ASSUME IInv, WriteFails PROVE IInv'
  <1>1. RestOK /\ 0 \in 0 .. MaxBlocked
    BY RestFacts, ControlAssumption
  <1> QED
    BY <1>1, EndStep, Zenon DEF WriteFails, clock, RestOK

\* The connection ends.
LEMMA DisconnectStep ==
  ASSUME IInv, NEW reason \in {"PeerClosed", "Error"}, Disconnect(reason) PROVE IInv'
  <1>1. RestOK
    BY RestFacts, Zenon
  <1> QED
    BY <1>1, EndStep, Zenon DEF Disconnect, Reading, Selecting, clock, RestOK

\* The loop takes a close command.
LEMMA TakeCloseStep ==
  ASSUME IInv, TakeClose PROVE IInv'
  <1>1. RestOK /\ LaunchedAppsAreStopped /\ Running
    BY RestFacts, Zenon DEF TakeClose, Selecting
  <1>2. PICK reason \in {"Requested", "Error"} :
          /\ End(reason) /\ torn_down' \subseteq {"CLOSE", "STOP"} \X Transports
          /\ reason = "Requested" => torn_down' = send_teardown(known)
    <2>1. \A done \in SUBSET known, last \in SUBSET known :
            send_teardown(done) \cup ({"CLOSE"} \X last) \subseteq {"CLOSE", "STOP"} \X Transports
      BY Zenon DEF send_teardown, known
    <2>2. send_teardown(known) \subseteq {"CLOSE", "STOP"} \X Transports
      BY Zenon DEF send_teardown, known
    <2> QED
      BY <2>1, <2>2, Zenon DEF TakeClose
  <1>3. Serves /\ \A c \in Calls : Shows(c)' = Shows(c)
    BY <1>2, EndServes, Zenon DEF TakeClose
  <1>4. LaunchedAppsAreStopped'
    BY <1>1, <1>2, <1>3, ShownEnd, Zenon DEF TakeClose, End
  <1>5. RestOK'
    BY <1>1, <1>2, Zenon DEF RestOK, TakeClose, End, clock, known
  <1> QED
    BY <1>3, <1>4, <1>5, ServesStep, Zenon

\* A heartbeat message arrives.
LEMMA HeartbeatArrivesStep ==
  ASSUME IInv, NEW kind \in {"PING", "PONG"}, HeartbeatArrives(kind) PROVE IInv'
  <1>1. RestOK /\ LaunchedAppsAreStopped /\ HEARTBEAT_TIMEOUT \in Nat
    BY RestFacts, ControlAssumption, Zenon
  <1>2. /\ calls' = calls /\ pending' = pending /\ channel' = channel /\ next_id' = next_id /\ written' = written
        /\ UNCHANGED <<known_apps, session_ids, stopped, torn_down>> /\ result' = result
    BY Zenon DEF HeartbeatArrives, tables, apps
  <1>3. Serves /\ \A c \in Calls : Shows(c)' = Shows(c)
    BY <1>2, FiredServes, Zenon
  <1>4. LaunchedAppsAreStopped'
    <2>1. (known \cup stopped)' = known \cup stopped
      BY <1>2, Zenon DEF known
    <2> QED
      BY <1>1, <1>2, <1>3, <2>1, ShownStep, Zenon
  <1>5. RestOK'
    BY <1>1, <1>2 DEF RestOK, HeartbeatArrives
  <1> QED
    BY <1>3, <1>4, <1>5, ServesStep, Zenon

\* Time passes.
LEMMA TickStep ==
  ASSUME IInv, Tick PROVE IInv'
  <1>1. /\ RestOK /\ LaunchedAppsAreStopped
        /\ HEARTBEAT_TIMEOUT \in Nat \ {0} /\ HEARTBEAT_INTERVAL \in Nat \ {0} /\ MaxBlocked \in Nat
    BY RestFacts, ControlAssumption, Zenon
  <1>2. /\ channel' = channel /\ next_id' = next_id /\ written' = written /\ owner' = owner
        /\ UNCHANGED <<known_apps, session_ids, stopped, torn_down>> /\ result' = result
        /\ \/ calls' = calls /\ pending' = pending
           \/ calls' \in {calls, fired(calls)} /\ pending' = retain(pending, calls')
    BY Zenon DEF Tick, Continue, apps
  <1>3. Serves /\ \A c \in Calls : Shows(c)' = Shows(c)
    BY <1>2, FiredServes, Zenon
  <1>4. LaunchedAppsAreStopped'
    <2>1. (known \cup stopped)' = known \cup stopped
      BY <1>2, Zenon DEF known
    <2> QED
      BY <1>1, <1>2, <1>3, <2>1, ShownStep, Zenon
  <1>5. RestOK'
    <2>1. /\ blocked' \in 0 .. MaxBlocked
          /\ quiet' \in 0 .. HEARTBEAT_TIMEOUT
      BY <1>1 DEF RestOK, Tick
    <2> DEFINE due == IF heartbeat.due = 1 THEN HEARTBEAT_INTERVAL ELSE heartbeat.due - 1
               ready == heartbeat.ready \/ heartbeat.due = 1
               since == IF heartbeat.since < HEARTBEAT_TIMEOUT THEN heartbeat.since + 1 ELSE heartbeat.since
    <2>2. heartbeat' = [due |-> due, ready |-> ready, since |-> since, unread |-> heartbeat.unread]
      BY <1>1, Zenon DEF RestOK, Tick
    <2>3. /\ due \in 1 .. HEARTBEAT_INTERVAL /\ since \in 0 .. HEARTBEAT_TIMEOUT
          /\ heartbeat.unread \in {None, "PING", "PONG"}
      BY <1>1 DEF RestOK
    <2>4. ready \in BOOLEAN
      BY <1>1, Zenon DEF RestOK
    <2> HIDE DEF due, ready, since
    <2>5. heartbeat' \in [due : 1 .. HEARTBEAT_INTERVAL, ready : BOOLEAN, since : 0 .. HEARTBEAT_TIMEOUT,
                          unread : {None, "PING", "PONG"}]
      BY <2>2, <2>3, <2>4, Zenon
    <2> QED
      BY <1>1, <1>2, <2>1, <2>5, Zenon DEF RestOK
  <1> QED
    BY <1>3, <1>4, <1>5, ServesStep, Zenon

\* The heartbeat timer fires.
LEMMA HeartbeatTickStep ==
  ASSUME IInv, HeartbeatTick PROVE IInv'
  <1>1. RestOK /\ Running
    BY RestFacts, Zenon DEF HeartbeatTick, Selecting
  <1>2. /\ heartbeat' \in [due : 1 .. HEARTBEAT_INTERVAL, ready : BOOLEAN, since : 0 .. HEARTBEAT_TIMEOUT,
                           unread : {None, "PING", "PONG"}]
        /\ quiet' \in 0 .. HEARTBEAT_TIMEOUT /\ blocked \in 0 .. MaxBlocked
    BY <1>1, Zenon DEF RestOK, HeartbeatTick
  <1>3. CASE End("HeartbeatTimeout") /\ UNCHANGED blocked
    BY <1>1, <1>2, <1>3, EndStep, Zenon DEF HeartbeatTick
  <1>4. CASE Write(calls, pending, channel)
    BY <1>1, <1>2, <1>4, WriteStep, Zenon DEF HeartbeatTick
  <1> QED
    BY <1>3, <1>4, Zenon DEF HeartbeatTick

\* The loop reads a heartbeat message.
LEMMA ReadHeartbeatStep ==
  ASSUME IInv, ReadHeartbeat PROVE IInv'
  <1>1. RestOK /\ LaunchedAppsAreStopped /\ Running /\ HEARTBEAT_TIMEOUT \in Nat
    BY RestFacts, ControlAssumption, Zenon DEF ReadHeartbeat, Selecting
  <1>2. /\ heartbeat' \in [due : 1 .. HEARTBEAT_INTERVAL, ready : BOOLEAN, since : 0 .. HEARTBEAT_TIMEOUT,
                           unread : {None, "PING", "PONG"}]
        /\ quiet' \in 0 .. HEARTBEAT_TIMEOUT /\ blocked \in 0 .. MaxBlocked
    <2>1. /\ heartbeat \in [due : 1 .. HEARTBEAT_INTERVAL, ready : BOOLEAN, since : 0 .. HEARTBEAT_TIMEOUT,
                            unread : {None, "PING", "PONG"}]
          /\ heartbeat' = [heartbeat EXCEPT !.unread = None, !.since = 0] /\ 0 \in 0 .. HEARTBEAT_TIMEOUT
      BY <1>1 DEF RestOK, ReadHeartbeat
    <2> QED
      BY <1>1, <2>1, Zenon DEF RestOK, ReadHeartbeat
  <1>3. CASE Write(calls, pending, channel)
    BY <1>1, <1>2, <1>3, WriteStep, Zenon DEF ReadHeartbeat
  <1>4. CASE Continue(calls, pending) /\ UNCHANGED <<channel, blocked>>
    <2>1. /\ calls' = calls /\ pending' = retain(pending, calls') /\ channel' = channel /\ owner' = owner
          /\ next_id' = next_id /\ written' = written /\ blocked' = blocked
          /\ UNCHANGED <<known_apps, session_ids, stopped, torn_down>> /\ result' = result
      BY <1>4, Zenon DEF ReadHeartbeat, Continue, apps
    <2>2. Serves /\ \A c \in Calls : Shows(c)' = Shows(c)
      BY <2>1, FiredServes, Zenon
    <2>3. LaunchedAppsAreStopped'
      <3>1. (known \cup stopped)' = known \cup stopped
        BY <2>1, Zenon DEF known
      <3> QED
        BY <1>1, <2>1, <2>2, <3>1, ShownStep, Zenon
    <2>4. RestOK'
      BY <1>1, <1>2, <2>1, Zenon DEF RestOK
    <2> QED
      BY <2>2, <2>3, <2>4, ServesStep, Zenon
  <1> QED
    BY <1>3, <1>4, Zenon DEF ReadHeartbeat
-----------------------------------------------------------------------------
\* The messages of the receiver.
LEMMA ByType ==
  ASSUME IInv, NEW by \in written \cup {None}
  PROVE  (IF by = None THEN None ELSE by.call) \in Calls \cup {None}
  BY Zenon DEF IInv, ControlTypeOK

\* A response settles the requests it answers.
LEMMA SettleStep ==
  ASSUME IInv, NEW who, NEW ok \in BOOLEAN, NEW by \in written \cup {None}, Settle(who, ok, by)
  PROVE  IInv'
  <1> DEFINE r == [ok |-> ok, by |-> IF by = None THEN None ELSE by.call, shows |-> None]
             responses == [c \in who |-> r]
  <1>1. RestOK /\ LaunchedAppsAreStopped
    BY RestFacts, Zenon
  <1>2. r \in Responses /\ r.shows = None
    BY ByType, Zenon DEF Responses
  <1>3. /\ Continue(respond(calls, responses), pending) /\ result' = result /\ channel' = channel /\ owner' = owner
        /\ next_id' = next_id /\ written' = written /\ blocked' = blocked /\ heartbeat' = heartbeat /\ quiet' = quiet
        /\ UNCHANGED <<known_apps, session_ids, stopped, torn_down>>
    BY Zenon DEF Settle, Continue, apps, clock
  <1>4. DOMAIN responses = who /\ \A c \in who : responses[c] = r
    OBVIOUS
  <1> HIDE DEF r, responses
  <1>5. /\ Serves
        /\ \A c \in Calls : \/ calls'[c] = calls[c]
                            \/ c \in who /\ calls[c].phase = "Waiting" /\ calls'[c] = answered(calls[c], responses[c])
    BY <1>2, <1>3, <1>4, RespondServes
  <1>6. ASSUME NEW c \in Calls PROVE Shows(c)' \in {Shows(c), None}
    <2>1. CASE calls'[c] = calls[c]
      BY <2>1, Zenon DEF Shows
    <2>2. CASE calls'[c] = answered(calls[c], r)
      <3>1. calls[c] \in CallStates
        BY CallFacts, Zenon DEF IInv
      <3>2. answered(calls[c], r).response = r
        BY <1>2, <3>1, AnsweredType, Zenon
      <3> QED
        BY <1>2, <2>2, <3>2, Zenon DEF Shows
    <2> QED
      BY <1>4, <1>5, <2>1, <2>2, Zenon
  <1>7. LaunchedAppsAreStopped'
    <2>1. (known \cup stopped)' = known \cup stopped
      BY <1>3, Zenon DEF known
    <2> QED
      BY <1>1, <1>3, <1>6, <2>1, ShownStep, Zenon
  <1>8. RestOK'
    BY <1>1, <1>3, Zenon DEF RestOK
  <1> QED
    BY <1>5, <1>7, <1>8, ServesStep, Zenon

\* The transport a status shows an application at is one it lists.
LEMMA TransportListed ==
  ASSUME NEW listed \in [Transports -> Apps \cup {None}], NEW app \in Apps
  PROVE  transport_of(listed, app) = None
           \/ (transport_of(listed, app) \in Transports /\ listed[transport_of(listed, app)] # None)
  <1>1. app # None
    BY ControlAssumption, Zenon
  <1> QED
    BY <1>1, Zenon DEF transport_of

\* A receiver status arrives: launches are answered, applications that are gone
\* are forgotten.
LEMMA ReceiverStatusStep ==
  ASSUME IInv, NEW by \in written \cup {None}, NEW listed \in [Transports -> Apps \cup {None}],
         NEW sessions \in SUBSET {t \in Transports : listed[t] # None}, NEW starting,
         ReceiverStatus(by, listed, sessions, starting)
  PROVE  IInv'
  <1> DEFINE shown == ({listed[t] : t \in Transports} \ {None}) \cup starting
             who == completed_by_status(by, shown)
             r(c) == [ok |-> TRUE, by |-> IF by = None THEN None ELSE by.call,
                      shows |-> IF calls[c].op.kind = "Launch" THEN transport_of(listed, calls[c].op.of) ELSE None]
             responses == [c \in who |-> r(c)]
  <1>1. RestOK /\ LaunchedAppsAreStopped /\ Running
    BY RestFacts, Zenon DEF ReceiverStatus, Reading, Selecting
  <1>2. /\ Continue(respond(calls, responses), pending) /\ result' = result /\ channel' = channel /\ owner' = owner
        /\ next_id' = next_id /\ written' = written /\ blocked' = blocked /\ heartbeat' = heartbeat /\ quiet' = quiet
        /\ known_apps' = listed /\ session_ids' = sessions /\ torn_down' = torn_down
        /\ stopped' = {t \in stopped \cup known : listed[t] = None}
    BY Zenon DEF ReceiverStatus, Continue, publish_receiver_status, clock
  <1>3. known' = {t \in Transports : listed[t] # None}
    BY <1>2, Zenon DEF known
  <1>4. ASSUME NEW c PROVE r(c) \in Responses
    <2>1. transport_of(listed, calls[c].op.of) \in Transports \cup {None}
      BY Zenon DEF transport_of
    <2>2. (IF by = None THEN None ELSE by.call) \in Calls \cup {None}
      BY ByType, Zenon
    <2> QED
      BY <2>1, <2>2, Zenon DEF Responses
  <1>5. ASSUME NEW c \in Calls, calls[c].phase = "Waiting" PROVE r(c).shows \in known' \cup {None}
    <2>1. calls[c].op \in Operations
      BY <1>5, CallFacts, Zenon DEF IInv, RequestsInv
    <2>2. calls[c].op.kind = "Launch" => calls[c].op.of \in Apps
      BY <2>1, Zenon DEF Operations, Subjects
    <2> QED
      BY <1>3, <2>2, TransportListed, Zenon
  <1>6. DOMAIN responses = who /\ \A c \in who : responses[c] = r(c)
    OBVIOUS
  <1> HIDE DEF r, responses, who
  <1>7. /\ Serves
        /\ \A c \in Calls : \/ calls'[c] = calls[c]
                            \/ c \in who /\ calls[c].phase = "Waiting" /\ calls'[c] = answered(calls[c], responses[c])
    BY <1>2, <1>4, <1>6, RespondServes
  <1>8. ASSUME NEW c \in Calls PROVE Shows(c)' \in {Shows(c), None} \/ Shows(c)' \in known'
    <2>1. CASE calls'[c] = calls[c]
      BY <2>1, Zenon DEF Shows
    <2>2. CASE calls[c].phase = "Waiting" /\ calls'[c] = answered(calls[c], r(c))
      <3>1. calls[c] \in CallStates
        BY CallFacts, Zenon DEF IInv
      <3>2. answered(calls[c], r(c)).response = r(c)
        BY <1>4, <3>1, AnsweredType, Zenon
      <3> QED
        BY <1>5, <2>2, <3>2, Zenon DEF Shows
    <2> QED
      BY <1>6, <1>7, <2>1, <2>2, Zenon
  <1>9. LaunchedAppsAreStopped'
    <2>1. (known \cup stopped) \subseteq (known \cup stopped)'
      BY <1>1, <1>2, <1>3, Zenon DEF known, RestOK
    <2> QED
      BY <1>1, <1>2, <1>8, <2>1, ShownStep, Zenon
  <1>10. RestOK'
    BY <1>1, <1>2, Zenon DEF RestOK, known
  <1> QED
    BY <1>7, <1>9, <1>10, ServesStep, Zenon

\* An application closes its virtual connection.
LEMMA ApplicationCloseStep ==
  ASSUME IInv, NEW source \in Transports, ApplicationClose(source)
  PROVE  IInv'
  <1> DEFINE who == {o \in pending_calls("offers") : calls[o].op.of = source}
             responses == [c \in who |-> no_response]
  <1>1. RestOK /\ LaunchedAppsAreStopped /\ Running
    BY RestFacts, Zenon DEF ApplicationClose, Reading, Selecting
  <1>2. /\ Continue(respond(calls, responses), pending) /\ result' = result /\ channel' = channel /\ owner' = owner
        /\ next_id' = next_id /\ written' = written /\ blocked' = blocked /\ heartbeat' = heartbeat /\ quiet' = quiet
        /\ known_apps' = [known_apps EXCEPT ![source] = None] /\ torn_down' = torn_down
        /\ session_ids' = session_ids \ {source}
        /\ stopped' = stopped \cup ({source} \cap known)
    BY Zenon DEF ApplicationClose, Continue, clock
  <1>3. no_response \in Responses /\ no_response.shows = None
    BY Zenon DEF no_response, Responses
  <1>4. DOMAIN responses = who /\ \A c \in who : responses[c] = no_response
    OBVIOUS
  <1> HIDE DEF responses, who
  <1>5. /\ Serves
        /\ \A c \in Calls : \/ calls'[c] = calls[c]
                            \/ c \in who /\ calls[c].phase = "Waiting" /\ calls'[c] = answered(calls[c], responses[c])
    BY <1>2, <1>3, <1>4, RespondServes
  <1>6. ASSUME NEW c \in Calls PROVE Shows(c)' \in {Shows(c), None}
    <2>1. CASE calls'[c] = calls[c]
      BY <2>1, Zenon DEF Shows
    <2>2. CASE calls'[c] = answered(calls[c], no_response)
      <3>1. calls[c] \in CallStates
        BY CallFacts, Zenon DEF IInv
      <3>2. answered(calls[c], no_response).response = no_response
        BY <1>3, <3>1, AnsweredType, Zenon
      <3> QED
        BY <1>3, <2>2, <3>2, Zenon DEF Shows
    <2> QED
      BY <1>4, <1>5, <2>1, <2>2, Zenon
  <1>7. LaunchedAppsAreStopped'
    <2>1. (known \cup stopped) \subseteq (known \cup stopped)'
      BY <1>1, <1>2, Zenon DEF known, RestOK
    <2> QED
      BY <1>1, <1>2, <1>6, <2>1, ShownStep, Zenon
  <1>8. RestOK'
    BY <1>1, <1>2, Zenon DEF RestOK, known
  <1> QED
    BY <1>5, <1>7, <1>8, ServesStep, Zenon
-----------------------------------------------------------------------------
\* The steps of a caller change one call, and may put its command in the channel.
InChannel(c) == \E i \in 1 .. Len(channel) : channel[i] = c

\* What a step of one caller may change.
LEMMA CallerStep ==
  ASSUME IInv, NEW c \in Calls, NEW v \in CallStates, calls' = [calls EXCEPT ![c] = v],
         v.phase \in {"Sending", "Queued", "Done"}, v.op \in Operations,
         v.phase = "Done" \/ calls[c].phase \notin {"Queued", "Done"},
         v.op = calls[c].op \/ calls[c].phase = "Idle",
         v.response.shows \in {calls[c].response.shows, None},
         \/ channel' = channel
         \/ channel' = Append(channel, c) /\ v.phase = "Queued" /\ Len(channel) < COMMAND_CAPACITY
              /\ calls[c].phase = "Sending",
         \/ v.command = "Request" /\ (v.phase = "Sending" \/ InChannel(c)')
         \/ v.command = "Fire" /\ v.op.kind = "Stop"
         => c \notin Writers,
         UNCHANGED <<tables, apps, clock, blocked, result>>, owner' \in {"Open", "Closing", "Dropped"}
  PROVE  IInv'
  <1>1. /\ ControlTypeOK /\ ChannelInv /\ RequestsInv /\ PendingInv /\ WaitingCallsArePending
        /\ LaunchedAppsAreStopped /\ RestOK
        /\ channel \in Seq(Calls) /\ Len(channel) <= COMMAND_CAPACITY /\ COMMAND_CAPACITY \in Nat
    BY ControlAssumption, RestFacts, Zenon DEF IInv, ControlTypeOK
  <1>2. /\ pending' = pending /\ next_id' = next_id /\ written' = written /\ result' = result
        /\ UNCHANGED <<known_apps, session_ids, stopped, torn_down>>
        /\ heartbeat' = heartbeat /\ quiet' = quiet /\ blocked' = blocked
    BY Zenon DEF tables, apps, clock
  <1>3. calls \in [Calls -> CallStates] /\ calls' \in [Calls -> CallStates] /\ calls'[c] = v
    BY <1>1, Zenon DEF ControlTypeOK
  <1>4. \A d \in Calls : d # c => calls'[d] = calls[d]
    BY <1>3, Zenon
  <1>5. ASSUME NEW d \in Writers PROVE d \in Calls /\ table(d)' = table(d)
    <2>1. d \in Calls
      BY <1>1, Zenon DEF ControlTypeOK, Writers
    <2>2. calls[d].phase # "Idle"
      BY <1>1, <2>1, Zenon DEF RequestsInv
    <2>3. calls'[d].op = calls[d].op
      BY <1>3, <1>4, <2>1, <2>2, Zenon
    <2> QED
      BY <2>1, <2>3, Zenon DEF table
  <1>6. ChannelInv' /\ channel' \in Seq(Calls) /\ Len(channel') <= COMMAND_CAPACITY
    <2>1. \A i \in 1 .. Len(channel) : channel[i] \in Calls /\ calls'[channel[i]].phase \in {"Queued", "Done"}
      BY <1>1, <1>3, <1>4 DEF ChannelInv
    <2>2. CASE channel' = channel
      BY <1>1, <2>1, <2>2, Zenon DEF ChannelInv
    <2>3. CASE /\ channel' = Append(channel, c) /\ v.phase = "Queued" /\ Len(channel) < COMMAND_CAPACITY
               /\ calls[c].phase = "Sending"
      <3>1. /\ channel' \in Seq(Calls) /\ Len(channel') = Len(channel) + 1 /\ Len(channel) \in Nat
            /\ channel'[Len(channel) + 1] = c /\ \A i \in 1 .. Len(channel) : channel'[i] = channel[i]
        BY <1>1, <2>3
      <3>2. \A i \in 1 .. Len(channel) : channel[i] # c
        BY <1>1, <2>3, Zenon DEF ChannelInv
      <3>3. \A i \in 1 .. Len(channel') : calls'[channel'[i]].phase \in {"Queued", "Done"}
        BY <1>3, <2>1, <2>3, <3>1
      <3>4. \A i, j \in 1 .. Len(channel') : channel'[i] = channel'[j] => i = j
        BY <1>1, <3>1, <3>2 DEF ChannelInv
      <3> QED
        BY <1>1, <2>3, <3>1, <3>3, <3>4 DEF ChannelInv
    <2> QED
      BY <2>2, <2>3, Zenon
  <1>7. ASSUME NEW d \in Calls, d # c, InChannel(d)' PROVE InChannel(d)
    <2>1. PICK i \in 1 .. Len(channel') : channel'[i] = d
      BY <1>7, Zenon DEF InChannel
    <2>2. CASE channel' = channel
      BY <2>1, <2>2, Zenon DEF InChannel
    <2>3. CASE channel' = Append(channel, c)
      <3>1. Len(channel') = Len(channel) + 1 /\ channel'[Len(channel) + 1] = c /\ Len(channel) \in Nat
        BY <1>1, <2>3
      <3>2. i \in 1 .. Len(channel) /\ channel[i] = d
        BY <1>1, <1>7, <2>1, <2>3, <3>1
      <3> QED
        BY <3>2, Zenon DEF InChannel
    <2> QED
      BY <2>2, <2>3, Zenon
  <1>8. RequestsInv'
    <2> SUFFICES ASSUME NEW d \in Calls
                 PROVE  /\ calls'[d].phase = "Idle" \/ calls'[d].op \in Operations
                        /\ calls'[d].phase = "Firing" => calls'[d].command = "Fire"
                        /\ \/ calls'[d].phase = "Idle"
                           \/ calls'[d].command = "Request" /\ calls'[d].phase = "Sending"
                           \/ calls'[d].command = "Request" /\ InChannel(d)'
                           \/ calls'[d].command = "Fire" /\ calls'[d].op.kind = "Stop"
                           => d \notin Writers'
      BY Zenon DEF RequestsInv, InChannel
    <2>1. Writers' = Writers
      BY <1>2, Zenon DEF Writers
    <2>2. CASE d = c
      BY <1>3, <2>1, <2>2, Zenon
    <2>3. CASE d # c
      <3>1. /\ calls[d].phase = "Idle" \/ calls[d].op \in Operations
            /\ calls[d].phase = "Firing" => calls[d].command = "Fire"
            /\ \/ calls[d].phase = "Idle"
               \/ calls[d].command = "Request" /\ calls[d].phase = "Sending"
               \/ calls[d].command = "Request" /\ InChannel(d)
               \/ calls[d].command = "Fire" /\ calls[d].op.kind = "Stop"
               => d \notin Writers
        BY <1>1, Zenon DEF RequestsInv, InChannel
      <3> QED
        BY <1>4, <1>7, <2>1, <2>3, <3>1, Zenon
    <2> QED
      BY <2>2, <2>3, Zenon
  <1>9. PendingInv'
    <2> SUFFICES ASSUME NEW t \in Tables, NEW id \in DOMAIN pending[t]
                 PROVE  [call |-> pending[t][id], id |-> id] \in written /\ table(pending[t][id])' = t
      BY <1>2, Zenon DEF PendingInv, table
    <2>1. [call |-> pending[t][id], id |-> id] \in written /\ table(pending[t][id]) = t
      BY <1>1, Zenon DEF PendingInv
    <2>2. pending[t][id] \in Writers
      BY <2>1 DEF Writers
    <2>3. table(pending[t][id])' = table(pending[t][id])
      <3> DEFINE d == pending[t][id]
      <3>1. calls'[d].op = calls[d].op
        <4>1. d \in Calls /\ calls[d].phase # "Idle"
          BY <1>1, <1>5, <2>2, Zenon DEF RequestsInv
        <4> QED
          BY <1>3, <1>4, <4>1, Zenon
      <3> QED
        BY <1>2, <3>1, Zenon DEF table
    <2> QED
      BY <2>1, <2>3, Zenon
  <1>10. WaitingCallsArePending'
    <2> SUFFICES ASSUME NEW d \in Calls, calls'[d].phase = "Waiting"
                 PROVE  \E id \in DOMAIN pending'[table(d)'] :
                          pending'[table(d)'][id] = d /\ [call |-> d, id |-> id] \in written'
      BY Zenon DEF WaitingCallsArePending
    <2>1. d # c
      BY <1>3, Zenon
    <2>2. calls[d].phase = "Waiting" /\ table(d)' = table(d)
      BY <1>4, <2>1, Zenon DEF table
    <2> QED
      BY <1>1, <1>2, <2>2, Zenon DEF WaitingCallsArePending
  <1>11. LaunchedAppsAreStopped'
    <2>1. \A d \in Calls : Shows(d)' \in {Shows(d), None}
      BY <1>3, <1>4, Zenon DEF Shows
    <2>2. (known \cup stopped)' = known \cup stopped
      BY <1>2, Zenon DEF known
    <2> QED
      BY <1>1, <1>2, <2>1, <2>2, ShownStep, Zenon
  <1>12. ControlTypeOK'
    <2>1. RestOK'
      BY <1>1, <1>2, Zenon DEF RestOK
    <2> QED
      BY <1>1, <1>2, <1>3, <1>6, <2>1, Zenon DEF ControlTypeOK, RestOK
  <1> QED
    BY <1>6, <1>8, <1>9, <1>10, <1>11, <1>12, Zenon DEF IInv

\* A call is made.
LEMMA IssueStep ==
  ASSUME IInv, NEW c \in Calls, NEW op \in Operations, Issue(c, op) PROVE IInv'
  <1> DEFINE v == [op |-> op, command |-> first_command(op.kind), phase |-> "Sending", response |-> no_response]
  <1>1. RestOK /\ RequestsInv
    BY RestFacts, Zenon DEF IInv
  <1>2. v \in CallStates /\ v.phase = "Sending" /\ v.op = op /\ v.response.shows = None
    BY Zenon DEF CallStates, first_command, no_response
  <1>3. /\ calls' = [calls EXCEPT ![c] = v] /\ calls[c].phase = "Idle" /\ channel' = channel
        /\ UNCHANGED <<tables, apps, clock, blocked, result>> /\ owner' \in {"Open", "Closing", "Dropped"}
    BY <1>1, Zenon DEF Issue, RestOK
  <1>4. c \notin Writers
    BY <1>1, <1>3, Zenon DEF RequestsInv
  <1> HIDE DEF v
  <1> QED
    BY <1>2, <1>3, <1>4, CallerStep, Zenon

\* The same call, in a phase and with its response's ok as given.
moved(call, phase, ok) == [call EXCEPT !.phase = phase, !.response = with_ok(call.response, ok)]

\* A call that moves on keeps what it asked for.
LEMMA MovedType ==
  ASSUME NEW call \in CallStates, NEW ok \in BOOLEAN,
         NEW phase \in {"Idle", "Sending", "Queued", "Firing", "Waiting", "Answered", "Done"}
  PROVE  /\ moved(call, phase, ok) \in CallStates
         /\ moved(call, phase, ok).op = call.op /\ moved(call, phase, ok).command = call.command
         /\ moved(call, phase, ok).phase = phase
         /\ moved(call, phase, ok).response.shows = call.response.shows
  <1> DEFINE r == with_ok(call.response, ok)
  <1>1. call.response \in Responses
    BY Zenon DEF CallStates, Responses
  <1>2. r \in Responses /\ r.shows = call.response.shows
    BY <1>1, WithOkType, Zenon
  <1>3. moved(call, phase, ok) = [call EXCEPT !.phase = phase, !.response = r]
    BY Zenon DEF moved
  <1> HIDE DEF r
  <1> QED
    BY <1>2, <1>3, Zenon DEF CallStates, Responses

\* What is not idle has an operation, and a request that was sent or is queued
\* has not been written.
LEMMA BusyFacts ==
  ASSUME IInv, NEW c \in Calls, calls[c].phase # "Idle"
  PROVE  /\ calls[c] \in CallStates /\ calls[c].op \in Operations
         /\ InChannel(c) => calls[c].phase \in {"Queued", "Done"}
         /\ \/ calls[c].command = "Request" /\ (calls[c].phase = "Sending" \/ InChannel(c))
            \/ calls[c].command = "Fire" /\ calls[c].op.kind = "Stop"
            => c \notin Writers
  BY CallFacts, Zenon DEF IInv, RequestsInv, ChannelInv, InChannel

\* A call puts its command in the channel, or finds it closed.
LEMMA SendStep ==
  ASSUME IInv, NEW c \in Calls, Send(c) PROVE IInv'
  <1>1. /\ RestOK /\ calls[c].phase = "Sending" /\ UNCHANGED <<tables, apps, clock, blocked, result>>
        /\ owner' \in {"Open", "Closing", "Dropped"}
    BY RestFacts, Zenon DEF Send, RestOK
  <1>2. /\ calls[c] \in CallStates /\ calls[c].op \in Operations /\ ~InChannel(c)
        /\ calls[c].command = "Request" \/ (calls[c].command = "Fire" /\ calls[c].op.kind = "Stop") => c \notin Writers
    BY <1>1, BusyFacts, Zenon
  <1>3. CASE /\ Len(channel) < COMMAND_CAPACITY /\ channel' = Append(channel, c)
             /\ calls' = [calls EXCEPT ![c].phase = "Queued"]
    <2> DEFINE v == [calls[c] EXCEPT !.phase = "Queued"]
    <2>1. /\ v \in CallStates /\ v.phase = "Queued" /\ v.op = calls[c].op /\ v.command = calls[c].command
          /\ v.response.shows = calls[c].response.shows
      BY <1>2, Zenon DEF CallStates
    <2>2. calls' = [calls EXCEPT ![c] = v]
      BY <1>3, Zenon
    <2> HIDE DEF v
    <2> QED
      BY <1>1, <1>2, <1>3, <2>1, <2>2, CallerStep, Zenon
  <1>4. CASE channel' = channel /\ calls' = [calls EXCEPT ![c].phase = "Done", ![c].response.ok = FALSE]
    <2> DEFINE v == moved(calls[c], "Done", FALSE)
    <2>1. /\ v \in CallStates /\ v.phase = "Done" /\ v.op = calls[c].op /\ v.command = calls[c].command
          /\ v.response.shows = calls[c].response.shows
      BY <1>2, MovedType, Zenon
    <2>2. calls' = [calls EXCEPT ![c] = v]
      BY <1>2, <1>4, Zenon DEF moved, with_ok, CallStates
    <2> HIDE DEF v
    <2> QED
      BY <1>1, <1>2, <1>4, <2>1, <2>2, CallerStep, Zenon
  <1> QED
    BY <1>3, <1>4, Zenon DEF Send

\* A call times out or its future is dropped.
LEMMA GiveUpStep ==
  ASSUME IInv, NEW c \in Calls, GiveUp(c) PROVE IInv'
  <1>1. /\ RestOK /\ calls[c].phase \in {"Queued", "Firing", "Waiting"}
        /\ UNCHANGED <<tables, apps, clock, blocked, result>>
        /\ owner' \in {"Open", "Closing", "Dropped"} /\ channel' = channel
    BY RestFacts, Zenon DEF GiveUp, RestOK
  <1>2. /\ calls[c] \in CallStates /\ calls[c].op \in Operations
        /\ \/ calls[c].command = "Request" /\ InChannel(c)
           \/ calls[c].command = "Fire" /\ calls[c].op.kind = "Stop"
           => c \notin Writers
    BY <1>1, BusyFacts, Zenon
  <1> DEFINE v == moved(calls[c], "Done", FALSE)
  <1>3. /\ v \in CallStates /\ v.phase = "Done" /\ v.op = calls[c].op /\ v.command = calls[c].command
        /\ v.response.shows = calls[c].response.shows
    BY <1>2, MovedType, Zenon
  <1>4. calls' = [calls EXCEPT ![c] = v]
    BY <1>2, Zenon DEF GiveUp, moved, with_ok, CallStates
  <1>5. InChannel(c)' <=> InChannel(c)
    BY <1>1, Zenon DEF InChannel
  <1> HIDE DEF v
  <1> QED
    BY <1>1, <1>2, <1>3, <1>4, <1>5, CallerStep, Zenon

\* A call takes its result, or goes on to its next command.
LEMMA ProceedStep ==
  ASSUME IInv, NEW c \in Calls, Proceed(c) PROVE IInv'
  <1> DEFINE call == calls[c]
             launching == call.op.kind = "Launch" /\ call.command = "Request"
             stopping == call.op.kind = "Stop" /\ call.command = "Fire"
             command == IF launching THEN "Fire" ELSE "Request"
             v == moved([call EXCEPT !.command = command], "Sending", FALSE)
             w == moved(call, "Done", call.response.ok /\ ~launching)
  <1>1. /\ RestOK /\ calls[c].phase = "Answered" /\ UNCHANGED <<tables, apps, clock, blocked, result>>
        /\ owner' \in {"Open", "Closing", "Dropped"} /\ channel' = channel
    BY RestFacts, Zenon DEF Proceed, RestOK
  <1>2. /\ call \in CallStates /\ call.op \in Operations /\ ~InChannel(c)
        /\ call.command = "Fire" /\ call.op.kind = "Stop" => c \notin Writers
    BY <1>1, BusyFacts, Zenon
  <1>3. ~InChannel(c)'
    BY <1>1, <1>2, Zenon DEF InChannel
  <1>4. CASE (stopping \/ launching) /\ calls' = [calls EXCEPT ![c] = v]
    <2> DEFINE next == [call EXCEPT !.command = command]
    <2>1. /\ next \in CallStates /\ next.op = call.op /\ next.command = command
          /\ next.response.shows = call.response.shows /\ v = moved(next, "Sending", FALSE)
      BY <1>2, Zenon DEF CallStates
    <2>2. /\ v \in CallStates /\ v.phase = "Sending" /\ v.op = call.op /\ v.command = command
          /\ v.response.shows = call.response.shows
      <3> HIDE DEF next, v
      <3>1. /\ moved(next, "Sending", FALSE) \in CallStates
            /\ moved(next, "Sending", FALSE).op = next.op /\ moved(next, "Sending", FALSE).command = next.command
            /\ moved(next, "Sending", FALSE).phase = "Sending"
            /\ moved(next, "Sending", FALSE).response.shows = next.response.shows
        BY <2>1, MovedType, Zenon
      <3> QED
        BY <2>1, <3>1, Zenon
    <2>3. command = "Request" \/ (command = "Fire" /\ call.op.kind = "Stop") => c \notin Writers
      BY <1>2, <1>4, Zenon
    <2> HIDE DEF v, command
    <2> QED
      BY <1>1, <1>2, <1>3, <1>4, <2>2, <2>3, CallerStep, Zenon
  <1>5. CASE calls' = [calls EXCEPT ![c] = w]
    <2>1. (call.response.ok /\ ~launching) \in BOOLEAN
      OBVIOUS
    <2>2. /\ w \in CallStates /\ w.phase = "Done" /\ w.op = call.op /\ w.command = call.command
          /\ w.response.shows = call.response.shows
      BY <1>2, <2>1, MovedType, Zenon
    <2> HIDE DEF w
    <2> QED
      BY <1>1, <1>2, <1>3, <1>5, <2>2, CallerStep, Zenon
  <1>6. \/ (stopping \/ launching) /\ calls' = [calls EXCEPT ![c] = v]
        \/ calls' = [calls EXCEPT ![c] = w]
    BY <1>2, Zenon DEF Proceed, moved, with_ok, CallStates
  <1> QED
    BY <1>4, <1>5, <1>6, Zenon

\* The application drops the connection.
LEMMA DropConnectionStep ==
  ASSUME IInv, DropConnection PROVE IInv'
  <1>1. RestOK /\ LaunchedAppsAreStopped
    BY RestFacts, Zenon
  <1>2. /\ calls' = calls /\ pending' = pending /\ channel' = channel /\ next_id' = next_id /\ written' = written
        /\ UNCHANGED <<known_apps, session_ids, stopped, torn_down>> /\ result' = result
    BY Zenon DEF DropConnection, tables, apps
  <1>3. Serves /\ \A c \in Calls : Shows(c)' = Shows(c)
    BY <1>2, FiredServes, Zenon
  <1>4. LaunchedAppsAreStopped'
    <2>1. (known \cup stopped)' = known \cup stopped
      BY <1>2, Zenon DEF known
    <2> QED
      BY <1>1, <1>2, <1>3, <2>1, ShownStep, Zenon
  <1>5. RestOK'
    BY <1>1, <1>2, Zenon DEF RestOK, DropConnection, clock
  <1> QED
    BY <1>3, <1>4, <1>5, ServesStep, Zenon
-----------------------------------------------------------------------------
\* The steps that take the command of a call from the channel.  A request is
\* written and entered in its table; other calls may be answered meanwhile.
TakenCall(c, d) ==
  /\ calls'[d] \in CallStates
  /\ calls'[d].op = calls[d].op /\ calls'[d].command = calls[d].command
  /\ \/ calls'[d].phase = calls[d].phase
     \/ /\ calls[d].phase \in {"Queued", "Firing", "Waiting"} /\ calls'[d].phase = "Answered"
        /\ calls[d].phase = "Queued" => d = c \/ channel' = << >>
     \/ /\ d = c /\ calls[c].phase = "Queued"
        /\ calls'[d].phase = IF calls[c].command = "Request" THEN "Waiting" ELSE "Firing"

TakenRequest(c) ==
  /\ written \subseteq written'
  /\ \A request \in written' \ written : request.call = c /\ request.id \in 1 .. MAX_ID /\ calls[c].command = "Request"
  /\ written' \subseteq [call : Calls, id : 1 .. MAX_ID]
  /\ DOMAIN pending' = Tables
  /\ \A t \in Tables : \A id \in DOMAIN pending'[t] :
       \/ id \in DOMAIN pending[t] /\ pending'[t][id] = pending[t][id]
       \/ t = table(c) /\ pending'[t][id] = c /\ [call |-> c, id |-> id] \in written'
  /\ \A t \in Tables : \A id \in DOMAIN pending[t] : calls'[pending[t][id]].phase = "Waiting" =>
       id \in DOMAIN pending'[t] /\ pending'[t][id] = pending[t][id]
  /\ calls[c].phase = "Queued" /\ calls'[c].phase = "Waiting" =>
       \E id \in DOMAIN pending'[table(c)] : pending'[table(c)][id] = c /\ [call |-> c, id |-> id] \in written'

Takes(c) ==
  /\ channel # << >> /\ c = Head(channel) /\ channel' \in {Tail(channel), << >>}
  /\ calls[c].command \in {"Request", "Fire"}
  /\ calls' \in [Calls -> CallStates] /\ \A d \in Calls : TakenCall(c, d)
  /\ TakenRequest(c)
  /\ next_id' \in [Tables -> 1 .. MAX_ID]

\* The loop takes the command of one call and enters at most that call in a table.
LEMMA TakesStep ==
  ASSUME IInv, NEW c, Takes(c), RestOK', LaunchedAppsAreStopped'
  PROVE  IInv'
  <1>1. /\ ControlTypeOK /\ ChannelInv /\ RequestsInv /\ PendingInv /\ WaitingCallsArePending
        /\ channel \in Seq(Calls) /\ Len(channel) <= COMMAND_CAPACITY /\ COMMAND_CAPACITY \in Nat
        /\ \A t \in Tables : \A id \in DOMAIN pending[t] : id \in 1 .. MAX_ID /\ pending[t][id] \in Calls
    BY ControlAssumption, Zenon DEF IInv, ControlTypeOK
  <1>2. /\ c \in Calls /\ Len(channel) \in Nat \ {0} /\ channel[1] = c
        /\ channel' = Tail(channel) \/ channel' = << >>
        /\ calls[c].command \in {"Request", "Fire"} /\ TakenRequest(c)
    BY <1>1 DEF Takes
  <1>3. ASSUME NEW d \in Calls PROVE TakenCall(c, d) /\ table(d)' = table(d)
    BY Zenon DEF Takes, TakenCall, table
  <1>4. /\ channel' \in Seq(Calls) /\ Len(channel') < Len(channel) /\ Len(channel') \in Nat
        /\ \A i \in 1 .. Len(channel') : i + 1 \in 1 .. Len(channel) /\ channel'[i] = channel[i + 1]
    <2>1. CASE channel' = << >>
      BY <1>1, <1>2, <2>1
    <2>2. CASE channel' = Tail(channel)
      <3>1. Tail(channel) \in Seq(Calls) /\ Len(Tail(channel)) = Len(channel) - 1
        BY <1>1, <1>2
      <3>2. \A i \in 1 .. Len(Tail(channel)) : Tail(channel)[i] = channel[i + 1]
        BY <1>1, <1>2
      <3> QED
        BY <1>1, <1>2, <2>2, <3>1, <3>2
    <2> QED
      BY <1>2, <2>1, <2>2, Zenon
  <1>5. \A i \in 1 .. Len(channel') : channel'[i] # c /\ channel'[i] \in Calls
    <2> SUFFICES ASSUME NEW i \in 1 .. Len(channel') PROVE channel'[i] # c /\ channel'[i] \in Calls
      OBVIOUS
    <2>1. i + 1 \in 1 .. Len(channel) /\ 1 \in 1 .. Len(channel) /\ i + 1 # 1 /\ channel'[i] = channel[i + 1]
      BY <1>2, <1>4
    <2>2. channel[i + 1] # channel[1]
      BY <1>1, <2>1, Zenon DEF ChannelInv
    <2> QED
      BY <1>1, <1>2, <2>1, <2>2
  <1>6. ChannelInv'
    <2>1. ASSUME NEW i \in 1 .. Len(channel'), NEW j \in 1 .. Len(channel'), channel'[i] = channel'[j] PROVE i = j
      <3>1. i + 1 \in 1 .. Len(channel) /\ j + 1 \in 1 .. Len(channel) /\ channel[i + 1] = channel[j + 1]
        BY <1>4, <2>1, Zenon
      <3>2. i + 1 = j + 1
        BY <1>1, <3>1, Zenon DEF ChannelInv
      <3> QED
        BY <1>4, <3>2
    <2>2. ASSUME NEW i \in 1 .. Len(channel') PROVE calls'[channel'[i]].phase \in {"Queued", "Done"}
      <3>1. channel'[i] \in Calls /\ channel'[i] # c /\ calls[channel'[i]].phase \in {"Queued", "Done"}
        BY <1>1, <1>4, <1>5, Zenon DEF ChannelInv
      <3>2. channel' # << >>
        BY <1>4
      <3> QED
        BY <1>3, <3>1, <3>2, Zenon DEF TakenCall
    <2> QED
      BY <2>1, <2>2, Zenon DEF ChannelInv
  <1>7. calls[c].phase \in {"Queued", "Done"}
    BY <1>1, <1>2 DEF ChannelInv
  <1>8. \A d \in Writers' : d \in Writers \/ (d = c /\ calls[c].command = "Request")
    BY <1>2 DEF Writers, TakenRequest
  <1>9. \A d \in Calls : InChannel(d)' => d # c /\ InChannel(d)
    BY <1>4, <1>5, Zenon DEF InChannel
  <1>10. RequestsInv'
    <2> SUFFICES ASSUME NEW d \in Calls
                 PROVE  /\ calls'[d].phase = "Idle" \/ calls'[d].op \in Operations
                        /\ calls'[d].phase = "Firing" => calls'[d].command = "Fire"
                        /\ \/ calls'[d].phase = "Idle"
                           \/ calls'[d].command = "Request" /\ calls'[d].phase = "Sending"
                           \/ calls'[d].command = "Request" /\ InChannel(d)'
                           \/ calls'[d].command = "Fire" /\ calls'[d].op.kind = "Stop"
                           => d \notin Writers'
      BY Zenon DEF RequestsInv, InChannel
    <2>1. /\ calls[d].phase = "Idle" \/ calls[d].op \in Operations
          /\ calls[d].phase = "Firing" => calls[d].command = "Fire"
          /\ \/ calls[d].phase = "Idle"
             \/ calls[d].command = "Request" /\ calls[d].phase = "Sending"
             \/ calls[d].command = "Request" /\ InChannel(d)
             \/ calls[d].command = "Fire" /\ calls[d].op.kind = "Stop"
             => d \notin Writers
      BY <1>1, Zenon DEF RequestsInv, InChannel
    <2>2. TakenCall(c, d) /\ (InChannel(d)' => d # c /\ InChannel(d))
      BY <1>3, <1>9, Zenon
    <2>3. d \in Writers' => d \in Writers \/ (d = c /\ calls[c].command = "Request")
      BY <1>8, Zenon
    <2> QED
      BY <1>2, <1>7, <2>1, <2>2, <2>3, Zenon DEF TakenCall
  <1>11. PendingInv' /\ \A t \in Tables : \A id \in DOMAIN pending'[t] : id \in 1 .. MAX_ID /\ pending'[t][id] \in Calls
    <2> SUFFICES ASSUME NEW t \in Tables, NEW id \in DOMAIN pending'[t]
                 PROVE  /\ [call |-> pending'[t][id], id |-> id] \in written' /\ table(pending[t][id])' = t
                        /\ id \in 1 .. MAX_ID /\ pending'[t][id] \in Calls
      BY Zenon DEF PendingInv
    <2>1. CASE id \in DOMAIN pending[t] /\ pending'[t][id] = pending[t][id]
      <3>1. /\ pending[t][id] \in Calls /\ id \in 1 .. MAX_ID
            /\ [call |-> pending[t][id], id |-> id] \in written /\ table(pending[t][id]) = t
        BY <1>1, <2>1, Zenon DEF PendingInv
      <3>2. table(pending[t][id])' = t
        BY <1>3, <2>1, <3>1, Zenon DEF table
      <3> QED
        BY <1>2, <2>1, <3>1, <3>2, Zenon DEF TakenRequest
    <2>2. CASE t = table(c) /\ pending'[t][id] = c /\ [call |-> c, id |-> id] \in written'
      <3>1. table(pending[t][id])' = t
        BY <1>2, <1>3, <2>2, Zenon DEF table
      <3>2. [call |-> c, id |-> id] \in [call : Calls, id : 1 .. MAX_ID]
        BY <1>2, <2>2, Zenon DEF TakenRequest
      <3> QED
        BY <1>2, <2>2, <3>1, <3>2, Zenon
    <2> QED
      BY <1>2, <2>1, <2>2, Zenon DEF TakenRequest
  <1>12. WaitingCallsArePending'
    <2> SUFFICES ASSUME NEW d \in Calls, calls'[d].phase = "Waiting"
                 PROVE  \E id \in DOMAIN pending'[table(d)] :
                          pending'[table(d)][id] = d /\ [call |-> d, id |-> id] \in written'
      BY <1>3, Zenon DEF WaitingCallsArePending
    <2>1. CASE calls[d].phase = "Waiting"
      <3>1. PICK id \in DOMAIN pending[table(d)] : pending[table(d)][id] = d /\ [call |-> d, id |-> id] \in written
        BY <1>1, <2>1, Zenon DEF WaitingCallsArePending
      <3>2. table(d) \in Tables
        BY Zenon DEF table, Tables
      <3>3. id \in DOMAIN pending'[table(d)] /\ pending'[table(d)][id] = d
        BY <1>2, <3>1, <3>2 DEF TakenRequest
      <3> QED
        BY <1>2, <3>1, <3>3, Zenon DEF TakenRequest
    <2>2. CASE calls[d].phase # "Waiting"
      <3>1. d = c /\ calls[c].phase = "Queued"
        BY <1>3, <2>2, Zenon DEF TakenCall
      <3> QED
        BY <1>2, <3>1, Zenon DEF TakenRequest
    <2> QED
      BY <2>1, <2>2, Zenon
  <1>13. ControlTypeOK'
    <2>1. Len(channel') <= COMMAND_CAPACITY
      BY <1>1, <1>4
    <2> QED
      BY <1>2, <1>4, <1>11, <2>1, Zenon DEF ControlTypeOK, RestOK, Takes, TakenRequest
  <1> QED
    BY <1>6, <1>10, <1>11, <1>12, <1>13, Zenon DEF IInv

\* The call at the head of the channel after its command was taken.
taken(call, phase) == [call EXCEPT !.phase = IF @ = "Queued" THEN phase ELSE @]

\* The calls after the loop has taken a command, whether writing it failed or not.
LEMMA TakenCalls ==
  ASSUME IInv, NEW c \in Calls, calls[c].phase \in {"Queued", "Done"}, NEW phase, NEW cs,
         phase = (IF calls[c].command = "Request" THEN "Waiting" ELSE "Firing"),
         cs = [calls EXCEPT ![c] = taken(calls[c], phase)], calls' \in {cs, fired(cs)}
  PROVE  /\ calls' \in [Calls -> CallStates]
         /\ \A d \in Calls : TakenCall(c, d) /\ Shows(d)' = Shows(d)
         /\ calls[c].phase = "Queued" /\ calls[c].command = "Request" => calls'[c].phase = "Waiting"
  <1>1. calls \in [Calls -> CallStates] /\ calls[c] \in CallStates
    BY Zenon DEF IInv, ControlTypeOK
  <1> DEFINE v == taken(calls[c], phase)
  <1>2. /\ v \in CallStates /\ v.op = calls[c].op /\ v.command = calls[c].command /\ v.response = calls[c].response
        /\ v.phase = IF calls[c].phase = "Queued" THEN phase ELSE calls[c].phase
    BY <1>1, Zenon DEF taken, CallStates
  <1>3. cs = [calls EXCEPT ![c] = v]
    OBVIOUS
  <1> HIDE DEF v
  <1>4. cs \in [Calls -> CallStates] /\ cs[c] = v /\ \A d \in Calls : d # c => cs[d] = calls[d]
    BY <1>1, <1>2, <1>3, Zenon
  <1>5. ASSUME NEW d \in Calls
        PROVE  /\ cs[d] \in CallStates /\ cs[d].op = calls[d].op /\ cs[d].command = calls[d].command
               /\ cs[d].response = calls[d].response
               /\ cs[d].phase = calls[d].phase \/ (d = c /\ calls[c].phase = "Queued" /\ cs[d].phase = phase)
    BY <1>2, <1>4, Zenon
  <1>6. CASE calls' = cs
    <2>1. ASSUME NEW d \in Calls PROVE TakenCall(c, d) /\ Shows(d)' = Shows(d)
      BY <1>5, <1>6, Zenon DEF TakenCall, Shows
    <2> QED
      BY <1>2, <1>4, <1>6, <2>1, Zenon
  <1>7. CASE calls' = fired(cs)
    <2>1. ASSUME NEW d \in Calls, cs[d].phase = "Firing" PROVE calls'[d] = moved(cs[d], "Answered", TRUE)
      BY <1>5, <1>7, <2>1, ZenonT(40) DEF fired, moved, with_ok, CallStates
    <2>2. ASSUME NEW d \in Calls, cs[d].phase # "Firing" PROVE calls'[d] = cs[d]
      BY <1>7, <2>2, Zenon DEF fired
    <2>3. ASSUME NEW d \in Calls PROVE TakenCall(c, d) /\ Shows(d)' = Shows(d)
      <3>1. CASE cs[d].phase = "Firing"
        <4>1. /\ moved(cs[d], "Answered", TRUE) \in CallStates
              /\ moved(cs[d], "Answered", TRUE).op = cs[d].op /\ moved(cs[d], "Answered", TRUE).command = cs[d].command
              /\ moved(cs[d], "Answered", TRUE).phase = "Answered"
              /\ moved(cs[d], "Answered", TRUE).response.shows = cs[d].response.shows
          BY <1>5, MovedType, Zenon
        <4>2. /\ calls'[d] \in CallStates /\ calls'[d].op = calls[d].op /\ calls'[d].command = calls[d].command
              /\ calls'[d].phase = "Answered" /\ calls'[d].response.shows = calls[d].response.shows
          BY <1>5, <2>1, <3>1, <4>1, Zenon
        <4>3. calls[d].phase = "Firing" \/ (d = c /\ calls[c].phase = "Queued")
          BY <1>5, <3>1, Zenon
        <4> QED
          BY <4>2, <4>3, Zenon DEF TakenCall, Shows
      <3>2. CASE cs[d].phase # "Firing"
        BY <1>5, <2>2, <3>2 DEF TakenCall, Shows
      <3> QED
        BY <3>1, <3>2, Zenon
    <2>4. calls' \in [Calls -> CallStates]
      <3>1. calls' = [d \in Calls |-> calls'[d]]
        BY <1>7, ZenonT(40) DEF fired
      <3> QED
        BY <2>3, <3>1, Zenon DEF TakenCall
    <2> QED
      BY <1>2, <1>4, <2>2, <2>3, <2>4, Zenon
  <1> QED
    BY <1>6, <1>7, Zenon

\* The table with a request entered under an id that is free.
entered(t, id, c) == [pending EXCEPT ![t] = [i \in DOMAIN @ \cup {id} |-> IF i = id THEN c ELSE @[i]]]

\* The tables after a request was entered under an id nobody used.
LEMMA EnteredTables ==
  ASSUME IInv, NEW t \in Tables, NEW c \in Calls, NEW id, id \notin DOMAIN pending[t],
         \/ pending' = entered(t, id, c)
         \/ pending' = retain(entered(t, id, c), calls')
  PROVE  /\ DOMAIN pending' = Tables
         /\ \A u \in Tables : \A i \in DOMAIN pending'[u] :
              \/ i \in DOMAIN pending[u] /\ pending'[u][i] = pending[u][i]
              \/ u = t /\ i = id /\ pending'[u][i] = c
         /\ \A u \in Tables : \A i \in DOMAIN pending[u] : calls'[pending[u][i]].phase = "Waiting" =>
              i \in DOMAIN pending'[u] /\ pending'[u][i] = pending[u][i]
         /\ calls'[c].phase = "Waiting" => id \in DOMAIN pending'[t] /\ pending'[t][id] = c
  <1> DEFINE tbls == entered(t, id, c)
  <1>1. DOMAIN pending = Tables
    BY Zenon DEF IInv, ControlTypeOK
  <1>2. DOMAIN tbls = Tables /\ \A u \in Tables : u # t => tbls[u] = pending[u]
    BY <1>1, Zenon DEF entered
  <1>3. /\ DOMAIN tbls[t] = DOMAIN pending[t] \cup {id} /\ tbls[t][id] = c
        /\ \A i \in DOMAIN pending[t] : tbls[t][i] = pending[t][i]
    BY <1>1, Zenon DEF entered
  <1> HIDE DEF tbls
  <1>4. CASE pending' = tbls
    BY <1>2, <1>3, <1>4
  <1>5. CASE pending' = retain(tbls, calls')
    <2>1. Kept(tbls)
      BY <1>5, RetainKeeps, Zenon
    <2> QED
      BY <1>2, <1>3, <2>1 DEF Kept
  <1> QED
    BY <1>4, <1>5, Zenon DEF tbls

\* The head of the channel is a call that waits or has given up.
LEMMA HeadFacts ==
  ASSUME IInv, channel # << >>
  PROVE  Head(channel) \in Calls /\ calls[Head(channel)].phase \in {"Queued", "Done"}
  <1>1. channel \in Seq(Calls) /\ ChannelInv
    BY Zenon DEF IInv, ControlTypeOK
  <1>2. 1 \in 1 .. Len(channel) /\ Head(channel) = channel[1] /\ Head(channel) \in Calls
    BY <1>1
  <1> QED
    BY <1>1, <1>2, Zenon DEF ChannelInv

\* The loop takes a message that has no response.
LEMMA TakeFireStep ==
  ASSUME IInv, TakeFire PROVE IInv'
  <1> DEFINE c == Head(channel)
             cs == [calls EXCEPT ![c] = taken(calls[c], "Firing")]
  <1>1. /\ RestOK /\ LaunchedAppsAreStopped /\ Running /\ MaxBlocked \in Nat
        /\ calls \in [Calls -> CallStates] /\ DOMAIN pending = Tables
        /\ written \subseteq [call : Calls, id : 1 .. MAX_ID] /\ next_id \in [Tables -> 1 .. MAX_ID]
        /\ WaitingCallsArePending
    BY RestFacts, ControlAssumption, Zenon DEF TakeFire, Selecting, IInv, ControlTypeOK
  <1>2. /\ channel # << >> /\ calls[c].command = "Fire" /\ next_id' = next_id /\ written' = written /\ owner' = owner
        /\ UNCHANGED <<known_apps, session_ids, stopped, torn_down>>
        /\ heartbeat' = heartbeat /\ quiet' = quiet
    BY Zenon DEF TakeFire, apps, clock
  <1>3. c \in Calls /\ calls[c].phase \in {"Queued", "Done"}
    BY <1>2, HeadFacts, Zenon
  <1>4. Write(cs, pending, Tail(channel))
    <2>1. cs = [calls EXCEPT ![c].phase = IF @ = "Queued" THEN "Firing" ELSE @]
      BY Zenon DEF taken
    <2> QED
      BY <2>1, Zenon DEF TakeFire
  <1> HIDE DEF c, cs
  <1>5. CASE End("Error") /\ UNCHANGED blocked
    BY <1>1, <1>2, <1>5, EndStep, Zenon DEF RestOK, apps
  <1>6. CASE /\ calls' \in {cs, fired(cs)} /\ channel' = Tail(channel) /\ result' = result
             /\ blocked' \in 0 .. MaxBlocked /\ (pending' = pending \/ pending' = retain(pending, calls'))
    <2>1. /\ calls' \in [Calls -> CallStates]
          /\ \A d \in Calls : TakenCall(c, d) /\ Shows(d)' = Shows(d)
      BY <1>2, <1>3, <1>6, TakenCalls, Zenon DEF cs
    <2>2. Kept(pending)
      <3>1. CASE pending' = pending
        BY <1>1, <3>1, Zenon DEF Kept
      <3>2. CASE pending' = retain(pending, calls')
        BY <3>2, RetainKeeps, Zenon
      <3> QED
        BY <1>6, <3>1, <3>2, Zenon
    <2>3. TakenRequest(c)
      <3>1. ~(calls[c].phase = "Queued" /\ calls'[c].phase = "Waiting")
        BY <1>2, <1>3, <2>1, Zenon DEF TakenCall
      <3> QED
        BY <1>1, <1>2, <2>2, <3>1, Zenon DEF TakenRequest, Kept
    <2>4. Takes(c)
      BY <1>1, <1>2, <1>6, <2>1, <2>3, Zenon DEF Takes, c
    <2>5. LaunchedAppsAreStopped'
      <3>1. (known \cup stopped)' = known \cup stopped
        BY <1>2, Zenon DEF known
      <3> QED
        BY <1>1, <1>2, <1>6, <2>1, <3>1, ShownStep, Zenon
    <2>6. RestOK'
      BY <1>1, <1>2, <1>6, Zenon DEF RestOK
    <2> QED
      BY <2>4, <2>5, <2>6, TakesStep, Zenon
  <1> QED
    BY <1>1, <1>4, <1>5, <1>6 DEF Write, Continue

\* The loop takes a request, gives it an id and writes it.
LEMMA TakeRequestStep ==
  ASSUME IInv, TakeRequest PROVE IInv'
  <1> DEFINE c == Head(channel)
             t == table(c)
             id == allocate_id(next_id[t], DOMAIN pending[t])
             cs == [calls EXCEPT ![c] = taken(calls[c], "Waiting")]
             tbls == entered(t, id, c)
  <1>1. /\ RestOK /\ LaunchedAppsAreStopped /\ Running /\ MaxBlocked \in Nat
        /\ calls \in [Calls -> CallStates] /\ DOMAIN pending = Tables
        /\ written \subseteq [call : Calls, id : 1 .. MAX_ID] /\ next_id \in [Tables -> 1 .. MAX_ID]
    BY RestFacts, ControlAssumption, Zenon DEF TakeRequest, Selecting, IInv, ControlTypeOK
  <1>2. /\ channel # << >> /\ calls[c].command = "Request" /\ owner' = owner
        /\ Cardinality(DOMAIN pending[t]) < MAX_ID
        /\ next_id' = [next_id EXCEPT ![t] = successor(id)]
        /\ written' = written \cup {[call |-> c, id |-> id]}
        /\ UNCHANGED <<known_apps, session_ids, stopped, torn_down>>
        /\ heartbeat' = heartbeat /\ quiet' = quiet
    BY Zenon DEF TakeRequest, apps, clock
  <1>3. c \in Calls /\ calls[c].phase \in {"Queued", "Done"} /\ t \in Tables
    BY <1>2, HeadFacts, Zenon DEF table, Tables
  <1>4. id \in (1 .. MAX_ID) \ DOMAIN pending[t]
    <2>1. next_id[t] \in 1 .. MAX_ID /\ DOMAIN pending[t] \in SUBSET (1 .. MAX_ID)
      BY <1>1, <1>3, Zenon DEF IInv, ControlTypeOK
    <2> QED
      BY <1>2, <2>1, AllocateId, Zenon
  <1>5. Write(cs, tbls, Tail(channel))
    <2>1. cs = [calls EXCEPT ![c].phase = IF @ = "Queued" THEN "Waiting" ELSE @]
      BY Zenon DEF taken
    <2>2. tbls = [pending EXCEPT ![t] = [i \in DOMAIN @ \cup {id} |-> IF i = id THEN c ELSE @[i]]]
      BY Zenon DEF entered
    <2> QED
      BY <2>1, <2>2, Zenon DEF TakeRequest
  <1>6. /\ next_id' \in [Tables -> 1 .. MAX_ID] /\ written' \subseteq [call : Calls, id : 1 .. MAX_ID]
        /\ written \subseteq written' /\ [call |-> c, id |-> id] \in written'
        /\ \A request \in written' \ written : request.call = c /\ request.id \in 1 .. MAX_ID
    <2>1. successor(id) \in 1 .. MAX_ID
      BY <1>4, SuccessorType, Zenon
    <2> HIDE DEF id, c, t
    <2> QED
      BY <1>1, <1>2, <1>3, <1>4, <2>1
  <1> HIDE DEF c, t, id, cs, tbls
  <1>7. CASE End("Error") /\ UNCHANGED blocked
    <2>1. /\ calls' \in [Calls -> CallStates] /\ Kept(pending)
          /\ \A u \in Tables : DOMAIN pending'[u] = {}
          /\ \A d \in Calls : Served(d) /\ Shows(d)' = Shows(d) /\ calls'[d].phase # "Waiting"
          /\ channel' = << >> /\ result' = "Error"
      BY <1>7, EndServed, Zenon DEF End
    <2>2. ASSUME NEW d \in Calls PROVE TakenCall(c, d)
      <3>1. /\ calls'[d] \in CallStates
            /\ calls'[d].op = calls[d].op /\ calls'[d].command = calls[d].command
            /\ \/ calls'[d].phase = calls[d].phase
               \/ calls[d].phase \in {"Queued", "Firing", "Waiting"} /\ calls'[d].phase = "Answered"
        BY <2>1, ServedFacts, Zenon DEF IInv
      <3> QED
        BY <2>1, <3>1, Zenon DEF TakenCall
    <2>3. TakenRequest(c)
      <3>1. \A u \in Tables : \A i \in DOMAIN pending[u] : pending[u][i] \in Calls
        BY Zenon DEF IInv, ControlTypeOK
      <3> QED
        BY <1>2, <1>3, <1>6, <2>1, <3>1, Zenon DEF TakenRequest, Kept
    <2>4. Takes(c)
      BY <1>2, <1>6, <2>1, <2>2, <2>3, Zenon DEF Takes, c
    <2>5. LaunchedAppsAreStopped'
      BY <1>1, <1>2, <2>1, ShownEnd
    <2>6. RestOK'
      BY <1>1, <1>2, <1>7, <2>1, Zenon DEF RestOK
    <2> QED
      BY <2>4, <2>5, <2>6, TakesStep, Zenon
  <1>8. CASE /\ calls' \in {cs, fired(cs)} /\ channel' = Tail(channel) /\ result' = result
             /\ blocked' \in 0 .. MaxBlocked /\ (pending' = tbls \/ pending' = retain(tbls, calls'))
    <2>1. /\ calls' \in [Calls -> CallStates]
          /\ \A d \in Calls : TakenCall(c, d) /\ Shows(d)' = Shows(d)
          /\ calls[c].phase = "Queued" => calls'[c].phase = "Waiting"
      BY <1>2, <1>3, <1>8, TakenCalls, Zenon DEF cs
    <2>2. /\ DOMAIN pending' = Tables
          /\ \A u \in Tables : \A i \in DOMAIN pending'[u] :
               \/ i \in DOMAIN pending[u] /\ pending'[u][i] = pending[u][i]
               \/ u = t /\ i = id /\ pending'[u][i] = c
          /\ \A u \in Tables : \A i \in DOMAIN pending[u] : calls'[pending[u][i]].phase = "Waiting" =>
               i \in DOMAIN pending'[u] /\ pending'[u][i] = pending[u][i]
          /\ calls'[c].phase = "Waiting" => id \in DOMAIN pending'[t] /\ pending'[t][id] = c
      BY <1>3, <1>4, <1>8, EnteredTables DEF tbls
    <2>3. TakenRequest(c)
      BY <1>2, <1>6, <2>2, Zenon DEF TakenRequest, t
    <2>4. Takes(c)
      BY <1>2, <1>6, <1>8, <2>1, <2>3, Zenon DEF Takes, c
    <2>5. LaunchedAppsAreStopped'
      <3>1. (known \cup stopped)' = known \cup stopped
        BY <1>2, Zenon DEF known
      <3> QED
        BY <1>1, <1>2, <1>8, <2>1, <3>1, ShownStep, Zenon
    <2>6. RestOK'
      BY <1>1, <1>2, <1>8, Zenon DEF RestOK
    <2> QED
      BY <2>4, <2>5, <2>6, TakesStep, Zenon
  <1> QED
    BY <1>1, <1>5, <1>7, <1>8 DEF Write, Continue
-----------------------------------------------------------------------------
\* The invariant holds once the connection is open.
LEMMA InitIInv ==
  ASSUME Init PROVE IInv
  <1>1. /\ MAX_ID \in Nat \ {0} /\ COMMAND_CAPACITY \in Nat /\ HEARTBEAT_INTERVAL \in Nat \ {0}
        /\ HEARTBEAT_TIMEOUT \in Nat /\ MaxBlocked \in Nat
    BY ControlAssumption, Zenon
  <1>2. DOMAIN << >> = {}
    OBVIOUS
  <1>3. \A t \in Tables : DOMAIN pending[t] = {}
    BY <1>2, Zenon DEF Init
  <1>4. calls \in [Calls -> CallStates] /\ \A c \in Calls : calls[c].phase = "Idle" /\ calls[c].response.shows = None
    BY Zenon DEF Init, CallStates, no_response
  <1>5. ControlTypeOK
    <2>1. channel \in Seq(Calls) /\ Len(channel) = 0
      BY DEF Init
    <2>2. heartbeat \in [due : 1 .. HEARTBEAT_INTERVAL, ready : BOOLEAN, since : 0 .. HEARTBEAT_TIMEOUT,
                         unread : {None, "PING", "PONG"}]
      BY <1>1 DEF Init
    <2>3. next_id \in [Tables -> 1 .. MAX_ID]
      BY <1>1 DEF Init
    <2> QED
      BY <1>1, <1>3, <1>4, <2>1, <2>2, <2>3 DEF ControlTypeOK, Init
  <1>6. ChannelInv /\ RequestsInv
    <2>1. Len(channel) = 0 /\ Writers = {}
      BY Zenon DEF Init, Writers
    <2> QED
      BY <1>4, <2>1 DEF ChannelInv, RequestsInv
  <1>7. PendingInv /\ WaitingCallsArePending /\ LaunchedAppsAreStopped
    BY <1>3, <1>4, Zenon DEF PendingInv, WaitingCallsArePending, LaunchedAppsAreStopped
  <1> QED
    BY <1>5, <1>6, <1>7, Zenon DEF IInv

\* A stuttering step.
LEMMA UnchangedIInv ==
  ASSUME IInv, UNCHANGED vars PROVE IInv'
  <1>1. ControlTypeOK' /\ ChannelInv' /\ RequestsInv'
    BY DEF IInv, vars, tables, apps, clock, ControlTypeOK, ChannelInv, RequestsInv, Writers, table
  <1>2. PendingInv' /\ WaitingCallsArePending'
    BY DEF IInv, vars, tables, PendingInv, WaitingCallsArePending, Writers, table
  <1>3. LaunchedAppsAreStopped'
    BY DEF IInv, vars, apps, LaunchedAppsAreStopped, known, Running
  <1> QED
    BY <1>1, <1>2, <1>3, Zenon DEF IInv

\* Every step keeps the invariant.
LEMMA NextIInv ==
  ASSUME IInv, Next PROVE IInv'
  <1>1. CASE Caller
    BY <1>1, IssueStep, SendStep, GiveUpStep, ProceedStep, DropConnectionStep, Zenon DEF Caller
  <1>2. CASE Command
    BY <1>2, TakeRequestStep, TakeFireStep, TakeCloseStep, Zenon DEF Command
  <1>3. CASE Message
    <2>1. \A t \in Tables : Sent(t) \subseteq written
      BY Zenon DEF Sent
    <2>2. ASSUME NEW by \in Sent("receiver") \cup {None},
                 \/ \E listed \in [Transports -> Apps \cup {None}], starting \in SUBSET Apps :
                      \E sessions \in SUBSET {t \in Transports : listed[t] # None} :
                        ReceiverStatus(by, listed, sessions, starting)
                 \/ \E app \in Apps \cup {None} : ReceiverError(by, app)
          PROVE  IInv'
      BY <2>1, <2>2, ReceiverStatusStep, SettleStep, Zenon DEF ReceiverError, Tables
    <2>3. ASSUME NEW by \in Sent("receiver"), AppAvailability(by) PROVE IInv'
      BY <2>1, <2>3, SettleStep, Zenon DEF AppAvailability, Tables
    <2>4. ASSUME NEW by \in Sent("product_info"), NEW kind, NEW accepted \in BOOLEAN, ProductInfo(by, kind, accepted)
          PROVE  IInv'
      BY <2>1, <2>4, SettleStep, Zenon DEF ProductInfo, Tables
    <2>5. ASSUME NEW source \in Transports,
                 \/ \E by \in Sent("offers") : Answer(by, source)
                 \/ \E by \in Sent("offers") \cup {None} : OfferError(by, source)
                 \/ ApplicationClose(source)
          PROVE  IInv'
      BY <2>1, <2>5, SettleStep, ApplicationCloseStep, Zenon DEF Answer, OfferError, Tables
    <2> QED
      BY <1>3, <2>2, <2>3, <2>4, <2>5, DisconnectStep, Zenon DEF Message
  <1>4. CASE Heartbeat
    BY <1>4, HeartbeatArrivesStep, ReadHeartbeatStep, HeartbeatTickStep, TickStep, Zenon DEF Heartbeat
  <1> QED
    BY <1>1, <1>2, <1>3, <1>4, WriteFailsStep, Zenon DEF Next

\* IInv is an invariant of the control loop and its callers.
THEOREM ControlInductive == Spec => []IInv
  <1>1. ASSUME IInv, [Next]_vars PROVE IInv'
    BY <1>1, NextIInv, UnchangedIInv, Zenon
  <1> QED
    BY <1>1, InitIInv, PTL DEF Spec

\* Every variable of the control loop keeps its type, whatever calls are made and
\* whatever the receiver sends.
THEOREM ControlTypeCorrect == Spec => []ControlTypeOK
  <1>1. IInv => ControlTypeOK
    BY Zenon DEF IInv
  <1> QED
    BY <1>1, ControlInductive, PTL

\* A call that waits is pending under the id its request was written with
\* (allocate_id, the retain at the top of control_loop, fail_all_pending), for any
\* number of calls and of ids.
THEOREM WaitingSafe == Spec => []WaitingCallsArePending
  <1>1. IInv => WaitingCallsArePending
    BY Zenon DEF IInv
  <1> QED
    BY <1>1, ControlInductive, PTL

\* A launched application is known until somebody is told that it stopped, and an
\* orderly close closes it, and stops it where it has a session id
\* (publish_receiver_status, send_teardown).
THEOREM LaunchedSafe == Spec => []LaunchedAppsAreStopped
  <1>1. IInv => LaunchedAppsAreStopped
    BY Zenon DEF IInv
  <1> QED
    BY <1>1, ControlInductive, PTL
-----------------------------------------------------------------------------
(* Answers.  With no more calls than ids, the n-th request of a table has the  *)
(* id n, so a reply names one request only.                                    *)
IdsInv ==
  /\ \A r, s \in written : r.call = s.call => r = s
  /\ \A r, s \in written : table(r.call) = table(s.call) /\ r.id = s.id => r = s
  /\ \A r \in written : r.id <= Cardinality(Requesters(table(r.call)))
  /\ \A t \in Tables : Cardinality(Requesters(t)) < MAX_ID => next_id[t] = Cardinality(Requesters(t)) + 1

AInv == IInv /\ IdsInv /\ AnswersAreOwn

Own(c) ==
  calls[c].command = "Request" /\ calls[c].response.ok /\ calls[c].op.kind # "Launch" => calls[c].response.by = c

\* What a step may do to a call that is not idle.
Honest(c) == Own(c)' /\ (calls[c].phase = "Idle" \/ calls'[c].op = calls[c].op)

\* A call that moves on keeps who its response is by.
LEMMA MovedResponse ==
  ASSUME NEW call \in CallStates, NEW ok \in BOOLEAN, NEW phase
  PROVE  /\ moved(call, phase, ok).response.ok = ok /\ moved(call, phase, ok).response.by = call.response.by
         /\ moved(call, phase, ok).op = call.op /\ moved(call, phase, ok).command = call.command
  <1> DEFINE r == with_ok(call.response, ok)
  <1>1. call.response \in Responses
    BY Zenon DEF CallStates, Responses
  <1>2. r.ok = ok /\ r.by = call.response.by
    BY <1>1, WithOkType, Zenon
  <1>3. moved(call, phase, ok) = [call EXCEPT !.phase = phase, !.response = r]
    BY Zenon DEF moved
  <1> HIDE DEF r
  <1> QED
    BY <1>2, <1>3, Zenon DEF CallStates

\* The end of the loop makes no call succeed.
LEMMA EndHonest ==
  ASSUME AInv, NEW reason, End(reason)
  PROVE  \A c \in Calls : Honest(c)
  <1> SUFFICES ASSUME NEW c \in Calls PROVE Honest(c)
    OBVIOUS
  <1>1. calls[c] \in CallStates /\ Own(c)
    BY CallFacts, Zenon DEF AInv, IInv, AnswersAreOwn, Own
  <1>2. CASE calls[c].phase \in {"Queued", "Firing", "Waiting"}
    <2>1. calls'[c] = moved(calls[c], "Answered", FALSE)
      BY <1>1, <1>2, Zenon DEF End, moved, with_ok, CallStates
    <2>2. ~calls'[c].response.ok /\ calls'[c].op = calls[c].op
      <3>1. /\ moved(calls[c], "Answered", FALSE).response.ok = FALSE
            /\ moved(calls[c], "Answered", FALSE).op = calls[c].op
        BY <1>1, MovedResponse, Zenon
      <3> QED
        BY <2>1, <3>1, Zenon
    <2> QED
      BY <2>2, Zenon DEF Honest, Own
  <1>3. CASE calls[c].phase \notin {"Queued", "Firing", "Waiting"}
    <2>1. calls'[c] = calls[c]
      BY <1>3, Zenon DEF End
    <2> QED
      BY <1>1, <2>1, Zenon DEF Honest, Own
  <1> QED
    BY <1>2, <1>3, Zenon

\* Responses to the requests they are by keep every call honest.
LEMMA RespondHonest ==
  ASSUME AInv, NEW who, NEW responses, DOMAIN responses = who, \A c \in who : responses[c] \in Responses,
         \A c \in who : responses[c].ok /\ calls[c].op.kind # "Launch" => responses[c].by = c,
         calls' = respond(calls, responses)
  PROVE  \A c \in Calls : Honest(c)
  <1> SUFFICES ASSUME NEW c \in Calls PROVE Honest(c)
    OBVIOUS
  <1>1. calls[c] \in CallStates /\ Own(c)
    BY CallFacts, Zenon DEF AInv, IInv, AnswersAreOwn, Own
  <1>2. CASE c \in who /\ calls[c].phase = "Waiting"
    <2>1. calls'[c] = answered(calls[c], responses[c]) /\ responses[c] \in Responses
      BY <1>2, Zenon DEF respond, answered
    <2>2. calls'[c].op = calls[c].op /\ calls'[c].response = responses[c]
      <3>1. /\ answered(calls[c], responses[c]).op = calls[c].op
            /\ answered(calls[c], responses[c]).response = responses[c]
        BY <1>1, <2>1, AnsweredType, Zenon
      <3> QED
        BY <2>1, <3>1, Zenon
    <2> QED
      BY <1>2, <2>2, Zenon DEF Honest, Own
  <1>3. CASE ~(c \in who /\ calls[c].phase = "Waiting")
    <2>1. calls'[c] = calls[c]
      BY <1>3, Zenon DEF respond
    <2> QED
      BY <1>1, <2>1, Zenon DEF Honest, Own
  <1> QED
    BY <1>2, <1>3, Zenon

\* The end of a write answers a SendFire only.
LEMMA FiredHonest ==
  ASSUME AInv, NEW cs \in [Calls -> CallStates], calls' \in {cs, fired(cs)},
         \A c \in Calls : /\ cs[c].op = calls[c].op /\ cs[c].command = calls[c].command
                          /\ cs[c].response = calls[c].response
                          /\ cs[c].phase = "Firing" => cs[c].command # "Request"
  PROVE  \A c \in Calls : Honest(c)
  <1> SUFFICES ASSUME NEW c \in Calls PROVE Honest(c)
    OBVIOUS
  <1>1. cs[c] \in CallStates /\ Own(c)
    BY Zenon DEF AInv, AnswersAreOwn, Own
  <1>2. CASE calls' = fired(cs) /\ cs[c].phase = "Firing"
    <2>1. calls'[c] = moved(cs[c], "Answered", TRUE)
      BY <1>1, <1>2, Zenon DEF fired, moved, with_ok, CallStates
    <2>2. calls'[c].command = cs[c].command /\ calls'[c].op = cs[c].op
      <3>1. /\ moved(cs[c], "Answered", TRUE).command = cs[c].command
            /\ moved(cs[c], "Answered", TRUE).op = cs[c].op
        BY <1>1, MovedType, Zenon
      <3> QED
        BY <2>1, <3>1, Zenon
    <2> QED
      BY <1>2, <2>2, Zenon DEF Honest, Own
  <1>3. CASE ~(calls' = fired(cs) /\ cs[c].phase = "Firing")
    <2>1. calls'[c] = cs[c]
      BY <1>3, Zenon DEF fired
    <2> QED
      BY <1>1, <2>1, Zenon DEF Honest, Own
  <1> QED
    BY <1>2, <1>3, Zenon

\* A call whose message has no response is no request.
LEMMA FiringFacts ==
  ASSUME IInv
  PROVE  /\ calls \in [Calls -> CallStates]
         /\ \A c \in Calls : calls[c].phase = "Firing" => calls[c].command # "Request"
  BY Zenon DEF IInv, ControlTypeOK, RequestsInv

\* A reply to a request of a table is the answer to what is pending under its id.
LEMMA CorrelatedIsOwn ==
  ASSUME AInv, NEW t \in Tables, NEW by \in Sent(t), NEW c \in correlated(t, by)
  PROVE  by.call = c
  <1>1. /\ by \in written /\ table(by.call) = t
        /\ by.id \in DOMAIN pending[t] /\ c = pending[t][by.id]
    BY Zenon DEF Sent, correlated
  <1>2. [call |-> c, id |-> by.id] \in written /\ table(c) = t
    BY <1>1, Zenon DEF AInv, IInv, PendingInv
  <1>3. [call |-> c, id |-> by.id].call = c /\ [call |-> c, id |-> by.id].id = by.id
    OBVIOUS
  <1>4. by = [call |-> c, id |-> by.id]
    BY <1>1, <1>2, <1>3, Zenon DEF AInv, IdsInv
  <1> QED
    BY <1>3, <1>4, Zenon
-----------------------------------------------------------------------------
\* A step of a caller makes no call succeed by the response to another.
LEMMA CallerHonest ==
  ASSUME AInv, Caller
  PROVE  \A c \in Calls : Honest(c)
  <1>1. calls \in [Calls -> CallStates] /\ \A c \in Calls : Own(c)
    BY FiringFacts, Zenon DEF AInv, AnswersAreOwn, Own
  <1>2. ASSUME NEW c \in Calls, NEW v, calls' = [calls EXCEPT ![c] = v],
               calls[c].phase = "Idle" \/ v.op = calls[c].op,
               \/ v.response.ok = FALSE
               \/ /\ v.command = calls[c].command /\ v.op = calls[c].op
                  /\ v.response.by = calls[c].response.by /\ (v.response.ok => calls[c].response.ok)
        PROVE  \A d \in Calls : Honest(d)
    <2> SUFFICES ASSUME NEW d \in Calls PROVE Honest(d)
      OBVIOUS
    <2>1. CASE d # c
      <3>1. calls'[d] = calls[d]
        BY <1>1, <1>2, <2>1, Zenon
      <3> QED
        BY <1>1, <3>1, Zenon DEF Honest, Own
    <2>2. CASE d = c
      <3>1. calls'[d] = v
        BY <1>1, <1>2, <2>2, Zenon
      <3> QED
        BY <1>1, <1>2, <2>2, <3>1, Zenon DEF Honest, Own
    <2> QED
      BY <2>1, <2>2, Zenon
  <1>3. ASSUME NEW c \in Calls, NEW op \in Operations, Issue(c, op) PROVE \A d \in Calls : Honest(d)
    <2> DEFINE v == [op |-> op, command |-> first_command(op.kind), phase |-> "Sending", response |-> no_response]
    <2>1. calls' = [calls EXCEPT ![c] = v] /\ calls[c].phase = "Idle" /\ v.response.ok = FALSE
      BY <1>3, Zenon DEF Issue, no_response
    <2> HIDE DEF v
    <2> QED
      BY <1>2, <2>1, Zenon
  <1>4. ASSUME NEW c \in Calls, calls' = [calls EXCEPT ![c].phase = "Done", ![c].response.ok = FALSE]
        PROVE  \A d \in Calls : Honest(d)
    <2> DEFINE v == moved(calls[c], "Done", FALSE)
    <2>1. calls' = [calls EXCEPT ![c] = v]
      BY <1>1, <1>4, Zenon DEF moved, with_ok, CallStates
    <2>2. v.op = calls[c].op /\ v.response.ok = FALSE
      BY <1>1, MovedResponse, Zenon
    <2> HIDE DEF v
    <2> QED
      BY <1>2, <2>1, <2>2, Zenon
  <1>5. ASSUME NEW c \in Calls, Send(c) PROVE \A d \in Calls : Honest(d)
    <2>1. CASE calls' = [calls EXCEPT ![c].phase = "Queued"]
      <3> DEFINE v == [calls[c] EXCEPT !.phase = "Queued"]
      <3>1. /\ calls' = [calls EXCEPT ![c] = v]
            /\ v.op = calls[c].op /\ v.command = calls[c].command /\ v.response = calls[c].response
        BY <1>1, <2>1, Zenon DEF CallStates
      <3> HIDE DEF v
      <3> QED
        BY <1>2, <3>1, Zenon
    <2> QED
      BY <1>4, <1>5, <2>1, Zenon DEF Send
  <1>6. ASSUME NEW c \in Calls, Proceed(c) PROVE \A d \in Calls : Honest(d)
    <2> DEFINE call == calls[c]
               launching == call.op.kind = "Launch" /\ call.command = "Request"
               command == IF launching THEN "Fire" ELSE "Request"
               ok == call.response.ok /\ ~launching
               next == [call EXCEPT !.command = command]
               v == moved(next, "Sending", FALSE)
               w == moved(call, "Done", ok)
    <2>1. calls' = [calls EXCEPT ![c] = v] \/ calls' = [calls EXCEPT ![c] = w]
      BY <1>1, <1>6, Zenon DEF Proceed, moved, with_ok, CallStates
    <2>2. next \in CallStates /\ next.op = call.op
      BY <1>1, Zenon DEF CallStates
    <2>3. v.op = call.op /\ v.response.ok = FALSE
      <3> HIDE DEF next
      <3>1. TRUE \in BOOLEAN /\ FALSE \in BOOLEAN
        OBVIOUS
      <3>2. /\ moved(next, "Sending", FALSE).response.ok = FALSE
            /\ moved(next, "Sending", FALSE).op = next.op
        BY <2>2, <3>1, MovedResponse, Zenon
      <3> QED
        BY <2>2, <3>2, Zenon
    <2>4. /\ w.op = call.op /\ w.command = call.command /\ w.response.by = call.response.by
          /\ w.response.ok => call.response.ok
      <3>1. ok \in BOOLEAN /\ (ok => call.response.ok) /\ call \in CallStates
        BY <1>1, Zenon
      <3> HIDE DEF ok, call
      <3> QED
        BY <3>1, MovedResponse
    <2> HIDE DEF v, w
    <2> QED
      BY <1>2, <2>1, <2>3, <2>4, Zenon
  <1>7. ASSUME DropConnection PROVE \A d \in Calls : Honest(d)
    BY <1>1, <1>7, Zenon DEF DropConnection, Honest, Own
  <1> QED
    BY <1>3, <1>4, <1>5, <1>6, <1>7, Zenon DEF Caller, GiveUp

\* Nor does a message of the receiver.
LEMMA MessageHonest ==
  ASSUME AInv, Message
  PROVE  \A c \in Calls : Honest(c)
  <1>1. IInv
    BY Zenon DEF AInv
  <1>2. ASSUME NEW t \in Tables, NEW by \in Sent(t) \cup {None}, NEW who, NEW ok \in BOOLEAN,
               ok => who \subseteq correlated(t, by), Settle(who, ok, by)
        PROVE  \A c \in Calls : Honest(c)
    <2> DEFINE r == [ok |-> ok, by |-> IF by = None THEN None ELSE by.call, shows |-> None]
               responses == [c \in who |-> r]
    <2>1. r \in Responses /\ r.ok = ok
      BY <1>1, ByType, Zenon DEF Responses, Sent
    <2>2. ASSUME ok, NEW c \in who PROVE r.by = c
      <3>1. c \in correlated(t, by) /\ by # None /\ by \in Sent(t)
        BY <1>2, <2>2, Zenon DEF correlated
      <3> QED
        BY <3>1, CorrelatedIsOwn, Zenon
    <2>3. calls' = respond(calls, responses)
      BY <1>2, Zenon DEF Settle, Continue
    <2>4. DOMAIN responses = who /\ \A c \in who : responses[c] = r
      OBVIOUS
    <2> HIDE DEF r, responses
    <2> QED
      BY <2>1, <2>2, <2>3, <2>4, RespondHonest, Zenon
  <1>3. ASSUME NEW by \in Sent("receiver") \cup {None}, NEW listed, NEW sessions, NEW starting,
               ReceiverStatus(by, listed, sessions, starting)
        PROVE  \A c \in Calls : Honest(c)
    <2> DEFINE shown == ({listed[t] : t \in Transports} \ {None}) \cup starting
               who == completed_by_status(by, shown)
               r(c) == [ok |-> TRUE, by |-> IF by = None THEN None ELSE by.call,
                        shows |-> IF calls[c].op.kind = "Launch" THEN transport_of(listed, calls[c].op.of) ELSE None]
               responses == [c \in who |-> r(c)]
    <2>1. ASSUME NEW c \in who, calls[c].op.kind # "Launch" PROVE r(c).by = c
      <3>1. c \in correlated("receiver", by)
        BY <2>1, Zenon DEF completed_by_status
      <3>2. by # None /\ by \in Sent("receiver") /\ "receiver" \in Tables
        BY <3>1, Zenon DEF correlated, Tables
      <3> QED
        BY <3>1, <3>2, CorrelatedIsOwn, Zenon
    <2>2. ASSUME NEW c PROVE r(c) \in Responses
      <3>1. transport_of(listed, calls[c].op.of) \in Transports \cup {None}
        BY Zenon DEF transport_of
      <3>2. (IF by = None THEN None ELSE by.call) \in Calls \cup {None}
        BY <1>1, ByType, Zenon DEF Sent
      <3> QED
        BY <3>1, <3>2, Zenon DEF Responses
    <2>3. calls' = respond(calls, responses)
      BY <1>3, Zenon DEF ReceiverStatus, Continue
    <2>4. DOMAIN responses = who /\ \A c \in who : responses[c] = r(c)
      BY Zenon
    <2> HIDE DEF r, responses, who
    <2> QED
      BY <2>1, <2>2, <2>3, <2>4, RespondHonest
  <1>4. ASSUME NEW source, ApplicationClose(source) PROVE \A c \in Calls : Honest(c)
    <2> DEFINE who == {o \in pending_calls("offers") : calls[o].op.of = source}
               responses == [c \in who |-> no_response]
    <2>1. no_response \in Responses /\ no_response.ok = FALSE
      BY Zenon DEF no_response, Responses
    <2>2. calls' = respond(calls, responses)
      BY <1>4, Zenon DEF ApplicationClose, Continue
    <2>3. DOMAIN responses = who /\ \A c \in who : responses[c] = no_response
      OBVIOUS
    <2> HIDE DEF who, responses
    <2> QED
      BY <2>1, <2>2, <2>3, RespondHonest, Zenon
  <1>5. ASSUME NEW reason, Disconnect(reason) PROVE \A c \in Calls : Honest(c)
    BY <1>5, EndHonest, Zenon DEF Disconnect
  <1>6. ASSUME NEW by \in Sent("receiver") \cup {None},
               \E app \in Apps \cup {None} : ReceiverError(by, app)
        PROVE  \A c \in Calls : Honest(c)
    BY <1>2, <1>6, Zenon DEF ReceiverError, Tables
  <1>7. ASSUME NEW by \in Sent("receiver"), AppAvailability(by) PROVE \A c \in Calls : Honest(c)
    BY <1>2, <1>7, Zenon DEF AppAvailability, Tables
  <1>8. ASSUME NEW by \in Sent("product_info"), NEW kind, NEW accepted \in BOOLEAN, ProductInfo(by, kind, accepted)
        PROVE  \A c \in Calls : Honest(c)
    BY <1>2, <1>8, Zenon DEF ProductInfo, Tables
  <1>9. ASSUME NEW source, NEW by \in Sent("offers"), Answer(by, source) PROVE \A c \in Calls : Honest(c)
    BY <1>2, <1>9, Zenon DEF Answer, complete_offer, Tables
  <1>10. ASSUME NEW source, NEW by \in Sent("offers") \cup {None}, OfferError(by, source)
         PROVE  \A c \in Calls : Honest(c)
    BY <1>2, <1>10, Zenon DEF OfferError, Tables
  <1> QED
    BY <1>3, <1>4, <1>5, <1>6, <1>7, <1>8, <1>9, <1>10, Zenon DEF Message

\* Nor does a heartbeat.
LEMMA HeartbeatHonest ==
  ASSUME AInv, Heartbeat
  PROVE  \A c \in Calls : Honest(c)
  <1>1. /\ calls \in [Calls -> CallStates]
        /\ \A c \in Calls : calls[c].phase = "Firing" => calls[c].command # "Request"
    BY FiringFacts, Zenon DEF AInv
  <1>2. ASSUME calls' \in {calls, fired(calls)} PROVE \A c \in Calls : Honest(c)
    BY <1>1, <1>2, FiredHonest, Zenon
  <1>3. ASSUME Write(calls, pending, channel) PROVE \A c \in Calls : Honest(c)
    BY <1>2, <1>3, EndHonest, Zenon DEF Write, Continue
  <1>4. ASSUME NEW kind, HeartbeatArrives(kind) PROVE \A c \in Calls : Honest(c)
    BY <1>2, <1>4, Zenon DEF HeartbeatArrives
  <1>5. ASSUME ReadHeartbeat PROVE \A c \in Calls : Honest(c)
    BY <1>2, <1>3, <1>5, Zenon DEF ReadHeartbeat, Continue
  <1>6. ASSUME HeartbeatTick PROVE \A c \in Calls : Honest(c)
    BY <1>3, <1>6, EndHonest, Zenon DEF HeartbeatTick
  <1>7. ASSUME Tick PROVE \A c \in Calls : Honest(c)
    BY <1>2, <1>7, Zenon DEF Tick, Continue
  <1> QED
    BY <1>4, <1>5, <1>6, <1>7, Zenon DEF Heartbeat

\* Nor does a command the loop takes.
LEMMA CommandHonest ==
  ASSUME AInv, Command
  PROVE  \A c \in Calls : Honest(c)
  <1>1. /\ calls \in [Calls -> CallStates]
        /\ \A c \in Calls : calls[c].phase = "Firing" => calls[c].command # "Request"
    BY FiringFacts, Zenon DEF AInv
  <1>2. ASSUME NEW c \in Calls, NEW phase \in {"Waiting", "Firing"}, phase = "Firing" => calls[c].command # "Request",
               NEW tbls, NEW queue, Write([calls EXCEPT ![c] = taken(calls[c], phase)], tbls, queue)
        PROVE  \A d \in Calls : Honest(d)
    <2> DEFINE v == taken(calls[c], phase)
               cs == [calls EXCEPT ![c] = v]
    <2>1. /\ v \in CallStates /\ v.op = calls[c].op /\ v.command = calls[c].command /\ v.response = calls[c].response
          /\ v.phase \in {phase, calls[c].phase}
      BY <1>1, Zenon DEF taken, CallStates
    <2>2. Write(cs, tbls, queue)
      BY <1>2, Zenon
    <2> HIDE DEF v
    <2>3. /\ cs \in [Calls -> CallStates]
          /\ \A d \in Calls : /\ cs[d].op = calls[d].op /\ cs[d].command = calls[d].command
                              /\ cs[d].response = calls[d].response
                              /\ cs[d].phase = "Firing" => cs[d].command # "Request"
      BY <1>1, <1>2, <2>1, Zenon
    <2> HIDE DEF cs
    <2>4. CASE calls' \in {cs, fired(cs)}
      BY <2>3, <2>4, FiredHonest, Zenon
    <2> QED
      BY <2>2, <2>4, EndHonest, Zenon DEF Write, Continue
  <1>3. ASSUME TakeRequest PROVE \A d \in Calls : Honest(d)
    <2> DEFINE c == Head(channel)
    <2>1. c \in Calls
      BY <1>3, HeadFacts, Zenon DEF TakeRequest, AInv
    <2>2. \E tbls, queue : Write([calls EXCEPT ![c] = taken(calls[c], "Waiting")], tbls, queue)
      <3>1. [calls EXCEPT ![c] = taken(calls[c], "Waiting")]
              = [calls EXCEPT ![c].phase = IF @ = "Queued" THEN "Waiting" ELSE @]
        BY Zenon DEF taken
      <3> QED
        BY <1>3, <3>1, Zenon DEF TakeRequest
    <2> HIDE DEF c
    <2> QED
      BY <1>2, <2>1, <2>2, Zenon
  <1>4. ASSUME TakeFire PROVE \A d \in Calls : Honest(d)
    <2> DEFINE c == Head(channel)
    <2>1. c \in Calls /\ calls[c].command # "Request"
      BY <1>4, HeadFacts, Zenon DEF TakeFire, AInv
    <2>2. \E tbls, queue : Write([calls EXCEPT ![c] = taken(calls[c], "Firing")], tbls, queue)
      <3>1. [calls EXCEPT ![c] = taken(calls[c], "Firing")]
              = [calls EXCEPT ![c].phase = IF @ = "Queued" THEN "Firing" ELSE @]
        BY Zenon DEF taken
      <3> QED
        BY <1>4, <3>1, Zenon DEF TakeFire
    <2> HIDE DEF c
    <2> QED
      BY <1>2, <2>1, <2>2, Zenon
  <1>5. ASSUME TakeClose PROVE \A d \in Calls : Honest(d)
    BY <1>5, EndHonest, Zenon DEF TakeClose
  <1> QED
    BY <1>3, <1>4, <1>5, Zenon DEF Command
-----------------------------------------------------------------------------
\* A call that wrote a request stays in its table.
LEMMA WritersKeepTables ==
  ASSUME AInv, \A c \in Calls : Honest(c)
  PROVE  \A c \in Writers : c \in Calls /\ table(c)' = table(c)
  <1> SUFFICES ASSUME NEW c \in Writers PROVE c \in Calls /\ table(c)' = table(c)
    OBVIOUS
  <1>1. c \in Calls
    BY Zenon DEF AInv, IInv, ControlTypeOK, Writers
  <1>2. calls[c].phase # "Idle"
    BY <1>1, Zenon DEF AInv, IInv, RequestsInv
  <1> QED
    BY <1>1, <1>2, TableKept, Zenon DEF Honest

\* A step that writes no request keeps the ids apart.
LEMMA IdsKept ==
  ASSUME AInv, \A c \in Calls : Honest(c), UNCHANGED <<written, next_id>>
  PROVE  IdsInv' /\ AnswersAreOwn'
  <1>1. AnswersAreOwn'
    BY Zenon DEF Honest, AnswersAreOwn, Own
  <1>2. ASSUME NEW r \in written PROVE r.call \in Writers /\ table(r.call)' = table(r.call)
    BY WritersKeepTables, Zenon DEF Writers
  <1>3. Writers' = Writers /\ \A t : Requesters(t)' = Requesters(t)
    BY WritersKeepTables, Zenon DEF Writers, Requesters
  <1>4. IdsInv
    BY Zenon DEF AInv
  <1>5. /\ \A r, s \in written' : r.call = s.call => r = s
        /\ \A r, s \in written' : table(r.call)' = table(s.call)' /\ r.id = s.id => r = s
    BY <1>2, <1>4 DEF IdsInv
  <1>6. \A r \in written' : r.id <= Cardinality(Requesters(table(r.call))')
    BY <1>2, <1>3, <1>4, Zenon DEF IdsInv
  <1>7. \A t \in Tables : Cardinality(Requesters(t)') < MAX_ID => next_id'[t] = Cardinality(Requesters(t)') + 1
    BY <1>3, <1>4, Zenon DEF IdsInv
  <1> QED
    BY <1>1, <1>5, <1>6, <1>7, Zenon DEF IdsInv

\* The next request of a table has the next id: none of the ids in use is as
\* large, and there are enough.
LEMMA IdsTaken ==
  ASSUME AInv, TakeRequest, \A c \in Calls : Honest(c), IsFiniteSet(Calls), Cardinality(Calls) <= MAX_ID
  PROVE  IdsInv' /\ AnswersAreOwn'
  <1>a. PICK c, t, n, id : /\ c = Head(channel)
                           /\ t = table(c)
                           /\ n = Cardinality(Requesters(t))
                           /\ id = allocate_id(next_id[t], DOMAIN pending[t])
    OBVIOUS
  <1> DEFINE request == [call |-> c, id |-> id]
  <1>1. /\ IInv /\ IdsInv /\ ControlTypeOK /\ RequestsInv /\ PendingInv /\ MAX_ID \in Nat \ {0}
        /\ channel # << >> /\ calls[c].command = "Request" /\ Cardinality(DOMAIN pending[t]) < MAX_ID
        /\ next_id' = [next_id EXCEPT ![t] = successor(id)] /\ written' = written \cup {request}
    BY <1>a, ControlAssumption, Zenon DEF AInv, IInv, TakeRequest
  <1>2. c \in Calls /\ c \notin Writers /\ t \in Tables
    <2>1. c \in Calls /\ channel \in Seq(Calls)
      BY <1>1, <1>a, HeadFacts, Zenon DEF ControlTypeOK
    <2>2. c = channel[1] /\ 1 \in 1 .. Len(channel)
      BY <1>1, <1>a, <2>1
    <2>3. c \notin Writers
      BY <1>1, <2>1, <2>2, Zenon DEF RequestsInv
    <2> QED
      BY <1>a, <2>1, <2>3, Zenon DEF table, Tables
  <1>3. /\ IsFiniteSet(Requesters(t)) /\ n \in Nat /\ n < MAX_ID
        /\ IsFiniteSet(Requesters(t) \cup {c}) /\ Cardinality(Requesters(t) \cup {c}) = n + 1
    <2>1. Writers \subseteq Calls
      BY <1>1 DEF ControlTypeOK, Writers
    <2>2. Requesters(t) \subseteq Calls /\ c \notin Requesters(t) /\ Requesters(t) \cup {c} \subseteq Calls
      BY <1>2, <2>1, Zenon DEF Requesters
    <2>3. IsFiniteSet(Requesters(t)) /\ n \in Nat
      BY <1>a, <2>2, FS_Subset, FS_CardinalityType, Zenon
    <2>4. IsFiniteSet(Requesters(t) \cup {c}) /\ Cardinality(Requesters(t) \cup {c}) = n + 1
      BY <1>a, <2>2, <2>3, FS_AddElement, Zenon
    <2>5. Cardinality(Requesters(t) \cup {c}) <= Cardinality(Calls) /\ Cardinality(Calls) \in Nat
      BY <2>2, FS_Subset, FS_CardinalityType, Zenon
    <2> QED
      BY <1>1, <2>3, <2>4, <2>5
  <1>4. id = n + 1
    <2>1. next_id[t] = n + 1 /\ next_id[t] \in 1 .. MAX_ID
      BY <1>1, <1>2, <1>3, <1>a, Zenon DEF IdsInv, ControlTypeOK
    <2>2. DOMAIN pending[t] \in SUBSET (1 .. MAX_ID)
      BY <1>1, <1>2, Zenon DEF ControlTypeOK
    <2>3. n + 1 \notin DOMAIN pending[t]
      <3> SUFFICES ASSUME n + 1 \in DOMAIN pending[t] PROVE FALSE
        OBVIOUS
      <3> DEFINE r == [call |-> pending[t][n + 1], id |-> n + 1]
      <3>1. r \in written /\ table(r.call) = t /\ r.id = n + 1
        BY <1>1, <1>2, Zenon DEF PendingInv
      <3>2. n + 1 <= n
        BY <1>1, <1>a, <3>1, Zenon DEF IdsInv
      <3> QED
        BY <1>3, <3>2
    <2> QED
      BY <1>1, <1>a, <2>1, <2>2, <2>3, AllocateId
  <1>5. /\ \A r \in written : r.call \in Writers /\ r.call # c /\ table(r.call)' = table(r.call)
        /\ request.call = c /\ request.id = n + 1 /\ table(c)' = t
    <2>1. \A r \in written : r.call \in Writers
      BY Zenon DEF Writers
    <2>2. table(c)' = table(c)
      <3>1. calls[c].phase # "Idle"
        BY <1>1, <1>a, HeadFacts, Zenon
      <3> QED
        BY <1>2, <3>1, TableKept, Zenon DEF Honest
    <2> QED
      BY <1>2, <1>4, <1>a, <2>1, <2>2, WritersKeepTables, Zenon
  <1>6. /\ Requesters(t)' = Requesters(t) \cup {c}
        /\ \A u \in Tables : u # t => Requesters(u)' = Requesters(u)
    <2>1. Writers' = Writers \cup {c}
      BY <1>1, <1>5, Zenon DEF Writers
    <2> QED
      BY <1>5, <2>1, WritersKeepTables, Zenon DEF Requesters
  <1>7. \A r \in written : table(r.call) = t => r.id <= n /\ r.id \in Nat
    <2>1. \A r \in written : table(r.call) = t => r.id <= n
      BY <1>1, <1>a, Zenon DEF IdsInv
    <2>2. \A r \in written : r.id \in Nat
      BY <1>1 DEF ControlTypeOK
    <2> QED
      BY <2>1, <2>2, Zenon
  <1>8. \A r, s \in written' : r.call = s.call => r = s
    BY <1>1, <1>5, Zenon DEF IdsInv
  <1>9. \A r, s \in written' : table(r.call)' = table(s.call)' /\ r.id = s.id => r = s
    <2>1. \A r \in written : ~(table(r.call)' = t /\ r.id = n + 1)
      BY <1>3, <1>5, <1>7
    <2>2. \A r, s \in written : table(r.call)' = table(s.call)' /\ r.id = s.id => r = s
      BY <1>1, <1>5, Zenon DEF IdsInv
    <2> HIDE DEF request
    <2> QED
      BY <1>1, <1>5, <2>1, <2>2, Zenon
  <1>10. \A r \in written' : r.id <= Cardinality(Requesters(table(r.call))')
    <2>1. ASSUME NEW r \in written PROVE r.id <= Cardinality(Requesters(table(r.call))')
      <3>1. CASE table(r.call) = t
        BY <1>3, <1>5, <1>6, <1>7, <3>1
      <3>2. CASE table(r.call) # t
        <4>1. table(r.call) \in Tables
          BY Zenon DEF table, Tables
        <4> QED
          BY <1>1, <1>5, <1>6, <3>2, <4>1, Zenon DEF IdsInv
      <3> QED
        BY <3>1, <3>2, Zenon
    <2>2. request.id <= Cardinality(Requesters(table(request.call))')
      BY <1>3, <1>5, <1>6
    <2> QED
      BY <1>1, <2>1, <2>2, Zenon
  <1>11. \A u \in Tables : Cardinality(Requesters(u)') < MAX_ID => next_id'[u] = Cardinality(Requesters(u)') + 1
    <2>1. next_id \in [Tables -> 1 .. MAX_ID]
      BY <1>1, Zenon DEF ControlTypeOK
    <2>2. n + 1 < MAX_ID => successor(id) = n + 1 + 1
      BY <1>1, <1>3, <1>4, SuccessorType
    <2> QED
      BY <1>1, <1>2, <1>3, <1>6, <2>1, <2>2, Zenon DEF IdsInv
  <1>12. AnswersAreOwn'
    BY Zenon DEF Honest, AnswersAreOwn, Own
  <1> QED
    BY <1>8, <1>9, <1>10, <1>11, <1>12, Zenon DEF IdsInv

\* Every step keeps answers with the calls they answer.
LEMMA NextAInv ==
  ASSUME AInv, Next, IsFiniteSet(Calls), Cardinality(Calls) <= MAX_ID
  PROVE  AInv'
  <1>1. IInv'
    BY NextIInv, Zenon DEF AInv
  <1>2. \A c \in Calls : Honest(c)
    BY CallerHonest, CommandHonest, MessageHonest, HeartbeatHonest, EndHonest, Zenon DEF Next, WriteFails
  <1>3. TakeRequest \/ UNCHANGED <<written, next_id>>
    <2>1. ASSUME Caller PROVE UNCHANGED <<written, next_id>>
      BY <2>1, Zenon DEF Caller, Issue, Send, GiveUp, Proceed, DropConnection, tables
    <2>2. ASSUME Command PROVE TakeRequest \/ UNCHANGED <<written, next_id>>
      BY <2>2, Zenon DEF Command, TakeFire, TakeClose
    <2>3. ASSUME Message PROVE UNCHANGED <<written, next_id>>
      BY <2>3, Zenon DEF Message, ReceiverStatus, ReceiverError, AppAvailability, ProductInfo, Answer, OfferError, Settle,
                  ApplicationClose, Disconnect
    <2>4. ASSUME Heartbeat PROVE UNCHANGED <<written, next_id>>
      BY <2>4, Zenon DEF Heartbeat, HeartbeatArrives, ReadHeartbeat, HeartbeatTick, Tick, tables
    <2> QED
      BY <2>1, <2>2, <2>3, <2>4, Zenon DEF Next, WriteFails
  <1> QED
    BY <1>1, <1>2, <1>3, IdsKept, IdsTaken, Zenon DEF AInv

\* Nothing is written at first.
LEMMA InitAInv ==
  ASSUME Init PROVE AInv
  <1>1. AnswersAreOwn
    BY Zenon DEF Init, no_response, AnswersAreOwn
  <1>2. IdsInv
    <2>1. written = {} /\ \A t : Requesters(t) = {}
      BY Zenon DEF Init, Requesters, Writers
    <2>2. Cardinality({}) = 0
      BY FS_EmptySet, Zenon
    <2>3. \A t \in Tables : next_id[t] = 1
      BY Zenon DEF Init
    <2>4. \A t : Cardinality(Requesters(t)) = 0
      BY <2>1, <2>2, Zenon
    <2>5. \A t \in Tables : Cardinality(Requesters(t)) < MAX_ID => next_id[t] = Cardinality(Requesters(t)) + 1
      BY <2>3, <2>4
    <2> QED
      BY <2>1, <2>5, Zenon DEF IdsInv
  <1> QED
    BY <1>1, <1>2, InitIInv, Zenon DEF AInv

\* A stuttering step.
LEMMA UnchangedAInv ==
  ASSUME AInv, UNCHANGED vars PROVE AInv'
  <1>1. IInv'
    BY UnchangedIInv, Zenon DEF AInv
  <1>2. \A c \in Calls : Honest(c)
    BY Zenon DEF AInv, AnswersAreOwn, Honest, Own, vars
  <1> QED
    BY <1>1, <1>2, IdsKept, Zenon DEF AInv, vars, tables

\* With no more calls than ids, a call that succeeds was given the answer to its
\* own request: allocate_id never gives an id twice, and an answer to a request
\* that timed out finds nothing pending under its id.
THEOREM AnswersSafe ==
  ASSUME IsFiniteSet(Calls), Cardinality(Calls) <= MAX_ID
  PROVE  Spec => []AnswersAreOwn
  <1>1. ASSUME AInv, [Next]_vars PROVE AInv'
    BY <1>1, NextAInv, UnchangedAInv, Zenon
  <1>2. AInv => AnswersAreOwn
    BY Zenon DEF AInv
  <1> QED
    BY <1>1, <1>2, InitAInv, PTL DEF Spec
=============================================================================
