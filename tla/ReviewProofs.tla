---------------------------- MODULE ReviewProofs ----------------------------
(***************************************************************************)
(* Proofs about RoleReview, and so about CatalogBuild and Calls below it:  *)
(* for any number of batches, roles, questions, attempts and executions.   *)
(***************************************************************************)
EXTENDS RoleReview, FiniteSetTheorems, TLAPS

-----------------------------------------------------------------------------
(* The invariant.                                                          *)

CallFields == {"pc", "left", "tries", "asks", "limit", "answer"}

CallsTyped ==
  /\ DOMAIN call = Threads
  /\ \A t \in Threads :
       /\ DOMAIN call[t] = CallFields
       /\ call[t].pc \in {"none", "waiting", "asking", "ready", "sent", "done"}
       /\ call[t].left \in Nat /\ call[t].tries \in 0..MaxTransient
       /\ call[t].answer \in {"none", "complete", "defective", "outage", "quota", "refused"}
  /\ active \in Nat /\ cooldown \in Nat /\ window \in Nat

\* Who has not looked at the cooldown since it was last registered waits as long as it asks;
\* and no more is waited for than is asked.
Pausing ==
  /\ window <= cooldown
  /\ \A t \in Threads :
       /\ call[t].pc \in {"asking", "sent"} => call[t].left = 0
       /\ t \in Underway /\ t \notin ahead => window <= call[t].left

Counted == active = Cardinality(Inside) /\ active <= Permits

BatchTyped ==
  /\ DOMAIN batch = Batches
  /\ \A b \in Batches :
       /\ DOMAIN batch[b] = {"pc", "attempt", "result"}
       /\ batch[b].pc \in {"waiting", "checking", "calling", "done"}
       /\ batch[b].attempt \in 0..MaxAttempts
  /\ stored \subseteq Batches /\ runs \in 1..MaxRuns

\* What a batch says is what is kept of it, and what is kept is not worked at.
Kept ==
  /\ \A b \in Batches :
       /\ batch[b].result = "valid" => b \in stored
       /\ batch[b].pc \in {"checking", "calling"} => b \notin stored
  /\ node = "finalize" => whole \/ compatible
  /\ CatalogComplete

\* No call outlives the pool it was made for: the reviews begin with an empty gate.
Family == {"review", "reviewing", "reviewed"}
Pools ==
  /\ node \in {"prepare", "finalize"} \cup Family =>
       \A b \in Batches : batch[b].pc \in {"waiting", "done"}
  /\ node \in {"finalize"} \cup Family => \A b \in Batches : batch[b].pc = "done"
  /\ node \notin Family => \A t \in Threads : call[t].pc # "none" => batch[t].pc = "calling"
  /\ node \in {"prepare", "finalize", "failed", "compile", "leaving"} \cup Family

RowsTyped ==
  /\ setting \in Settings
  /\ DOMAIN rows = Roles /\ DOMAIN todo = Roles /\ DOMAIN phase = Roles
  /\ text \in [Questions -> [Parts -> Nat]]
  /\ \A r \in Roles : /\ DOMAIN rows[r] = Questions
                      /\ \A q \in Questions : rows[r][q] \in {"none", "PASS", "FAIL", "ERROR"}
                      /\ phase[r] \in {"batch", "corrective", "single", "ended"}

\* A role that has ended has a row for every question it was asked about; one that asks about
\* them one by one has all those before it that have no row yet.
Covered ==
  node = "reviewing" =>
    \A r \in Roles :
      /\ phase[r] = "ended" => \A q \in Asked(r) : rows[r][q] # "none"
      /\ phase[r] = "single" =>
           /\ \E S : todo[r] \in Seq(S)
           /\ \A q \in Asked(r) : rows[r][q] = "none" => \E i \in 1..Len(todo[r]) : q \in todo[r][i]

\* Whatever says that a text passed goes back to the role that passed it, or a text that was
\* the same for that role; and no text of the future is remembered.
Earned ==
  /\ \A e \in passed : /\ e[1] \in Questions /\ e[2] \in Roles
                       /\ \A p \in Depends[e[2]] : e[3][p] \in 0..text[e[1]][p]
  /\ \A q \in Questions, r \in Roles :
       /\ Known(q, r) => PassedFor(q, r)
       /\ rows[r][q] = "PASS" => node = "reviewing" /\ PassedFor(q, r)
  /\ PassIsEarned

IInv ==
  /\ CallsTyped /\ Pausing /\ Counted /\ BatchTyped /\ Kept /\ Pools
  /\ RowsTyped /\ Covered /\ Earned

-----------------------------------------------------------------------------
(* The calls.                                                              *)

CallTyped(c) ==
  /\ DOMAIN c = CallFields
  /\ c.pc \in {"none", "waiting", "asking", "ready", "sent", "done"}
  /\ c.left \in Nat /\ c.tries \in 0..MaxTransient
  /\ c.answer \in {"none", "complete", "defective", "outage", "quota", "refused"}

Within == {"asking", "ready", "sent"}

\* A step of one call.
Turned(t) == /\ DOMAIN call' = Threads /\ \A u \in Threads : u # t => call'[u] = call[u]

LEMMA InsideFinite == IsFiniteSet(Inside) /\ Inside \subseteq Threads
  <1>1. Inside \subseteq Threads
    BY DEF Inside
  <1> QED BY <1>1, CallsAssumption, FS_Subset

LEMMA TurnedTyped ==
  ASSUME CallsTyped, NEW t \in Threads, Turned(t), CallTyped(call'[t]),
         active' \in Nat, cooldown' \in Nat, window' \in Nat
  PROVE  CallsTyped'
  BY DEF CallsTyped, CallTyped, Turned

LEMMA InsideSame ==
  ASSUME NEW t \in Threads, Turned(t), call'[t].pc \in Within <=> call[t].pc \in Within
  PROVE  Inside' = Inside
  BY DEF Inside, Turned, Within

LEMMA InsideMore ==
  ASSUME NEW t \in Threads, Turned(t), call'[t].pc \in Within, call[t].pc \notin Within
  PROVE  Cardinality(Inside') = Cardinality(Inside) + 1 /\ Cardinality(Inside) \in Nat
  <1>1. Inside' = Inside \cup {t} /\ t \notin Inside
    BY DEF Inside, Turned, Within
  <1> QED BY <1>1, InsideFinite, FS_AddElement, FS_CardinalityType

LEMMA InsideLess ==
  ASSUME NEW t \in Threads, Turned(t), call'[t].pc \notin Within, call[t].pc \in Within
  PROVE  /\ Cardinality(Inside') = Cardinality(Inside) - 1 /\ Cardinality(Inside) - 1 \in Nat
         /\ Cardinality(Inside') \in Nat
  <1>1. Inside' = Inside \ {t} /\ t \in Inside
    BY DEF Inside, Turned, Within
  <1>2. Cardinality(Inside \ {t}) = Cardinality(Inside) - 1 /\ IsFiniteSet(Inside \ {t})
    BY <1>1, InsideFinite, FS_RemoveElement
  <1> QED BY <1>1, <1>2, FS_CardinalityType

LEMMA TurnedPausing ==
  ASSUME Pausing, NEW t \in Threads, Turned(t), window' <= cooldown', window' = window,
         ahead \ {t} \subseteq ahead',
         call'[t].pc \in {"asking", "sent"} => call'[t].left = 0,
         call'[t].pc \notin {"none", "done"} /\ t \notin ahead' => window' <= call'[t].left
  PROVE  Pausing'
  BY DEF Pausing, Turned, Underway

\* The gate of a call is open as long as it was, for a process that goes on.
Gate == active = Cardinality(Inside)

LEMMA RequestSafe ==
  ASSUME CallsTyped, Pausing, Gate, NEW t \in Threads, NEW limit, Request(t, limit)
  PROVE  CallsTyped' /\ Pausing' /\ Gate' /\ active' = active /\ Turned(t)
         /\ call'[t].pc = "waiting"
  <1>1. Turned(t) /\ call'[t] = Requested(limit)
    BY DEF Request, CallsTyped, Turned
  <1>2. /\ DOMAIN Requested(limit) = CallFields /\ Requested(limit).pc = "waiting"
        /\ Requested(limit).left = cooldown /\ Requested(limit).tries = 0
        /\ Requested(limit).answer = "none"
    BY DEF Requested, NoCall, CallFields
  <1>3. UNCHANGED <<active, cooldown, window>> /\ call[t].pc = "none" /\ ahead' = ahead \ {t}
    BY DEF Request
  <1>4. CallTyped(call'[t])
    BY <1>1, <1>2, CallsAssumption DEF CallTyped, CallsTyped
  <1>5. CallsTyped'
    BY <1>1, <1>3, <1>4, TurnedTyped DEF CallsTyped
  <1>6. Pausing'
    BY <1>1, <1>2, <1>3, TurnedPausing DEF Pausing
  <1>7. Inside' = Inside
    BY <1>1, <1>2, <1>3, InsideSame DEF Within
  <1> QED BY <1>1, <1>2, <1>3, <1>5, <1>6, <1>7 DEF Gate

\* Whatever a call is answered, its permit is given back.
LEMMA ReturnSafe ==
  ASSUME CallsTyped, Gate, NEW t \in Threads, call[t].pc \in Within,
         NEW answer \in {"complete", "defective", "outage", "quota", "refused"},
         Return(t, answer), cooldown' \in Nat, window' \in Nat
  PROVE  CallsTyped' /\ Gate' /\ active' <= active /\ Turned(t) /\ call'[t].pc = "done"
  <1>1. Turned(t) /\ call'[t] = [NoCall EXCEPT !.pc = "done", !.answer = answer]
    BY DEF Return, CallsTyped, Turned
  <1>2. /\ DOMAIN call'[t] = CallFields /\ call'[t].pc = "done" /\ call'[t].left = 0
        /\ call'[t].tries = 0 /\ call'[t].answer = answer
    BY <1>1 DEF NoCall, CallFields
  <1>3. /\ Cardinality(Inside') = Cardinality(Inside) - 1 /\ Cardinality(Inside) - 1 \in Nat
    BY <1>1, <1>2, InsideLess DEF Within
  <1>4. active' = active - 1
    BY DEF Return, Released
  <1>5. CallTyped(call'[t])
    BY <1>2, CallsAssumption DEF CallTyped
  <1>6. CallsTyped' /\ Gate' /\ active' <= active
    BY <1>1, <1>3, <1>4, <1>5, TurnedTyped DEF Gate, CallsTyped
  <1> QED BY <1>1, <1>2, <1>6

\* A call that stays inside the gate.
LEMMA StaySafe ==
  ASSUME CallsTyped, Gate, NEW t \in Threads, Turned(t), CallTyped(call'[t]),
         call[t].pc \in Within, call'[t].pc \in Within, UNCHANGED active,
         cooldown' \in Nat, window' \in Nat
  PROVE  CallsTyped' /\ Gate' /\ active' <= active
  <1>1. Inside' = Inside
    BY InsideSame
  <1>2. CallsTyped'
    BY TurnedTyped DEF CallsTyped
  <1> QED BY <1>1, <1>2 DEF Gate, CallsTyped

\* What a step of a call inside the gate does, whatever it is: no more calls are inside.
LEMMA CallStep ==
  ASSUME CallsTyped, Pausing, Gate, NEW t \in Threads,
         \/ Ask(t) \/ Send(t) \/ Answered(t) \/ Defective(t) \/ OutOfQuota(t) \/ Refused(t)
  PROVE  CallsTyped' /\ Pausing' /\ Gate' /\ active' <= active /\ Turned(t)
         /\ call[t].pc # "none"
  <1> DEFINE Good == CallsTyped' /\ Pausing' /\ Gate' /\ active' <= active /\ Turned(t)
                     /\ call[t].pc # "none"
  <1>1. ASSUME call[t].pc \in Within, UNCHANGED <<cooldown, window, ahead>>,
               NEW answer \in {"complete", "defective", "outage", "quota", "refused"},
               Return(t, answer)
        PROVE  Good
    <2>1. CallsTyped' /\ Gate' /\ active' <= active /\ Turned(t) /\ call'[t].pc = "done"
      BY <1>1, ReturnSafe DEF CallsTyped
    <2>2. Pausing'
      BY <1>1, <2>1, TurnedPausing DEF Pausing
    <2> QED BY <1>1, <2>1, <2>2 DEF Within
  <1>2. ASSUME Turned(t), CallTyped(call'[t]), call[t].pc \in Within, call'[t].pc \in Within,
               UNCHANGED <<active, cooldown, window, ahead>>, call'[t].left = call[t].left,
               call'[t].pc \in {"asking", "sent"} => call'[t].left = 0
        PROVE  Good
    <2>1. CallsTyped' /\ Gate' /\ active' <= active
      BY <1>2, StaySafe DEF CallsTyped
    <2>2. t \in Underway
      BY <1>2 DEF Underway, Within
    <2>3. Pausing'
      BY <1>2, <2>2, TurnedPausing DEF Pausing
    <2> QED BY <1>2, <2>1, <2>3 DEF Within
  <1>3. CASE Ask(t)
    <2>1. CASE blocked
      BY <1>1, <1>3, <2>1 DEF Ask, Within
    <2>2. CASE ~blocked
      <3>1. call' = [call EXCEPT ![t].pc = "ready", ![t].tries = 0] /\ call[t].pc = "asking"
            /\ UNCHANGED <<active, cooldown, window, ahead>>
        BY <1>3, <2>2 DEF Ask
      <3>2. /\ Turned(t) /\ DOMAIN call'[t] = DOMAIN call[t] /\ call'[t].pc = "ready"
            /\ call'[t].tries = 0 /\ call'[t].left = call[t].left
            /\ call'[t].answer = call[t].answer
        BY <3>1 DEF CallsTyped, CallFields, Turned
      <3>3. CallTyped(call'[t])
        BY <3>2, CallsAssumption DEF CallTyped, CallsTyped
      <3> QED BY <1>2, <3>1, <3>2, <3>3 DEF Within
    <2> QED BY <2>1, <2>2
  <1>4. CASE Send(t)
    <2>1. call' = [call EXCEPT ![t].pc = "sent"] /\ call[t].pc = "ready" /\ call[t].left = 0
          /\ UNCHANGED <<active, cooldown, window, ahead>>
      BY <1>4 DEF Send, sharedVars
    <2>2. /\ Turned(t) /\ DOMAIN call'[t] = DOMAIN call[t] /\ call'[t].pc = "sent"
          /\ call'[t].tries = call[t].tries /\ call'[t].left = call[t].left
          /\ call'[t].answer = call[t].answer
      BY <2>1 DEF CallsTyped, CallFields, Turned
    <2>3. CallTyped(call'[t])
      BY <2>2 DEF CallTyped, CallsTyped
    <2> QED BY <1>2, <2>1, <2>2, <2>3 DEF Within
  <1>5. CASE Defective(t)
    <2>1. CASE call[t].asks + 1 = call[t].limit
      BY <1>1, <1>5, <2>1 DEF Defective, Within
    <2>2. CASE call[t].asks + 1 # call[t].limit
      <3>1. call' = [call EXCEPT ![t].pc = "asking", ![t].asks = @ + 1]
            /\ call[t].pc = "sent" /\ UNCHANGED <<active, cooldown, window, ahead>>
        BY <1>5, <2>2 DEF Defective
      <3>2. /\ Turned(t) /\ DOMAIN call'[t] = DOMAIN call[t] /\ call'[t].pc = "asking"
            /\ call'[t].tries = call[t].tries /\ call'[t].left = call[t].left
            /\ call'[t].answer = call[t].answer
        BY <3>1 DEF CallsTyped, CallFields, Turned
      <3>3. CallTyped(call'[t])
        BY <3>2 DEF CallTyped, CallsTyped
      <3>4. call[t].left = 0
        BY <3>1 DEF Pausing
      <3> QED BY <1>2, <3>1, <3>2, <3>3, <3>4 DEF Within
    <2> QED BY <2>1, <2>2
  <1>6. CASE Answered(t) \/ OutOfQuota(t) \/ Refused(t)
    BY <1>1, <1>6 DEF Answered, OutOfQuota, Refused, Within
  <1> QED BY <1>3, <1>4, <1>5, <1>6

LEMMA AcquireSafe ==
  ASSUME CallsTyped, Pausing, Gate, NEW t \in Threads, NEW permits \in Nat,
         Acquire(t, permits)
  PROVE  CallsTyped' /\ Pausing' /\ Gate' /\ active' <= permits /\ Turned(t)
         /\ call[t].pc # "none"
  <1>1. call' = [call EXCEPT ![t].pc = "asking"] /\ call[t].pc = "waiting"
        /\ call[t].left = 0 /\ active < permits /\ active' = active + 1
        /\ UNCHANGED <<cooldown, window, ahead>>
    BY DEF Acquire
  <1>2. /\ Turned(t) /\ DOMAIN call'[t] = DOMAIN call[t] /\ call'[t].pc = "asking"
        /\ call'[t].tries = call[t].tries /\ call'[t].left = call[t].left
        /\ call'[t].answer = call[t].answer
    BY <1>1 DEF CallsTyped, CallFields, Turned
  <1>3. CallTyped(call'[t])
    BY <1>2 DEF CallTyped, CallsTyped
  <1>4. Cardinality(Inside') = Cardinality(Inside) + 1
    BY <1>1, <1>2, InsideMore DEF Within
  <1>5. CallsTyped'
    BY <1>1, <1>2, <1>3, TurnedTyped DEF CallsTyped
  <1>6. t \in Underway
    BY <1>1 DEF Underway
  <1>7. Pausing'
    BY <1>1, <1>2, <1>6, TurnedPausing DEF Pausing
  <1> QED BY <1>1, <1>2, <1>4, <1>5, <1>7 DEF Gate, CallsTyped

\* A failed request puts everyone at work ahead of the pause it registers.
LEMMA TransientSafe ==
  ASSUME CallsTyped, Pausing, Gate, NEW t \in Threads, Transient(t)
  PROVE  CallsTyped' /\ Pausing' /\ Gate' /\ active' <= active /\ Turned(t)
         /\ call[t].pc # "none"
  <1>1. PICK pause \in Pauses :
          /\ cooldown' = Cooled(pause) /\ window' = Longer(window, pause)
          /\ ahead' = IF pause > 0 THEN ahead \cup Underway ELSE ahead
          /\ IF call[t].tries = MaxTransient THEN Return(t, "outage")
             ELSE /\ call' = [call EXCEPT ![t].pc = "ready", ![t].tries = @ + 1,
                                          ![t].left = pause]
                  /\ UNCHANGED active
    BY DEF Transient
  <1>2. call[t].pc = "sent" /\ call[t].left = 0
    BY DEF Transient, Pausing
  <1>3. /\ pause \in Nat /\ cooldown' \in Nat /\ window' \in Nat /\ window' <= cooldown'
        /\ pause = 0 => window' = window
    BY <1>1, CallsAssumption DEF Cooled, Longer, CallsTyped, Pausing
  <1>4. CallsTyped' /\ Gate' /\ active' <= active /\ Turned(t)
        /\ \/ call'[t].pc = "done"
           \/ call'[t].pc = "ready" /\ call'[t].left = pause
    <2>1. CASE call[t].tries = MaxTransient
      BY <1>1, <1>2, <1>3, <2>1, ReturnSafe DEF Within
    <2>2. CASE call[t].tries # MaxTransient
      <3>1. call' = [call EXCEPT ![t].pc = "ready", ![t].tries = @ + 1, ![t].left = pause]
            /\ UNCHANGED active
        BY <1>1, <2>2
      <3>2. /\ Turned(t) /\ DOMAIN call'[t] = DOMAIN call[t] /\ call'[t].pc = "ready"
            /\ call'[t].tries = call[t].tries + 1 /\ call'[t].left = pause
            /\ call'[t].answer = call[t].answer
        BY <3>1 DEF CallsTyped, CallFields, Turned
      <3>3. CallTyped(call'[t])
        BY <1>3, <2>2, <3>2, CallsAssumption DEF CallTyped, CallsTyped
      <3> QED BY <1>2, <1>3, <3>1, <3>2, <3>3, StaySafe DEF Within
    <2> QED BY <2>1, <2>2
  <1>5. t \in Underway
    BY <1>2 DEF Underway
  <1>6. CASE pause = 0
    BY <1>1, <1>2, <1>3, <1>4, <1>5, <1>6, TurnedPausing DEF Pausing
  <1>7. CASE pause # 0
    <2>1. pause > 0
      BY <1>3, <1>7
    <2>2. Underway' \subseteq Underway
      BY <1>4, <1>5 DEF Underway, Turned
    <2>3. Underway' \subseteq ahead'
      BY <1>1, <2>1, <2>2
    <2>4. \A u \in Threads : call'[u].pc \in {"asking", "sent"} => call'[u].left = 0
      BY <1>4 DEF Turned, Pausing
    <2> QED BY <1>2, <1>3, <1>4, <2>3, <2>4 DEF Pausing
  <1> QED BY <1>2, <1>4, <1>6, <1>7

LEMMA ElapseSafe ==
  ASSUME CallsTyped, Pausing, Gate, Elapse
  PROVE  CallsTyped' /\ Pausing' /\ Gate' /\ active' = active
         /\ \A t \in Threads : call'[t].pc = call[t].pc
  <1>1. /\ DOMAIN call' = Threads /\ active' = active /\ ahead' = ahead
        /\ cooldown' = Less(cooldown) /\ window' = Less(window)
    BY DEF Elapse
  <1>2. \A t \in Threads :
          /\ DOMAIN call'[t] = CallFields /\ call'[t].pc = call[t].pc
          /\ call'[t].left = Less(call[t].left) /\ call'[t].tries = call[t].tries
          /\ call'[t].answer = call[t].answer
    BY DEF Elapse, CallsTyped, CallFields
  <1>3. CallsTyped'
    BY <1>1, <1>2 DEF CallsTyped, Less
  <1>4. Inside' = Inside /\ Underway' = Underway
    BY <1>2 DEF Inside, Underway
  <1>5. Pausing'
    BY <1>1, <1>2, <1>4 DEF Pausing, CallsTyped, Less
  <1> QED BY <1>1, <1>2, <1>3, <1>4, <1>5 DEF Gate

LEMMA CallingSafe ==
  ASSUME CallsTyped, Pausing, Gate, NEW permits \in Nat, active <= permits, Calling(permits)
  PROVE  CallsTyped' /\ Pausing' /\ Gate' /\ active' <= permits
         /\ \A t \in Threads : call'[t].pc # "none" => call[t].pc # "none"
  <1>0. active \in Nat
    BY DEF CallsTyped
  <1>1. ASSUME NEW t \in Threads, CallsTyped', Turned(t), active' <= active, call[t].pc # "none"
        PROVE  /\ active' <= permits
               /\ \A u \in Threads : call'[u].pc # "none" => call[u].pc # "none"
    BY <1>0, <1>1 DEF Turned, CallsTyped
  <1>2. ASSUME NEW t \in Threads,
               \/ Ask(t) \/ Send(t) \/ Answered(t) \/ Defective(t) \/ OutOfQuota(t) \/ Refused(t)
        PROVE  CallsTyped' /\ Pausing' /\ Gate' /\ active' <= permits
               /\ \A u \in Threads : call'[u].pc # "none" => call[u].pc # "none"
    <2>1. CallsTyped' /\ Pausing' /\ Gate' /\ active' <= active /\ Turned(t)
          /\ call[t].pc # "none"
      BY <1>2, CallStep
    <2> QED BY <1>1, <2>1
  <1>3. ASSUME NEW t \in Threads, Transient(t)
        PROVE  CallsTyped' /\ Pausing' /\ Gate' /\ active' <= permits
               /\ \A u \in Threads : call'[u].pc # "none" => call[u].pc # "none"
    <2>1. CallsTyped' /\ Pausing' /\ Gate' /\ active' <= active /\ Turned(t)
          /\ call[t].pc # "none"
      BY <1>3, TransientSafe
    <2> QED BY <1>1, <2>1
  <1>4. ASSUME NEW t \in Threads, Acquire(t, permits)
        PROVE  CallsTyped' /\ Pausing' /\ Gate' /\ active' <= permits
               /\ \A u \in Threads : call'[u].pc # "none" => call[u].pc # "none"
    <2>1. CallsTyped' /\ Pausing' /\ Gate' /\ active' <= permits /\ Turned(t)
          /\ call[t].pc # "none"
      BY <1>4, AcquireSafe
    <2> QED BY <2>1 DEF Turned
  <1>5. CASE Elapse
    BY <1>5, ElapseSafe
  <1> QED BY <1>2, <1>3, <1>4, <1>5 DEF Calling

\* The answer of a call is taken, and there is no call any more.
LEMMA TakenSafe ==
  ASSUME CallsTyped, Pausing, Gate, NEW t \in Threads, call[t].pc = "done",
         call' = [call EXCEPT ![t] = NoCall], UNCHANGED sharedVars
  PROVE  CallsTyped' /\ Pausing' /\ Gate' /\ active' = active /\ Turned(t)
         /\ call'[t].pc = "none"
  <1>1. Turned(t) /\ call'[t] = NoCall
    BY DEF CallsTyped, Turned
  <1>2. DOMAIN NoCall = CallFields /\ NoCall.pc = "none" /\ NoCall.left = 0
        /\ NoCall.tries = 0 /\ NoCall.answer = "none"
    BY DEF NoCall, CallFields
  <1>3. CallTyped(call'[t])
    BY <1>1, <1>2, CallsAssumption DEF CallTyped
  <1>4. CallsTyped'
    BY <1>1, <1>3, TurnedTyped DEF CallsTyped, sharedVars
  <1>5. Pausing'
    BY <1>1, <1>2, TurnedPausing DEF Pausing, sharedVars
  <1>6. Inside' = Inside
    BY <1>1, <1>2, InsideSame DEF Within
  <1> QED BY <1>1, <1>2, <1>4, <1>5, <1>6 DEF Gate, sharedVars

\* A new process has no calls.
LEMMA FreshSafe ==
  ASSUME call' = [t \in Threads |-> NoCall], active' = 0, cooldown' = 0, window' = 0
  PROVE  CallsTyped' /\ Pausing' /\ Gate' /\ \A t \in Threads : call'[t].pc = "none"
  <1>1. \A t \in Threads : call'[t] = NoCall
    OBVIOUS
  <1>2. DOMAIN NoCall = CallFields /\ NoCall.pc = "none" /\ NoCall.left = 0
        /\ NoCall.tries = 0 /\ NoCall.answer = "none"
    BY DEF NoCall, CallFields
  <1>3. CallsTyped' /\ Pausing'
    BY <1>1, <1>2, CallsAssumption DEF CallsTyped, Pausing, Underway
  <1>4. Inside' = {}
    BY <1>1, <1>2 DEF Inside
  <1> QED BY <1>1, <1>2, <1>3, <1>4, FS_EmptySet DEF Gate

LEMMA EmptyGate ==
  ASSUME Gate, \A t \in Threads : call[t].pc \notin Within PROVE active = 0
  <1>1. Inside = {}
    BY DEF Inside, Within
  <1> QED BY <1>1, FS_EmptySet DEF Gate

-----------------------------------------------------------------------------
(* The catalog.                                                            *)

LEMMA Quiet ==
  ASSUME CallsTyped, Gate, Pools, node \in {"prepare", "finalize"}
  PROVE  active = 0 /\ \A t \in Threads : call[t].pc = "none"
  <1>1. \A t \in Threads : call[t].pc = "none"
    BY DEF Pools, Family, Batches
  <1> QED BY <1>1, EmptyGate DEF Within

LEMMA PermitsNat == Permits \in Nat
  BY CatalogAssumption, ReviewAssumption DEF Permits

\* The row of a batch whose thread is at work, after a step of it.
Rowed(b) == DOMAIN batch' = Batches /\ \A c \in Batches : c # b => batch'[c] = batch[c]

LEMMA EndsRow ==
  ASSUME BatchTyped, NEW b \in Batches, NEW result, Ends(b, result)
  PROVE  /\ Rowed(b) /\ DOMAIN batch'[b] = DOMAIN batch[b]
         /\ batch'[b].pc = "done" /\ batch'[b].result = result
         /\ batch'[b].attempt = batch[b].attempt
  BY DEF Ends, BatchTyped, Rowed

LEMMA StepsRow ==
  ASSUME BatchTyped, NEW b \in Batches, NEW s, NEW n,
         batch' = [batch EXCEPT ![b].pc = s, ![b].attempt = n]
  PROVE  /\ Rowed(b) /\ DOMAIN batch'[b] = DOMAIN batch[b]
         /\ batch'[b].pc = s /\ batch'[b].result = batch[b].result
         /\ batch'[b].attempt = n
  BY DEF BatchTyped, Rowed

IdleRow(row) == /\ DOMAIN row = {"pc", "attempt", "result"} /\ row.attempt = 0
                /\ row.pc \in {"waiting", "done"} /\ row.result = "none"

LEMMA IdleRows == IdleRow(Idle) /\ IdleRow(Retired) /\ Idle.pc = "waiting" /\ Retired.pc = "done"
  BY DEF IdleRow, Idle, Retired

\* All batches anew, or all retired.
LEMMA RowsAnew ==
  ASSUME BatchTyped, Kept, NEW row \in {Idle, Retired}, batch' = [b \in Batches |-> row],
         UNCHANGED <<stored, whole>>,
         UNCHANGED compatible, catalog' => catalog \/ whole \/ compatible,
         runs' \in 1..MaxRuns, node' = "finalize" => whole \/ compatible
  PROVE  BatchTyped' /\ Kept' /\ \A b \in Batches : batch'[b].pc = row.pc
  <1>1. \A b \in Batches : batch'[b] = row
    OBVIOUS
  <1>2. IdleRow(row)
    BY IdleRows
  <1>3. BatchTyped'
    BY <1>1, <1>2, CatalogAssumption DEF BatchTyped, IdleRow
  <1>4. Kept'
    BY <1>1, <1>2 DEF Kept, CatalogComplete, IdleRow
  <1> QED BY <1>1, <1>3, <1>4

\* A step that leaves the batches alone.
LEMMA RowsSame ==
  ASSUME BatchTyped, Kept, UNCHANGED <<batch, stored, whole, compatible, catalog>>,
         runs' \in 1..MaxRuns, node' # "finalize"
  PROVE  BatchTyped' /\ Kept'
  BY DEF BatchTyped, Kept, CatalogComplete

Below == CallsTyped /\ Pausing /\ Counted /\ BatchTyped /\ Kept /\ Pools

LEMMA SameCalls ==
  ASSUME CallsTyped, Pausing, Gate, UNCHANGED callVars
  PROVE  CallsTyped' /\ Pausing' /\ Gate' /\ active' = active
  BY DEF CallsTyped, Pausing, Gate, Underway, Inside, callVars, sharedVars

\* The steps of the coordinator make no call.  Where the gate gets another limit it is empty.
LEMMA CoordinatorSafe ==
  ASSUME Below, UNCHANGED callVars,
         Prepare \/ Expire \/ Leave \/ Merge \/ Finalize \/ Cancel
         \/ \E b \in Batches : Raise(b)
  PROVE  Below'
  <1> USE DEF Below
  <1>0. CallsTyped' /\ Pausing' /\ Gate' /\ active' = active /\ active <= Permits /\ Gate
    BY SameCalls DEF Counted, Gate
  <1>c. UNCHANGED call
    BY DEF callVars
  <1>q. ASSUME active = 0 PROVE Counted'
    BY <1>0, <1>q, CatalogAssumption, ReviewAssumption DEF Counted, Gate, Permits
  <1>s. ASSUME node \notin Family, node' \notin Family PROVE Counted'
    BY <1>0, <1>s DEF Counted, Gate, Permits, Family
  <1>1. CASE Prepare
    <2>0. active = 0 /\ node = "prepare" /\ \A t \in Threads : call[t].pc = "none"
      BY <1>0, <1>1, Quiet DEF Prepare
    <2>1. UNCHANGED <<stored, whole, compatible, catalog, runs>>
          /\ node' = IF catalog THEN "review" ELSE IF whole \/ compatible THEN "finalize" ELSE "compile"
      BY <1>1 DEF Prepare
    <2>2. CASE catalog \/ whole \/ compatible
      <3>1. batch' = [b \in Batches |-> Retired]
        BY <1>1, <2>2 DEF Prepare
      <3>2. BatchTyped' /\ Kept' /\ \A b \in Batches : batch'[b].pc = "done"
        BY <2>1, <3>1, RowsAnew, IdleRows DEF BatchTyped
      <3>3. Pools'
        BY <1>c, <2>0, <2>1, <3>2 DEF Pools, Family
      <3> QED BY <1>0, <1>q, <2>0, <3>2, <3>3
    <2>3. CASE ~catalog /\ ~whole /\ ~compatible
      <3>1. batch' = [b \in Batches |-> Idle] /\ node' = "compile"
        BY <1>1, <2>1, <2>3 DEF Prepare
      <3>2. BatchTyped' /\ Kept' /\ \A b \in Batches : batch'[b].pc = "waiting"
        BY <2>1, <3>1, RowsAnew, IdleRows DEF BatchTyped
      <3>3. Pools'
        BY <1>c, <2>0, <3>1, <3>2 DEF Pools, Family
      <3> QED BY <1>0, <1>q, <2>0, <3>2, <3>3
    <2> QED BY <2>2, <2>3
  <1>2. CASE Expire
    <2>1. node \in {"compile", "leaving"} /\ node' \in {"leaving", "failed"}
          /\ UNCHANGED <<batch, stored, whole, compatible, catalog, runs>>
      BY <1>2 DEF Expire
    <2>2. BatchTyped' /\ Kept'
      BY <2>1, RowsSame DEF BatchTyped
    <2>3. Pools'
      BY <1>c, <2>1 DEF Pools, Family
    <2> QED BY <1>0, <1>s, <2>1, <2>2, <2>3 DEF Family
  <1>3. CASE Leave
    <2>1. /\ node = "leaving" /\ node' \in {"prepare", "failed"}
          /\ \A b \in Batches : batch[b].pc = "done"
          /\ runs' \in 1..MaxRuns /\ UNCHANGED <<batch, stored, whole, compatible, catalog>>
      BY <1>3, CatalogAssumption DEF Leave, Retryable, BatchTyped
    <2>2. BatchTyped' /\ Kept'
      BY <2>1, RowsSame
    <2>3. Pools'
      BY <1>c, <2>1 DEF Pools, Family
    <2> QED BY <1>0, <1>s, <2>1, <2>2, <2>3 DEF Family
  <1>4. CASE Merge
    <2>1. /\ node = "compile" /\ node' = "finalize" /\ whole'
          /\ \A b \in Batches : batch[b].pc = "done" /\ batch[b].result = "valid"
          /\ UNCHANGED <<batch, stored, compatible, catalog, runs>>
      BY <1>4 DEF Merge, AllValid
    <2>2. stored = Batches
      BY <2>1 DEF Kept, BatchTyped
    <2>3. BatchTyped' /\ Kept'
      BY <2>1, <2>2 DEF BatchTyped, Kept, CatalogComplete
    <2>4. Pools'
      BY <1>c, <2>1 DEF Pools, Family
    <2> QED BY <1>0, <1>s, <2>1, <2>3, <2>4 DEF Family
  <1>5. CASE Finalize
    <2>0. active = 0 /\ node = "finalize" /\ \A t \in Threads : call[t].pc = "none"
      BY <1>0, <1>5, Quiet DEF Finalize
    <2>1. /\ batch' = [b \in Batches |-> Retired] /\ UNCHANGED <<stored, whole, compatible, runs>>
          /\ node' \in {"review", "failed"} /\ (whole \/ compatible)
      BY <1>5 DEF Finalize, Kept
    <2>2. BatchTyped' /\ Kept' /\ \A b \in Batches : batch'[b].pc = "done"
      BY <2>1, RowsAnew, IdleRows DEF BatchTyped
    <2>3. Pools'
      BY <1>c, <2>0, <2>1, <2>2 DEF Pools, Family
    <2> QED BY <1>0, <1>q, <2>0, <2>2, <2>3
  <1>6. CASE Cancel
    <2>1. UNCHANGED <<batch, stored, whole, compatible, catalog, node, runs>> /\ node # "finalize"
      BY <1>6 DEF Cancel
    <2>2. BatchTyped' /\ Kept'
      BY <2>1, RowsSame DEF BatchTyped
    <2>3. Pools' /\ Counted'
      BY <1>0, <1>c, <2>1 DEF Pools, Counted, Gate, Permits
    <2> QED BY <1>0, <2>2, <2>3
  <1>7. ASSUME NEW b \in Batches, Raise(b) PROVE Below'
    <2>1. node = "compile" /\ node' = "leaving"
          /\ UNCHANGED <<batch, stored, whole, compatible, catalog, runs>>
      BY <1>7 DEF Raise
    <2>2. BatchTyped' /\ Kept'
      BY <2>1, RowsSame DEF BatchTyped
    <2>3. Pools'
      BY <1>c, <2>1 DEF Pools, Family
    <2> QED BY <1>0, <1>s, <2>1, <2>2, <2>3 DEF Family
  <1> QED BY <1>1, <1>2, <1>3, <1>4, <1>5, <1>6, <1>7

\* The steps of the thread of a batch, while there is a pool.
LEMMA BatchSafe ==
  ASSUME Below, NEW b \in Batches, Begin(b) \/ Attempt(b) \/ Received(b)
  PROVE  Below'
  <1> USE DEF Below
  <1>0. Gate /\ active <= Permits /\ active \in Nat
    BY DEF Counted, Gate, CallsTyped
  <1>1. node' = node /\ node \notin {"prepare", "finalize"} \cup Family
    <2>1. batch[b].pc \in {"waiting", "checking", "calling"} /\ node' = node
          /\ (batch[b].pc = "waiting" => node # "prepare")
      BY DEF Begin, Attempt, Received, Queued
    <2> QED BY <2>1 DEF Pools
  <1>2. UNCHANGED <<whole, compatible, catalog, runs>>
    BY DEF Begin, Attempt, Received
  <1>c. ASSUME CallsTyped', Gate', active' <= active PROVE Counted'
    BY <1>0, <1>1, <1>c, PermitsNat DEF Counted, Gate, Permits, CallsTyped
  <1>p. ASSUME Rowed(b), \A t \in Threads : t # b => call'[t] = call[t],
               batch'[b].pc \in {"waiting", "checking", "calling", "done"},
               call'[b].pc # "none" => batch'[b].pc = "calling"
        PROVE  Pools'
    BY <1>1, <1>p DEF Pools, Rowed, Batches
  <1>t. ASSUME Rowed(b), DOMAIN batch'[b] = DOMAIN batch[b],
               batch'[b].pc \in {"waiting", "checking", "calling", "done"},
               batch'[b].attempt \in 0..MaxAttempts, stored' \in {stored, stored \cup {b}}
        PROVE  BatchTyped'
    BY <1>2, <1>t DEF BatchTyped, Rowed
  <1>k. ASSUME Rowed(b), batch'[b].result = "valid" => b \in stored',
               batch'[b].pc \in {"checking", "calling"} => b \notin stored',
               stored' \in {stored, stored \cup {b}}
        PROVE  Kept'
    BY <1>1, <1>2, <1>k DEF Kept, Rowed, CatalogComplete, BatchTyped
  <1>3. CASE Begin(b)
    <2>0. UNCHANGED callVars /\ stored' = stored
      BY <1>3 DEF Begin
    <2>1. CallsTyped' /\ Pausing' /\ Gate' /\ active' = active /\ call' = call
      BY <1>0, <2>0, SameCalls DEF callVars
    <2>2. call[b].pc = "none"
      BY <1>1, <1>3 DEF Pools, Begin, Queued, Batches
    <2>3. CASE Cached(b)
      <3>1. /\ Rowed(b) /\ DOMAIN batch'[b] = DOMAIN batch[b]
            /\ batch'[b].pc = "done" /\ batch'[b].attempt = batch[b].attempt
        BY <1>3, <2>3, EndsRow DEF Begin
      <3>2. b \in stored /\ batch[b].attempt \in 0..MaxAttempts
        BY <2>3 DEF Cached, BatchTyped
      <3> QED BY <1>0, <1>c, <1>p, <1>t, <1>k, <2>0, <2>1, <2>2, <3>1, <3>2
    <2>4. CASE ~Cached(b)
      <3>0. batch' = [batch EXCEPT ![b].pc = "checking", ![b].attempt = 1]
        BY <1>3, <2>4 DEF Begin
      <3>1. /\ Rowed(b) /\ DOMAIN batch'[b] = DOMAIN batch[b]
            /\ batch'[b].pc = "checking" /\ batch'[b].result = batch[b].result
            /\ batch'[b].attempt = 1
        BY <3>0 DEF BatchTyped, Rowed
      <3>2. b \notin stored /\ 1 \in 0..MaxAttempts
        BY <2>4, CatalogAssumption DEF Cached
      <3>3. batch'[b].result # "valid"
        BY <3>1, <3>2 DEF Kept
      <3> QED BY <1>0, <1>c, <1>p, <1>t, <1>k, <2>0, <2>1, <2>2, <3>1, <3>2, <3>3
    <2> QED BY <2>3, <2>4
  <1>4. CASE Attempt(b)
    <2>0. stored' = stored /\ batch[b].pc = "checking" /\ b \notin stored
          /\ batch[b].attempt \in 0..MaxAttempts /\ batch[b].result # "valid"
      BY <1>4 DEF Attempt, Kept, BatchTyped
    <2>1. CASE cancelled
      <3>0. Ends(b, "cancelled") /\ UNCHANGED callVars
        BY <1>4, <2>1 DEF Attempt
      <3>1. /\ Rowed(b) /\ DOMAIN batch'[b] = DOMAIN batch[b]
            /\ batch'[b].pc = "done" /\ batch'[b].attempt = batch[b].attempt
            /\ batch'[b].result = "cancelled"
        BY <3>0, EndsRow
      <3>2. CallsTyped' /\ Pausing' /\ Gate' /\ active' = active /\ call' = call
        BY <1>0, <3>0, SameCalls DEF callVars
      <3>3. call[b].pc = "none"
        BY <1>1, <2>0 DEF Pools, Batches
      <3> QED BY <1>0, <1>c, <1>p, <1>t, <1>k, <2>0, <3>1, <3>2, <3>3
    <2>2. CASE ~cancelled
      <3>0. batch' = [batch EXCEPT ![b].pc = "calling"] /\ Request(b, 1) /\ b \in Threads
        BY <1>4, <2>2 DEF Attempt, Batches
      <3>1. /\ Rowed(b) /\ DOMAIN batch'[b] = DOMAIN batch[b]
            /\ batch'[b].pc = "calling" /\ batch'[b].attempt = batch[b].attempt
            /\ batch'[b].result = batch[b].result
        BY <3>0 DEF BatchTyped, Rowed
      <3>2. CallsTyped' /\ Pausing' /\ Gate' /\ active' = active /\ Turned(b)
        BY <1>0, <3>0, RequestSafe
      <3>3. \A t \in Threads : t # b => call'[t] = call[t]
        BY <3>2 DEF Turned
      <3> QED BY <1>0, <1>c, <1>p, <1>t, <1>k, <2>0, <3>1, <3>2, <3>3
    <2> QED BY <2>1, <2>2
  <1>5. CASE Received(b)
    <2>0. batch[b].pc = "calling" /\ b \notin stored /\ b \in Threads
          /\ batch[b].attempt \in 0..MaxAttempts /\ batch[b].result # "valid"
      BY <1>5 DEF Received, Kept, BatchTyped, Batches
    <2>1. CallsTyped' /\ Pausing' /\ Gate' /\ active' = active /\ Turned(b)
          /\ call'[b].pc = "none"
      BY <1>0, <1>5, <2>0, TakenSafe DEF Received
    <2>2. \A t \in Threads : t # b => call'[t] = call[t]
      BY <2>1 DEF Turned
    <2>3. ASSUME NEW result, Ends(b, result), stored' \in {stored, stored \cup {b}},
                 result = "valid" => stored' = stored \cup {b}
          PROVE  Below'
      <3>1. /\ Rowed(b) /\ DOMAIN batch'[b] = DOMAIN batch[b]
            /\ batch'[b].pc = "done" /\ batch'[b].attempt = batch[b].attempt
            /\ batch'[b].result = result
        BY <2>3, EndsRow
      <3> QED BY <1>0, <1>c, <1>p, <1>t, <1>k, <2>0, <2>1, <2>2, <2>3, <3>1
    <2>4. ASSUME batch' = [batch EXCEPT ![b].pc = "checking", ![b].attempt = NextAttempt(b)],
                 batch[b].attempt # MaxAttempts, stored' = stored
          PROVE  Below'
      <3>1. /\ Rowed(b) /\ DOMAIN batch'[b] = DOMAIN batch[b]
            /\ batch'[b].pc = "checking" /\ batch'[b].attempt = NextAttempt(b)
            /\ batch'[b].result = batch[b].result
        BY <2>4, StepsRow
      <3>2. NextAttempt(b) \in 0..MaxAttempts
        BY <2>0, <2>4, CatalogAssumption DEF NextAttempt
      <3> QED BY <1>0, <1>c, <1>p, <1>t, <1>k, <2>0, <2>1, <2>2, <2>4, <3>1, <3>2
    <2>5. call[b].answer # "valid"
      BY <2>0 DEF CallsTyped
    <2>6. \/ Ends(b, "valid") /\ stored' = stored \cup {b}
          \/ Ends(b, "cancelled") /\ stored' = stored
          \/ Ends(b, "incomplete") /\ stored' = stored
          \/ Ends(b, call[b].answer) /\ stored' = stored
          \/ /\ batch' = [batch EXCEPT ![b].pc = "checking", ![b].attempt = NextAttempt(b)]
             /\ batch[b].attempt # MaxAttempts /\ stored' = stored
      BY <1>5 DEF Received
    <2> QED BY <2>3, <2>4, <2>5, <2>6
  <1> QED BY <1>3, <1>4, <1>5

-----------------------------------------------------------------------------
(* The reviews.                                                            *)

Reviews == Open \/ Close \/ Revise \/ CrashReviewing \/ \E r \in Roles : AskRole(r) \/ Judged(r)

\* The reviews leave the catalog as it is, and share its gate.
LEMMA BelowUnderReviews == ASSUME Below, Reviews PROVE Below'
  <1> USE DEF Below
  <1>0. Gate /\ active <= Permits /\ active \in Nat
    BY DEF Counted, Gate, CallsTyped
  <1>1. ASSUME node \in Family, node' \in Family,
               UNCHANGED <<batch, stored, whole, compatible, catalog, runs>>,
               CallsTyped', Pausing', Gate', active' = active
        PROVE  Below'
    <2>1. BatchTyped' /\ Kept'
      BY <1>1, RowsSame DEF BatchTyped, Family
    <2>2. Pools'
      BY <1>1 DEF Pools, Family
    <2>3. Counted'
      BY <1>0, <1>1 DEF Counted, Gate, Permits, Family
    <2> QED BY <1>1, <2>1, <2>2, <2>3
  <1>2. CASE Open \/ Close \/ Revise
    <2>1. /\ node \in Family /\ node' \in Family /\ UNCHANGED callVars
          /\ UNCHANGED <<batch, stored, whole, compatible, catalog, runs>>
      BY <1>2 DEF Open, Close, Revise, Family
    <2>2. CallsTyped' /\ Pausing' /\ Gate' /\ active' = active
      BY <1>0, <2>1, SameCalls
    <2> QED BY <1>1, <2>1, <2>2
  <1>3. ASSUME NEW r \in Roles, AskRole(r) PROVE Below'
    <2>1. /\ node = "reviewing" /\ Request(r, MaxStructured) /\ r \in Threads
          /\ UNCHANGED <<batch, stored, whole, compatible, catalog, runs, node>>
      BY <1>3 DEF AskRole, catalogVars, Roles
    <2>2. CallsTyped' /\ Pausing' /\ Gate' /\ active' = active
      BY <1>0, <2>1, RequestSafe
    <2> QED BY <1>1, <2>1, <2>2 DEF Family
  <1>4. ASSUME NEW r \in Roles, Judged(r) PROVE Below'
    <2>1. /\ node = "reviewing" /\ call[r].pc = "done" /\ r \in Threads
          /\ call' = [call EXCEPT ![r] = NoCall] /\ UNCHANGED sharedVars
          /\ UNCHANGED <<batch, stored, whole, compatible, catalog, runs, node>>
      BY <1>4 DEF Judged, catalogVars, Roles
    <2>2. CallsTyped' /\ Pausing' /\ Gate' /\ active' = active
      BY <1>0, <2>1, TakenSafe
    <2> QED BY <1>1, <2>1, <2>2 DEF Family
  <1>5. CASE CrashReviewing
    <2>1. /\ call' = [t \in Threads |-> NoCall] /\ active' = 0 /\ cooldown' = 0
          /\ window' = 0 /\ node' = "prepare" /\ batch' = [b \in Batches |-> Idle]
          /\ UNCHANGED <<stored, whole, compatible, catalog>>
      BY <1>5 DEF CrashReviewing, Crash, Started, FreshProcess
    <2>2. runs' \in 1..MaxRuns
      BY <1>5, CatalogAssumption DEF CrashReviewing, Crash, BatchTyped
    <2>3. CallsTyped' /\ Pausing' /\ Gate' /\ \A t \in Threads : call'[t].pc = "none"
      BY <2>1, FreshSafe
    <2>4. BatchTyped' /\ Kept' /\ \A b \in Batches : batch'[b].pc = "waiting"
      BY <2>1, <2>2, RowsAnew, IdleRows
    <2>5. Pools'
      BY <2>1, <2>3, <2>4 DEF Pools, Family
    <2>6. Counted'
      BY <2>1, <2>3, CatalogAssumption, ReviewAssumption DEF Counted, Gate, Permits
    <2> QED BY <2>3, <2>4, <2>5, <2>6
  <1> QED BY <1>2, <1>3, <1>4, <1>5 DEF Reviews

LEMMA BelowUnderCalls ==
  ASSUME Below, Calling(Permits), UNCHANGED catalogVars PROVE Below'
  <1> USE DEF Below
  <1>1. Gate /\ active <= Permits
    BY DEF Counted, Gate
  <1>2. /\ CallsTyped' /\ Pausing' /\ Gate' /\ active' <= Permits
        /\ \A t \in Threads : call'[t].pc # "none" => call[t].pc # "none"
    BY <1>1, PermitsNat, CallingSafe
  <1>3. UNCHANGED <<batch, stored, whole, compatible, catalog, runs, node>>
    BY DEF catalogVars
  <1>4. BatchTyped' /\ Kept'
    BY <1>3 DEF BatchTyped, Kept, CatalogComplete
  <1>5. Pools' /\ Counted'
    BY <1>2, <1>3 DEF Pools, Counted, Gate, Permits
  <1> QED BY <1>2, <1>4, <1>5

LEMMA BelowStays == ASSUME Below, Next PROVE Below'
  <1>1. CASE Building
    BY <1>1, CoordinatorSafe, BatchSafe DEF Building, Prepare, Expire, Leave, Merge, Finalize,
       Cancel, Raise
  <1>2. CASE Calling(Permits) /\ UNCHANGED <<catalogVars, reviewVars>>
    BY <1>2, BelowUnderCalls
  <1>3. CASE Reviews
    BY <1>3, BelowUnderReviews
  <1>4. CASE Done
    BY <1>4, SameCalls DEF Done, vars, Below, callVars, sharedVars, catalogVars, CallsTyped,
       Pausing, Counted, Gate, Permits, Inside, Underway, BatchTyped, Kept, CatalogComplete, Pools
  <1> QED BY <1>1, <1>2, <1>3, <1>4 DEF Next, Reviews

-----------------------------------------------------------------------------
\* The catalog is built before the reviews have said anything.
LEMMA EarnedKept ==
  ASSUME RowsTyped, Covered, Earned, UNCHANGED <<setting, text, passed, rows, todo, phase, verdict>>,
         earned \subseteq earned', node = "reviewing" <=> node' = "reviewing"
  PROVE  RowsTyped' /\ Covered' /\ Earned'
  <1>1. RowsTyped'
    BY DEF RowsTyped, Questions
  <1>2. Covered'
    BY DEF Covered, Questions, Asked
  <1>3. Earned'
    BY DEF Earned, Known, Questions, PassIsEarned, PassedFor
  <1> QED BY <1>1, <1>2, <1>3

\* One by one, a role asks about every question that is left.
LEMMA OneByOneCovers ==
  ASSUME NEW some, IsFiniteSet(some), some \subseteq Nat
  PROVE  /\ \E S : OneByOne(some) \in Seq(S)
         /\ \A q \in some : \E i \in 1..Len(OneByOne(some)) : q \in OneByOne(some)[i]
  <1> DEFINE before(q) == {p \in some : p < q}
             at(n) == CHOOSE q \in some : Cardinality(before(q)) = n - 1
  <1>1. PICK m \in Nat : m = Cardinality(some)
    BY FS_CardinalityType
  <1>2. ASSUME NEW q \in some PROVE IsFiniteSet(before(q)) /\ Cardinality(before(q)) \in 0..m - 1
    <2>1. before(q) \subseteq some /\ before(q) # some
      OBVIOUS
    <2>2. IsFiniteSet(before(q)) /\ Cardinality(before(q)) <= m /\ (Cardinality(before(q)) = m => before(q) = some)
      BY <1>1, <2>1, FS_Subset
    <2>3. Cardinality(before(q)) \in Nat
      BY <2>2, FS_CardinalityType
    <2> QED BY <2>1, <2>2, <2>3
  <1>3. ASSUME NEW q \in some, NEW p \in some, p < q PROVE Cardinality(before(p)) # Cardinality(before(q))
    <2>1. before(p) \subseteq before(q) /\ before(p) # before(q)
      <3>1. p \in before(q) /\ p \notin before(p)
        BY <1>3
      <3>2. before(p) \subseteq before(q)
        <4>1. \A x \in some : x < p => x < q
          BY <1>3
        <4> QED BY <4>1
      <3> QED BY <3>1, <3>2, Zenon
    <2>2. IsFiniteSet(before(q))
      BY <1>2
    <2> QED BY <2>1, <2>2, FS_Subset
  <1>4. ASSUME NEW n \in 1..m, NEW q \in some, Cardinality(before(q)) = n - 1 PROVE at(n) = q
    <2>1. at(n) \in some /\ Cardinality(before(at(n))) = n - 1
      BY <1>4
    <2>2. PICK p \in some : p = at(n) /\ Cardinality(before(p)) = n - 1
      BY <2>1
    <2>3. ~(p < q) /\ ~(q < p)
      BY <1>3, <1>4, <2>2
    <2>4. p \in Nat /\ q \in Nat
      OBVIOUS
    <2> QED BY <2>2, <2>3, <2>4
  <1>5. OneByOne(some) = [n \in 1..m |-> {at(n)}]
    BY <1>1 DEF OneByOne
  <1>6. ASSUME NEW q \in some PROVE \E i \in 1..m : at(i) = q
    <2>1. PICK i : i = Cardinality(before(q)) + 1
      OBVIOUS
    <2>2. i \in 1..m /\ Cardinality(before(q)) = i - 1
      BY <1>2, <2>1
    <2> QED BY <1>4, <2>2
  <1> DEFINE groups == {{at(k)} : k \in 1..m}
  <1>7. OneByOne(some) \in [1..m -> groups] /\ \A n \in 1..m : OneByOne(some)[n] = {at(n)}
    BY <1>5
  <1> HIDE DEF groups, at
  <1>8. OneByOne(some) \in Seq(groups) /\ Len(OneByOne(some)) = m
    BY <1>1, <1>7
  <1>9. \A q \in some : \E i \in 1..Len(OneByOne(some)) : q \in OneByOne(some)[i]
    BY <1>6, <1>7, <1>8
  <1> QED BY <1>8, <1>9

\* What a role passed stays passed, as long as the text is the same to it.
LEMMA PassedStays ==
  ASSUME NEW q, NEW r, PassedFor(q, r), earned \subseteq earned', text' = text
  PROVE  PassedFor(q, r)'
  BY DEF PassedFor, Dependency

LEMMA NumbersOfQuestions ==
  ASSUME RowsTyped PROVE IsFiniteSet(Questions) /\ Questions \subseteq Nat
  BY ReviewAssumption DEF RowsTyped, Questions

LEMMA OpenEarned ==
  ASSUME RowsTyped, Earned, Open PROVE RowsTyped' /\ Covered' /\ Earned'
  <1> DEFINE settled(q, r, anew) == Known(q, r) /\ q \notin anew
  <1>1. PICK anew :
          /\ rows' = [r \in Roles |-> [q \in Questions |->
                        IF q \in Asked(r) /\ settled(q, r, anew) THEN "PASS" ELSE "none"]]
          /\ todo' = [r \in Roles |-> <<{q \in Asked(r) : ~settled(q, r, anew)}>>]
          /\ phase' = [r \in Roles |->
                        IF \A q \in Asked(r) : settled(q, r, anew) THEN "ended" ELSE "batch"]
    BY DEF Open
  <1>2. node' = "reviewing" /\ UNCHANGED <<setting, text, passed, verdict, earned>>
    BY DEF Open
  <1>3. ASSUME NEW q \in Questions, NEW r \in Roles
        PROVE  rows'[r][q] = IF q \in Asked(r) /\ settled(q, r, anew) THEN "PASS" ELSE "none"
    BY <1>1
  <1>4. RowsTyped'
    BY <1>1, <1>2, <1>3 DEF RowsTyped, Questions
  <1>5. Covered'
    <2> SUFFICES ASSUME NEW r \in Roles
                 PROVE  /\ phase'[r] # "single"
                        /\ phase'[r] = "ended" => \A q \in Asked(r) : rows'[r][q] # "none"
      BY <1>2 DEF Covered, Asked, Questions
    <2> QED BY <1>1, <1>3 DEF Asked
  <1>6. ASSUME NEW q \in Questions, NEW r \in Roles, PassedFor(q, r) PROVE PassedFor(q, r)'
    BY <1>2, <1>6, PassedStays
  <1>7. ASSUME NEW q \in Questions, NEW r \in Roles, rows'[r][q] = "PASS" PROVE PassedFor(q, r)'
    BY <1>3, <1>6, <1>7 DEF Earned
  <1>8. Earned'
    <2>1. PassIsEarned'
      BY <1>2 DEF Earned, PassIsEarned, PassedFor, Questions, Dependency
    <2> QED BY <1>2, <1>6, <1>7, <2>1 DEF Earned, Known, Questions
  <1> QED BY <1>4, <1>5, <1>8

\* What an answer makes of the rows of a role.
Judges(r, answer, now, left) ==
  /\ now = rows'[r] /\ DOMAIN rows' = Roles /\ \A s \in Roles : s # r => rows'[s] = rows[s]
  /\ DOMAIN now = Questions
  /\ \A q \in Questions :
       now[q] = IF q \in Head(todo[r])
                THEN IF answer[q] = "none" /\ phase[r] = "single" THEN "ERROR" ELSE answer[q]
                ELSE rows[r][q]
  /\ earned' = earned \cup {<<q, r, text[q]>> : q \in {p \in Head(todo[r]) : answer[p] = "PASS"}}
  /\ left = {q \in Asked(r) : now[q] = "none"}
  /\ todo' = [todo EXCEPT ![r] = Continued(r, left).todo]
  /\ phase' = [phase EXCEPT ![r] = Continued(r, left).phase]
  /\ passed' = IF Continued(r, left).phase # "ended" THEN passed
               ELSE passed \cup {<<q, r, Dependency(r, text[q])>> :
                                   q \in {p \in Asked(r) : now[p] = "PASS"}}

LEMMA JudgedRows ==
  ASSUME RowsTyped, NEW r \in Roles, Judged(r)
  PROVE  \E answer \in Rows(r) : \E now, left : Judges(r, answer, now, left)
  <1>1. PICK answer \in Rows(r) :
       LET given == [q \in Head(todo[r]) |->
                       IF answer[q] = "none" /\ phase[r] = "single" THEN "ERROR" ELSE answer[q]]
           now == [q \in Questions |-> IF q \in Head(todo[r]) THEN given[q] ELSE rows[r][q]]
           next == Continued(r, {q \in Asked(r) : now[q] = "none"})
       IN /\ rows' = [rows EXCEPT ![r] = now]
          /\ earned' = earned \cup {<<q, r, text[q]>> : q \in {p \in Head(todo[r]) : answer[p] = "PASS"}}
          /\ todo' = [todo EXCEPT ![r] = next.todo] /\ phase' = [phase EXCEPT ![r] = next.phase]
          /\ passed' = IF next.phase # "ended" THEN passed
                       ELSE passed \cup {<<q, r, Dependency(r, text[q])>> :
                                           q \in {p \in Asked(r) : now[p] = "PASS"}}
    BY DEF Judged
  <1> DEFINE given == [q \in Head(todo[r]) |->
                        IF answer[q] = "none" /\ phase[r] = "single" THEN "ERROR" ELSE answer[q]]
             now == [q \in Questions |-> IF q \in Head(todo[r]) THEN given[q] ELSE rows[r][q]]
             left == {q \in Asked(r) : now[q] = "none"}
  <1>2. rows' = [rows EXCEPT ![r] = now]
    BY <1>1
  <1>3. earned' = earned \cup {<<q, r, text[q]>> : q \in {p \in Head(todo[r]) : answer[p] = "PASS"}}
    BY <1>1
  <1>4. /\ todo' = [todo EXCEPT ![r] = Continued(r, left).todo]
        /\ phase' = [phase EXCEPT ![r] = Continued(r, left).phase]
        /\ passed' = IF Continued(r, left).phase # "ended" THEN passed
                     ELSE passed \cup {<<q, r, Dependency(r, text[q])>> :
                                         q \in {p \in Asked(r) : now[p] = "PASS"}}
    BY <1>1
  <1>5. now = rows'[r] /\ DOMAIN rows' = Roles /\ \A s \in Roles : s # r => rows'[s] = rows[s]
    BY <1>2 DEF RowsTyped
  <1>6. DOMAIN now = Questions /\ \A q \in Questions :
           now[q] = IF q \in Head(todo[r])
                    THEN IF answer[q] = "none" /\ phase[r] = "single" THEN "ERROR" ELSE answer[q]
                    ELSE rows[r][q]
    OBVIOUS
  <1>7. left = {q \in Asked(r) : now[q] = "none"}
    OBVIOUS
  <1> HIDE DEF now, left
  <1>8. Judges(r, answer, now, left)
    BY <1>3, <1>4, <1>5, <1>6, <1>7, Zenon DEF Judges
  <1> QED BY <1>8

\* What a role asks next leaves no question out.
LEMMA ContinuedCovers ==
  ASSUME RowsTyped, Covered, node = "reviewing", NEW r \in Roles, phase[r] # "ended",
         NEW left, left \subseteq Asked(r),
         phase[r] = "single" => \A q \in left : q \notin Head(todo[r]) /\ rows[r][q] = "none"
  PROVE  LET next == Continued(r, left) IN
         /\ next.phase \in {"batch", "corrective", "single", "ended"}
         /\ next.phase = "ended" => left = {}
         /\ next.phase = "single" =>
              /\ \E S : next.todo \in Seq(S)
              /\ \A q \in left : \E i \in 1..Len(next.todo) : q \in next.todo[i]
  <1> DEFINE next == Continued(r, left)
  <1>0. phase[r] \in {"batch", "corrective", "single"} /\ left \subseteq Questions
    BY DEF RowsTyped, Asked
  <1>1. CASE phase[r] = "single"
    <2>0. PICK S : todo[r] \in Seq(S)
      BY <1>1 DEF Covered
    <2>1. ASSUME NEW q \in left PROVE \E i \in 1..Len(todo[r]) : q \in todo[r][i] /\ i # 1
      <3>1. q \in Asked(r) /\ rows[r][q] = "none" /\ q \notin Head(todo[r])
        BY <1>1, <2>1
      <3>2. PICK i \in 1..Len(todo[r]) : q \in todo[r][i]
        BY <1>1, <3>1 DEF Covered
      <3>3. todo[r] # <<>> /\ Head(todo[r]) = todo[r][1]
        BY <2>0, <3>2
      <3> QED BY <3>1, <3>2, <3>3
    <2>2. CASE Len(todo[r]) > 1
      <3>1. next.phase = "single" /\ next.todo = Tail(todo[r])
        BY <1>1, <2>2 DEF Continued
      <3>2. Tail(todo[r]) \in Seq(S) /\ Len(Tail(todo[r])) = Len(todo[r]) - 1
            /\ \A i \in 1..Len(todo[r]) - 1 : Tail(todo[r])[i] = todo[r][i + 1]
        BY <2>0, <2>2
      <3>3. ASSUME NEW q \in left PROVE \E i \in 1..Len(Tail(todo[r])) : q \in Tail(todo[r])[i]
        <4>1. PICK i \in 1..Len(todo[r]) : q \in todo[r][i] /\ i # 1
          BY <2>1, <3>3
        <4>2. Len(todo[r]) \in Nat
          BY <2>0
        <4>3. PICK j : j = i - 1
          OBVIOUS
        <4>4. j \in 1..Len(todo[r]) - 1 /\ j + 1 = i
          BY <4>1, <4>2, <4>3
        <4> QED BY <3>2, <4>1, <4>2, <4>4
      <3> QED BY <3>1, <3>2, <3>3
    <2>3. CASE ~(Len(todo[r]) > 1)
      <3>1. left = {}
        BY <2>0, <2>1, <2>3
      <3>2. next.phase = "ended"
        BY <2>3, <3>1 DEF Continued
      <3> QED BY <3>1, <3>2
    <2> QED BY <2>2, <2>3
  <1>2. CASE phase[r] # "single" /\ Len(todo[r]) > 1
    <2>1. next.phase = phase[r]
      BY <1>2 DEF Continued
    <2> QED BY <1>0, <1>2, <2>1
  <1>3. CASE phase[r] # "single" /\ ~(Len(todo[r]) > 1) /\ left = {}
    <2>1. next.phase = "ended"
      BY <1>3 DEF Continued
    <2> QED BY <1>3, <2>1
  <1>4. CASE phase[r] = "batch" /\ ~(Len(todo[r]) > 1) /\ left # {}
    <2>1. next.phase = "corrective"
      BY <1>4 DEF Continued
    <2> QED BY <2>1
  <1>5. CASE phase[r] = "corrective" /\ ~(Len(todo[r]) > 1) /\ left # {}
    <2>1. next.phase = "single" /\ next.todo = OneByOne(left)
      BY <1>5 DEF Continued
    <2>2. IsFiniteSet(left) /\ left \subseteq Nat
      BY <1>0, NumbersOfQuestions, FS_Subset
    <2>3. /\ \E S : OneByOne(left) \in Seq(S)
          /\ \A q \in left : \E i \in 1..Len(OneByOne(left)) : q \in OneByOne(left)[i]
      BY <2>2, OneByOneCovers
    <2> QED BY <2>1, <2>3
  <1> QED BY <1>0, <1>1, <1>2, <1>3, <1>4, <1>5

\* A row says that a question passed where the role's answer did; a role ends when it has no
\* question left, and what it passed is remembered.
LEMMA JudgedEarned ==
  ASSUME RowsTyped, Covered, Earned, NEW r \in Roles, Judged(r)
  PROVE  RowsTyped' /\ Covered' /\ Earned'
  <1>0. /\ node' = node /\ node = "reviewing" /\ UNCHANGED <<setting, text, verdict>>
        /\ phase[r] # "ended"
    BY DEF Judged, catalogVars
  <1>1o. PICK answer \in Rows(r) : \E now, left : Judges(r, answer, now, left)
    BY JudgedRows
  <1>1p. PICK now, left : Judges(r, answer, now, left)
    BY <1>1o
  <1>1. /\ now = rows'[r] /\ DOMAIN rows' = Roles /\ \A s \in Roles : s # r => rows'[s] = rows[s]
        /\ DOMAIN now = Questions
        /\ \A q \in Questions :
             now[q] = IF q \in Head(todo[r])
                      THEN IF answer[q] = "none" /\ phase[r] = "single" THEN "ERROR" ELSE answer[q]
                      ELSE rows[r][q]
        /\ earned' = earned \cup {<<q, r, text[q]>> : q \in {p \in Head(todo[r]) : answer[p] = "PASS"}}
        /\ left = {q \in Asked(r) : now[q] = "none"}
        /\ todo' = [todo EXCEPT ![r] = Continued(r, left).todo]
        /\ phase' = [phase EXCEPT ![r] = Continued(r, left).phase]
        /\ passed' = IF Continued(r, left).phase # "ended" THEN passed
                     ELSE passed \cup {<<q, r, Dependency(r, text[q])>> :
                                         q \in {p \in Asked(r) : now[p] = "PASS"}}
    BY <1>1p DEF Judges
  <1>2. \A q \in Head(todo[r]) : answer[q] \in {"PASS", "FAIL", "none"}
    BY DEF Rows
  <1>3. left \subseteq Asked(r) /\ Asked(r) \subseteq Questions
    BY <1>1 DEF Asked
  <1>4. phase[r] = "single" => \A q \in left : q \notin Head(todo[r]) /\ rows[r][q] = "none"
    BY <1>1, <1>2, <1>3
  <1>5. PICK next : next = Continued(r, left)
    OBVIOUS
  <1>6. /\ next.phase \in {"batch", "corrective", "single", "ended"}
        /\ next.phase = "ended" => left = {}
        /\ next.phase = "single" =>
             /\ \E S : next.todo \in Seq(S)
             /\ \A q \in left : \E i \in 1..Len(next.todo) : q \in next.todo[i]
    BY <1>0, <1>3, <1>4, <1>5, ContinuedCovers
  <1>7. /\ DOMAIN todo' = Roles /\ todo'[r] = next.todo
        /\ DOMAIN phase' = Roles /\ phase'[r] = next.phase
        /\ \A s \in Roles : s # r => todo'[s] = todo[s] /\ phase'[s] = phase[s]
    BY <1>1, <1>5 DEF RowsTyped
  <1>8. \A q \in Questions : now[q] \in {"none", "PASS", "FAIL", "ERROR"}
    BY <1>1, <1>2 DEF RowsTyped
  <1>9. RowsTyped'
    <2>1. ASSUME NEW s \in Roles
          PROVE  /\ DOMAIN rows'[s] = Questions
                 /\ \A q \in Questions : rows'[s][q] \in {"none", "PASS", "FAIL", "ERROR"}
                 /\ phase'[s] \in {"batch", "corrective", "single", "ended"}
      <3>1. CASE s = r
        BY <1>1, <1>6, <1>7, <1>8, <3>1
      <3>2. CASE s # r
        BY <1>1, <1>7, <3>2 DEF RowsTyped
      <3> QED BY <3>1, <3>2
    <2>2. /\ setting \in Settings /\ DOMAIN rows' = Roles /\ DOMAIN todo' = Roles /\ DOMAIN phase' = Roles
          /\ text \in [Questions -> [Parts -> Nat]]
      BY <1>1, <1>7 DEF RowsTyped
    <2> QED BY <1>0, <2>1, <2>2 DEF RowsTyped, Questions
  <1>10. Covered'
    <2> SUFFICES ASSUME NEW s \in Roles
                 PROVE  /\ phase'[s] = "ended" => \A q \in Asked(s) : rows'[s][q] # "none"
                        /\ phase'[s] = "single" =>
                             /\ \E S : todo'[s] \in Seq(S)
                             /\ \A q \in Asked(s) : rows'[s][q] = "none" =>
                                  \E i \in 1..Len(todo'[s]) : q \in todo'[s][i]
      BY <1>0 DEF Covered, Asked, Questions
    <2>1. CASE s = r
      BY <1>1, <1>6, <1>7, <2>1
    <2>2. CASE s # r
      BY <1>0, <1>1, <1>7, <2>2 DEF Covered
    <2> QED BY <2>1, <2>2
  <1>11. earned \subseteq earned'
    BY <1>1
  <1>12. ASSUME NEW q \in Questions, NEW s \in Roles, PassedFor(q, s) PROVE PassedFor(q, s)'
    BY <1>0, <1>11, <1>12, PassedStays
  <1>13. ASSUME NEW q \in Questions, NEW s \in Roles, rows'[s][q] = "PASS" PROVE PassedFor(q, s)'
    <2>1. CASE s = r /\ q \in Head(todo[r])
      <3>1. answer[q] = "PASS"
        BY <1>1, <1>13, <2>1
      <3>2. <<q, r, text[q]>> \in earned'
        BY <1>1, <2>1, <3>1
      <3>3. <<q, r, text[q]>>[1] = q /\ <<q, r, text[q]>>[2] = s /\ <<q, r, text[q]>>[3] = text'[q]
        BY <1>0, <2>1
      <3> QED BY <3>2, <3>3 DEF PassedFor
    <2>2. CASE ~(s = r /\ q \in Head(todo[r]))
      <3>1. rows[s][q] = "PASS"
        BY <1>1, <1>13, <2>2
      <3> QED BY <1>12, <3>1 DEF Earned
    <2> QED BY <2>1, <2>2
  <1>14. ASSUME NEW q \in Questions, NEW s \in Roles, <<q, s, Dependency(s, text[q])>> \in passed'
         PROVE  PassedFor(q, s)'
    <2>1. CASE <<q, s, Dependency(s, text[q])>> \in passed
      BY <1>12, <2>1 DEF Earned, Known
    <2>2. CASE <<q, s, Dependency(s, text[q])>> \notin passed
      <3>1. PICK p \in Asked(r) :
               now[p] = "PASS" /\ <<q, s, Dependency(s, text[q])>> = <<p, r, Dependency(r, text[p])>>
        BY <1>1, <1>14, <2>2
      <3>2. p = q /\ s = r
        BY <3>1
      <3> QED BY <1>1, <1>13, <3>1, <3>2
    <2> QED BY <2>1, <2>2
  <1>15. ASSUME NEW e \in passed'
         PROVE  /\ e[1] \in Questions /\ e[2] \in Roles
                /\ \A p \in Depends[e[2]] : e[3][p] \in 0..text[e[1]][p]
    <2>1. CASE e \in passed
      BY <2>1 DEF Earned
    <2>2. CASE e \notin passed
      <3>1. PICK q \in Asked(r) : e = <<q, r, Dependency(r, text[q])>>
        BY <1>1, <1>15, <2>2
      <3>2. q \in Questions /\ \A p \in Depends[r] : text[q][p] \in Nat
        BY <1>3, ReviewAssumption DEF RowsTyped, Roles
      <3> QED BY <3>1, <3>2 DEF Dependency
    <2> QED BY <2>1, <2>2
  <1>16. PassIsEarned'
    <2>1. ASSUME NEW q \in Questions, verdict[q] = "PASS", NEW s \in setting.roles[q]
          PROVE  PassedFor(q, s)'
      BY <1>0, <1>11, <2>1, PassedStays DEF Earned, PassIsEarned
    <2> QED BY <1>0, <2>1 DEF PassIsEarned, Questions
  <1>17. Earned'
    BY <1>0, <1>13, <1>14, <1>15, <1>16 DEF Earned, Known, Questions
  <1> QED BY <1>9, <1>10, <1>17

LEMMA NoRowsTyped ==
  /\ DOMAIN NoRows = Roles
  /\ \A r \in Roles : /\ DOMAIN NoRows[r] = Questions
                      /\ \A q \in Questions : NoRows[r][q] = "none"
  BY DEF NoRows

\* A question passes only if every role it needs has a row for it, and no row says otherwise.
LEMMA CloseEarned ==
  ASSUME RowsTyped, Covered, Earned, Close PROVE RowsTyped' /\ Covered' /\ Earned'
  <1>0. /\ UNCHANGED <<setting, text, passed, earned>> /\ rows' = NoRows
        /\ node = "reviewing" /\ node' = "reviewed" /\ \A r \in Roles : phase[r] = "ended"
        /\ todo' = [r \in Roles |-> <<>>] /\ phase' = [r \in Roles |-> "ended"]
    BY DEF Close
  <1>1. RowsTyped' /\ Covered'
    BY <1>0, NoRowsTyped DEF RowsTyped, Covered, Questions
  <1>2. \A q \in Questions, r \in Roles : rows'[r][q] # "PASS"
    BY <1>0, NoRowsTyped
  <1>3. ASSUME NEW q \in Questions, verdict'[q] = "PASS", NEW r \in setting.roles[q]
        PROVE  PassedFor(q, r)
    <2>1. Combined(q) = "PASS"
      BY <1>3 DEF Close
    <2>2. r \in Roles /\ q \in Asked(r)
      BY <1>3, ReviewAssumption DEF RowsTyped, Questions, Roles, Asked
    <2>3. rows[r][q] \notin {"ERROR", "FAIL"}
      BY <2>1, <2>2 DEF Combined
    <2>4. rows[r][q] # "none"
      BY <1>0, <2>2 DEF Covered
    <2>5. rows[r][q] = "PASS"
      BY <2>2, <2>3, <2>4 DEF RowsTyped
    <2> QED BY <2>2, <2>5 DEF Earned
  <1>4. ASSUME NEW q \in Questions, NEW r \in Roles, PassedFor(q, r) PROVE PassedFor(q, r)'
    BY <1>0, <1>4, PassedStays
  <1>5. PassIsEarned'
    <2>1. ASSUME NEW q \in Questions, verdict'[q] = "PASS", NEW r \in setting.roles[q]
          PROVE  PassedFor(q, r)'
      BY <1>0, <1>3, <2>1, PassedStays
    <2> QED BY <1>0, <2>1 DEF PassIsEarned, Questions
  <1>6. Earned'
    BY <1>0, <1>2, <1>4, <1>5 DEF Earned, Known, Questions
  <1> QED BY <1>1, <1>6

\* The text of a repair is one nobody passed, to every role that depends on what was repaired.
LEMMA ReviseEarned ==
  ASSUME RowsTyped, Earned, Revise PROVE RowsTyped' /\ Covered' /\ Earned'
  <1>0. PICK o \in Questions, new \in SUBSET Parts :
          text' = [text EXCEPT ![o] = [p \in Parts |-> IF p \in new THEN @[p] + 1 ELSE @[p]]]
    BY DEF Revise
  <1>1. /\ UNCHANGED <<setting, passed, rows, todo, phase>> /\ node = "reviewed" /\ node' = "review"
        /\ verdict' = [q \in Questions |-> "none"]
        /\ earned' = {e \in earned : Dependency(e[2], e[3]) = Dependency(e[2], text'[e[1]])}
    BY DEF Revise
  <1>2. /\ text' \in [Questions -> [Parts -> Nat]]
        /\ \A q \in Questions, p \in Parts : text[q][p] \in Nat /\ text'[q][p] \in {text[q][p], text[q][p] + 1}
    <2>1. text'[o] = [p \in Parts |-> IF p \in new THEN text[o][p] + 1 ELSE text[o][p]]
          /\ DOMAIN text' = Questions /\ \A q \in Questions : q # o => text'[q] = text[q]
      BY <1>0 DEF RowsTyped
    <2>2. \A q \in Questions : text[q] \in [Parts -> Nat]
      BY DEF RowsTyped
    <2>3. text'[o] \in [Parts -> Nat]
      BY <2>1, <2>2
    <2>4. text' \in [Questions -> [Parts -> Nat]]
      BY <1>0, <2>1, <2>2, <2>3 DEF RowsTyped
    <2> QED BY <2>1, <2>2, <2>4
  <1>3. RowsTyped'
    BY <1>1, <1>2 DEF RowsTyped, Questions
  <1>4. \A q \in Questions, r \in Roles : rows'[r][q] # "PASS"
    BY <1>1 DEF Earned
  <1>5. ASSUME NEW e \in passed
        PROVE  /\ e[1] \in Questions /\ e[2] \in Roles
               /\ \A p \in Depends[e[2]] : e[3][p] \in 0..text[e[1]][p]
    BY DEF Earned
  <1>6. ASSUME NEW e \in passed, NEW p \in Depends[e[2]]
        PROVE  e[3][p] \in 0..text'[e[1]][p]
    <2>1. e[1] \in Questions /\ p \in Parts /\ e[3][p] \in 0..text[e[1]][p]
      BY <1>5, ReviewAssumption DEF Roles
    <2>2. text[e[1]][p] \in Nat /\ text'[e[1]][p] \in {text[e[1]][p], text[e[1]][p] + 1}
      BY <1>2, <2>1
    <2> QED BY <2>1, <2>2
  <1>7. ASSUME NEW q \in Questions, NEW r \in Roles, <<q, r, Dependency(r, text'[q])>> \in passed
        PROVE  PassedFor(q, r)'
    <2>1. \A p \in Depends[r] : text'[q][p] <= text[q][p]
      BY <1>5, <1>7 DEF Dependency
    <2>2. \A p \in Depends[r] : text'[q][p] = text[q][p]
      BY <1>2, <2>1, ReviewAssumption DEF Roles
    <2>3. Dependency(r, text'[q]) = Dependency(r, text[q])
      BY <2>2 DEF Dependency
    <2>4. PassedFor(q, r)
      BY <1>7, <2>3 DEF Earned, Known
    <2>5. PICK e \in earned : e[1] = q /\ e[2] = r /\ Dependency(r, e[3]) = Dependency(r, text[q])
      BY <2>4 DEF PassedFor
    <2>6. e \in earned'
      BY <1>1, <2>3, <2>5
    <2>7. Dependency(r, e[3]) = Dependency(r, text'[q])
      BY <2>3, <2>5
    <2> QED BY <2>5, <2>6, <2>7 DEF PassedFor, Dependency
  <1>8. Covered' /\ PassIsEarned'
    BY <1>1 DEF Covered, PassIsEarned, Questions
  <1>9. Earned'
    BY <1>1, <1>4, <1>6, <1>7, <1>8 DEF Earned, Known, Questions
  <1> QED BY <1>3, <1>8, <1>9

LEMMA CrashEarned ==
  ASSUME RowsTyped, CrashReviewing PROVE RowsTyped' /\ Covered' /\ Earned'
  <1>0. /\ UNCHANGED setting /\ passed' = {} /\ rows' = NoRows /\ node' = "prepare"
        /\ text' = [q \in Questions |-> [p \in Parts |-> 1]]
        /\ todo' = [r \in Roles |-> <<>>] /\ phase' = [r \in Roles |-> "ended"]
        /\ verdict' = [q \in Questions |-> "none"]
    BY DEF CrashReviewing, Crash, Started
  <1>1. RowsTyped'
    BY <1>0, NoRowsTyped DEF RowsTyped, Questions
  <1>2. Covered' /\ PassIsEarned'
    BY <1>0 DEF Covered, PassIsEarned, Questions
  <1>3. Earned'
    BY <1>0, <1>2, NoRowsTyped DEF Earned, Known, Questions
  <1> QED BY <1>1, <1>2, <1>3

LEMMA EarnedStays ==
  ASSUME Below, RowsTyped, Covered, Earned, Next PROVE RowsTyped' /\ Covered' /\ Earned'
  <1>1. CASE Building /\ UNCHANGED reviewVars
    <2>1. (node # "reviewing" /\ node' # "reviewing") \/ UNCHANGED node
      BY <1>1 DEF Building, Prepare, Expire, Leave, Merge, Finalize, Cancel, Begin, Attempt,
         Received, Raise
    <2> QED BY <1>1, <2>1, EarnedKept DEF reviewVars
  <1>2. ASSUME UNCHANGED <<catalogVars, reviewVars>> PROVE RowsTyped' /\ Covered' /\ Earned'
    BY <1>2, EarnedKept DEF catalogVars, reviewVars
  <1>3. CASE \E r \in Roles : AskRole(r)
    BY <1>2, <1>3 DEF AskRole
  <1>4. CASE Done
    BY <1>2, <1>4 DEF Done, vars
  <1>5. CASE \E r \in Roles : Judged(r)
    BY <1>5, JudgedEarned
  <1> QED BY <1>1, <1>2, <1>3, <1>4, <1>5, OpenEarned, CloseEarned, ReviseEarned, CrashEarned
          DEF Next

-----------------------------------------------------------------------------
(* The theorems.                                                           *)

LEMMA StartHolds == Init => IInv
  <1> SUFFICES ASSUME Init PROVE IInv
    OBVIOUS
  <1>1. /\ call = [t \in Threads |-> NoCall] /\ active = 0 /\ cooldown = 0 /\ window = 0
        /\ batch = [b \in Batches |-> Idle] /\ stored = {} /\ whole = FALSE /\ catalog = FALSE
        /\ node = "prepare" /\ runs = 1
    BY DEF Init, CatalogInit, CallsInit, FreshProcess
  <1>2. \A t \in Threads :
          /\ DOMAIN call[t] = CallFields /\ call[t].pc = "none" /\ call[t].left = 0
          /\ call[t].tries = 0 /\ call[t].answer = "none"
    BY <1>1 DEF NoCall, CallFields
  <1>3. CallsTyped /\ Pausing
    BY <1>1, <1>2, CallsAssumption DEF CallsTyped, Pausing, Underway
  <1>4. Inside = {}
    BY <1>2 DEF Inside
  <1>5. Counted
    BY <1>1, <1>4, FS_EmptySet, CatalogAssumption DEF Counted, Permits
  <1>6. \A b \in Batches : IdleRow(batch[b]) /\ batch[b].pc = "waiting"
    BY <1>1, IdleRows
  <1>7. BatchTyped
    BY <1>1, <1>6, CatalogAssumption DEF BatchTyped, IdleRow
  <1>8. Kept /\ Pools
    BY <1>1, <1>2, <1>6 DEF Kept, CatalogComplete, Pools, Family, IdleRow
  <1>9. RowsTyped /\ Covered /\ Earned
    BY <1>1, NoRowsTyped DEF Init, RowsTyped, Covered, Earned, Known, Questions, PassIsEarned
  <1> QED BY <1>3, <1>5, <1>7, <1>8, <1>9 DEF IInv

LEMMA StepHolds == IInv /\ [Next]_vars => IInv'
  <1> SUFFICES ASSUME IInv, [Next]_vars PROVE IInv'
    OBVIOUS
  <1>1. Below /\ RowsTyped /\ Covered /\ Earned
    BY DEF IInv, Below
  <1>2. CASE Next
    BY <1>1, <1>2, BelowStays, EarnedStays DEF IInv, Below
  <1>3. CASE UNCHANGED vars
    <2>1. Below'
      BY <1>1, <1>3 DEF vars, Below, callVars, sharedVars, catalogVars, CallsTyped, Pausing,
         Counted, Permits, Inside, Underway, BatchTyped, Kept, CatalogComplete, Pools
    <2>2. RowsTyped' /\ Covered' /\ Earned'
      BY <1>1, <1>3, EarnedKept DEF vars, catalogVars, reviewVars
    <2> QED BY <2>1, <2>2 DEF IInv, Below
  <1> QED BY <1>2, <1>3

LEMMA Holds == Spec => []IInv
  <1> QED BY StartHolds, StepHolds, PTL DEF Spec

\* Types; _JobGate.release is called on every way out of llm_request_slot, so that the gate of
\* a job counts the calls inside it and never lets in more than its limit.
THEOREM TypesHold == Spec => []TypeOK
  <1>1. IInv => TypeOK
    BY DEF IInv, CallsTyped, Counted, BatchTyped, RowsTyped, TypeOK, CallsTypeOK
  <1> QED BY <1>1, Holds, PTL

\* prepare_assessment_catalog: a catalog is kept only with the compilation of every batch,
\* for any number of batches and whichever of them failed, was cancelled or died before.
THEOREM CatalogIsComplete == Spec => []CatalogComplete
  <1>1. IInv => CatalogComplete
    BY DEF IInv, Kept
  <1> QED BY <1>1, Holds, PTL

\* compile_batch: what the compiler cache holds is not asked of a provider again, by this
\* execution of the job or a later one.
THEOREM NotCompiledTwice == Spec => NotPaidAgain
  <1>1. IInv /\ [Next]_vars =>
          [\A b \in Batches : batch[b].pc = "checking" /\ batch'[b].pc = "calling"
             => b \notin stored]_<<callVars, catalogVars>>
    BY DEF IInv, Kept
  <1> QED BY <1>1, Holds, PTL DEF Spec, NotPaidAgain

\* A request is sent by a call that has slept as long as it meant to.
LEMMA SentAwake ==
  ASSUME IInv, Next, NEW t \in Threads, call[t].pc = "ready", call'[t].pc = "sent"
  PROVE  call[t].left = 0
  <1>0. CallsTyped /\ Pausing /\ Gate
    BY DEF IInv, Counted, Gate
  <1>1. ASSUME UNCHANGED callVars PROVE FALSE
    BY <1>1 DEF callVars
  <1>2. ASSUME NEW u \in Threads, Turned(u), call'[u].pc # "sent" PROVE FALSE
    BY <1>2 DEF Turned
  <1>3. ASSUME NEW u \in Threads, Turned(u), u = t => call[t].pc # "ready" PROVE FALSE
    BY <1>3 DEF Turned
  <1>4. ASSUME NEW u \in Threads, NEW limit, Request(u, limit) PROVE FALSE
    BY <1>0, <1>2, <1>4, RequestSafe
  <1>5. ASSUME NEW u \in Threads, call[u].pc = "done", call' = [call EXCEPT ![u] = NoCall],
               UNCHANGED sharedVars
        PROVE  FALSE
    BY <1>0, <1>2, <1>5, TakenSafe
  <1>6. CASE Calling(Permits)
    <2>1. CASE Elapse
      BY <1>0, <2>1, ElapseSafe
    <2>2. ASSUME NEW u \in Threads, Acquire(u, Permits) PROVE FALSE
      BY <1>0, <1>3, <2>2, AcquireSafe, PermitsNat DEF Acquire
    <2>3. ASSUME NEW u \in Threads, Transient(u) PROVE FALSE
      BY <1>0, <1>3, <2>3, TransientSafe DEF Transient
    <2>4. ASSUME NEW u \in Threads, Ask(u) \/ Answered(u) \/ Defective(u) \/ OutOfQuota(u)
                                    \/ Refused(u)
          PROVE  FALSE
      BY <1>0, <1>3, <2>4, CallStep DEF Ask, Answered, Defective, OutOfQuota, Refused
    <2>5. ASSUME NEW u \in Threads, Send(u) PROVE call[t].left = 0
      <3>1. Turned(u)
        BY <1>0, <2>5, CallStep
      <3>2. u = t
        BY <1>3, <3>1
      <3> QED BY <2>5, <3>2 DEF Send
    <2> QED BY <1>6, <2>1, <2>2, <2>3, <2>4, <2>5 DEF Calling
  <1>7. CASE Building
    BY <1>1, <1>4, <1>5, <1>7 DEF Building, Prepare, Expire, Leave, Merge, Finalize, Cancel,
       Begin, Attempt, Received, Raise, Batches
  <1>8. CASE Open \/ Close \/ Revise \/ Done
    BY <1>1, <1>8 DEF Open, Close, Revise, Done, vars
  <1>9. CASE CrashReviewing
    BY <1>9 DEF CrashReviewing, Crash, Started, FreshProcess, NoCall
  <1>10. CASE \E r \in Roles : AskRole(r) \/ Judged(r)
    BY <1>4, <1>5, <1>10 DEF AskRole, Judged, Roles
  <1> QED BY <1>6, <1>7, <1>8, <1>9, <1>10 DEF Next

\* register_provider_cooldown, llm_request_slot: while a provider wants to be left alone no
\* request is sent to it, except by the calls that had looked at its cooldown before.
THEOREM ProviderLeftAlone == Spec => PausesKept
  <1>1. ASSUME IInv, [Next]_vars, NEW t \in Threads, call[t].pc = "ready",
               call'[t].pc = "sent", window > 0
        PROVE  t \in ahead
    <2>1. Next
      BY <1>1 DEF vars, callVars
    <2>2. call[t].left = 0 /\ t \in Underway
      BY <1>1, <2>1, SentAwake DEF Underway
    <2>3. window \in Nat /\ (t \notin ahead => window <= call[t].left)
      BY <1>1, <2>2 DEF IInv, Pausing, CallsTyped
    <2> QED BY <1>1, <2>2, <2>3
  <1>2. IInv /\ [Next]_vars =>
          [\A t \in Threads :
             call[t].pc = "ready" /\ call'[t].pc = "sent" /\ window > 0 => t \in ahead]_callVars
    BY <1>1
  <1> QED BY <1>2, Holds, PTL DEF Spec, PausesKept

\* validate_exam_multi, _run_role_batch: a question passes only when every role it needs was
\* asked about it and passed a text that was this one for all the role's verdict is kept for,
\* whatever was remembered, left out, asked again or repaired.
THEOREM PassEarned == Spec => []PassIsEarned
  <1>1. IInv => PassIsEarned
    BY DEF IInv, Earned
  <1> QED BY <1>1, Holds, PTL
=============================================================================
