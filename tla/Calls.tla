------------------------------- MODULE Calls -------------------------------
(***************************************************************************)
(* One call of a language model, from request_structured to its answer,    *)
(* and what the calls of a worker process share: the gate of the job, the  *)
(* cooldown a provider asked for, and the accounts known to be out of      *)
(* quota.                                                                  *)
(*                                                                         *)
(* The threads are those of the pool that is at work; what they ask, and   *)
(* what they do with the answer, is said by the modules that extend this   *)
(* one.  Time is a number of units that are left: of the cooldown, and of  *)
(* the sleep of each thread.                                               *)
(***************************************************************************)
EXTENDS Integers, FiniteSets, FiniteSetsExt, Sequences

CONSTANTS
  Threads,        \* 1..n, in the order of submission
  MaxTransient,   \* DEEPSEEK_MAX_TRANSIENT_RETRIES
  Sockets,        \* DEEPSEEK_CONCURRENCY_LIMIT
  Pauses          \* what a failed request may ask for: units of time, 0 when it asks nothing

ASSUME CallsAssumption ==
  /\ IsFiniteSet(Threads) /\ MaxTransient \in Nat /\ Pauses \subseteq Nat

VARIABLES
  call,       \* the call of each thread
  active,     \* the permits of the gate in use
  cooldown,   \* _provider_cooldowns
  blocked,    \* _quota_blocked_accounts
  window,     \* history: how long the provider still wants to be left alone
  ahead       \* history: the calls that had looked at the cooldown before it was last registered

sharedVars == <<active, cooldown, blocked, window, ahead>>
callVars == <<call, sharedVars>>

NoCall == [pc |-> "none", left |-> 0, tries |-> 0, asks |-> 0, limit |-> 0, answer |-> "none"]

Longer(a, b) == IF a > b THEN a ELSE b

Inside == {t \in Threads : call[t].pc \in {"asking", "ready", "sent"}}
Underway == {t \in Threads : call[t].pc \notin {"none", "done"}}

-----------------------------------------------------------------------------
(* llm_request_slot.                                                       *)

\* The cooldown is looked at once, before the gate.
Requested(limit) == [NoCall EXCEPT !.pc = "waiting", !.left = cooldown, !.limit = limit]

Request(t, limit) ==
  /\ call[t].pc = "none"
  /\ call' = [call EXCEPT ![t] = Requested(limit)]
  /\ ahead' = ahead \ {t}
  /\ UNCHANGED <<active, cooldown, blocked, window>>

Acquire(t, permits) ==
  /\ call[t].pc = "waiting" /\ call[t].left = 0 /\ active < permits
  /\ active' = active + 1
  /\ call' = [call EXCEPT ![t].pc = "asking"]
  /\ UNCHANGED <<cooldown, blocked, window, ahead>>

Released == active - 1

\* The answer leaves the gate, and so does an error.
Return(t, answer) ==
  /\ call' = [call EXCEPT ![t] = [NoCall EXCEPT !.pc = "done", !.answer = answer]]
  /\ active' = Released

-----------------------------------------------------------------------------
(* achat_structured and _request_with_backoff.                             *)

\* The account is looked at once for each series of requests.
Ask(t) ==
  /\ call[t].pc = "asking"
  /\ IF blocked THEN Return(t, "quota")
     ELSE /\ call' = [call EXCEPT ![t].pc = "ready", ![t].tries = 0]
          /\ UNCHANGED active
  /\ UNCHANGED <<cooldown, blocked, window, ahead>>

Send(t) ==
  /\ call[t].pc = "ready" /\ call[t].left = 0
  /\ Cardinality({u \in Threads : call[u].pc = "sent"}) < Sockets
  /\ call' = [call EXCEPT ![t].pc = "sent"]
  /\ UNCHANGED sharedVars

Answered(t) ==
  /\ call[t].pc = "sent" /\ Return(t, "complete")
  /\ UNCHANGED <<cooldown, blocked, window, ahead>>

\* Incomplete, failed, or not of the schema: the same question again, with the reason.
Defective(t) ==
  /\ call[t].pc = "sent"
  /\ IF call[t].asks + 1 = call[t].limit THEN Return(t, "defective")
     ELSE /\ call' = [call EXCEPT ![t].pc = "asking", ![t].asks = @ + 1]
          /\ UNCHANGED active
  /\ UNCHANGED <<cooldown, blocked, window, ahead>>

\* Mutant: the last answer decides.
CooledByTheLast(pause) == pause

\* register_provider_cooldown: the longest of what was asked for.
Cooled(pause) == Longer(cooldown, pause)

\* A rate limit, a timeout, a broken connection or a server error: the request is sent
\* again after a while, under the same permit and without another look at the cooldown.
Transient(t) ==
  /\ call[t].pc = "sent"
  /\ \E pause \in Pauses :
       /\ cooldown' = Cooled(pause)
       /\ window' = Longer(window, pause)
       /\ ahead' = IF pause > 0 THEN ahead \cup Underway ELSE ahead
       /\ IF call[t].tries = MaxTransient THEN Return(t, "outage")
          ELSE /\ call' = [call EXCEPT ![t].pc = "ready", ![t].tries = @ + 1, ![t].left = pause]
               /\ UNCHANGED active
  /\ UNCHANGED blocked

OutOfQuota(t) ==
  /\ call[t].pc = "sent" /\ Return(t, "quota")
  /\ blocked' = TRUE
  /\ UNCHANGED <<cooldown, window, ahead>>

\* The key, the request or its schema is refused.
Refused(t) ==
  /\ call[t].pc = "sent" /\ Return(t, "refused")
  /\ UNCHANGED <<cooldown, blocked, window, ahead>>

Less(n) == IF n > 0 THEN n - 1 ELSE 0

Elapse ==
  /\ cooldown + window > 0 \/ \E t \in Threads : call[t].left > 0
  /\ cooldown' = Less(cooldown) /\ window' = Less(window)
  /\ call' = [t \in Threads |-> [call[t] EXCEPT !.left = Less(@)]]
  /\ UNCHANGED <<active, blocked, ahead>>

Calling(permits) ==
  \/ \E t \in Threads :
       \/ Acquire(t, permits) \/ Ask(t) \/ Send(t)
       \/ Answered(t) \/ Defective(t) \/ Transient(t) \/ OutOfQuota(t) \/ Refused(t)
  \/ Elapse

\* A new process, or a new one after it died.
FreshProcess ==
  [call |-> [t \in Threads |-> NoCall], active |-> 0, cooldown |-> 0, blocked |-> FALSE,
   window |-> 0, ahead |-> {}]

Started(p) ==
  /\ call' = p.call /\ active' = p.active /\ cooldown' = p.cooldown /\ blocked' = p.blocked
  /\ window' = p.window /\ ahead' = p.ahead

CallsInit ==
  /\ call = FreshProcess.call /\ active = 0 /\ cooldown = 0 /\ blocked = FALSE
  /\ window = 0 /\ ahead = {}

-----------------------------------------------------------------------------
\* Types; and the gate counts the calls inside it, whatever way they leave.
CallsTypeOK ==
  /\ \A t \in Threads :
       /\ call[t].pc \in {"none", "waiting", "asking", "ready", "sent", "done"}
       /\ call[t].tries \in 0..MaxTransient
       /\ call[t].answer \in {"none", "complete", "defective", "outage", "quota", "refused"}
  /\ active = Cardinality(Inside)

\* A provider that asked to be left alone is, except by the calls that had looked at its
\* cooldown before: those that wait at the gate, and those that send again what failed.
PausesKept ==
  [][\A t \in Threads :
       call[t].pc = "ready" /\ call'[t].pc = "sent" /\ window > 0 => t \in ahead]_callVars
=============================================================================
