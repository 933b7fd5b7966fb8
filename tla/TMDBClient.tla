------------------------------ MODULE TMDBClient ------------------------------
(***************************************************************************)
(* The TMDB client that every user's library of a server shares: its       *)
(* request pacer and its retries (src/internal/providers/netflix/tmdb/     *)
(* client.go).                                                             *)
(*                                                                         *)
(* Time passes in Ticks.  The pacer's next slot and the timers are kept    *)
(* relative to the present: "ahead" is how far next lies in the future,    *)
(* delay how long a caller still sleeps.  The request itself is part of    *)
(* the step that handles its response: a caller whose slot has come may    *)
(* have sent it.                                                           *)
(***************************************************************************)
EXTENDS Integers

CONSTANTS
  Callers,        \* the goroutines that call Search and Details
  Interval,       \* the pacer's interval
  Backoff,        \* the first backoff; it doubles with each attempt
  RetryAfters,    \* the delays a 429 response may ask for
  MaxRetryAfter,  \* the longest of them that is followed
  MaxAttempts     \* requests per call

ASSUME IntervalAssumption == Interval \in Nat \ {0}
ASSUME DelayAssumption ==
  Backoff \in Nat /\ MaxRetryAfter \in Nat /\ RetryAfters \in SUBSET Nat
ASSUME AttemptsAssumption == MaxAttempts \in Nat \ {0}

VARIABLES
  call,     \* per caller, the call it is in
  ahead,    \* how far the pacer's next slot is in the future, 0 if it is not
  calm      \* ghost: time since a slot last came, counted up to Interval

clientVars == <<call, ahead, calm>>

Call == [pc : {"idle", "waiting", "sleeping"}, attempt : 0..(MaxAttempts - 1), delay : Nat]

NoCall == [pc |-> "idle", attempt |-> 0, delay |-> 0]

ClientTypeOK ==
  /\ call \in [Callers -> Call]
  /\ ahead \in Nat
  /\ calm \in 0..Interval

ClientInit ==
  /\ call = [c \in Callers |-> NoCall]
  /\ ahead = 0
  /\ calm = Interval

-----------------------------------------------------------------------------
(* Mutant: the slot after the next one is counted from the present. *)
WaitMutant(c, attempt) ==
  /\ call' = [call EXCEPT ![c] = [pc |-> "waiting", attempt |-> attempt, delay |-> ahead]]
  /\ ahead' = Interval
  /\ calm' = IF ahead = 0 THEN 0 ELSE calm

(* requestPacer.Wait: the caller takes the next slot and sleeps until it.   *)
Wait(c, attempt) ==
  /\ call' = [call EXCEPT ![c] = [pc |-> "waiting", attempt |-> attempt, delay |-> ahead]]
  /\ ahead' = ahead + Interval
  /\ calm' = IF ahead = 0 THEN 0 ELSE calm

(* The first attempt of a call whose context was not cancelled before it.   *)
Request(c) == call[c].pc = "idle" /\ Wait(c, 0)

End(c) == call' = [call EXCEPT ![c] = NoCall] /\ UNCHANGED <<ahead, calm>>

(* A response of status 200, of a status that is not retried, or no answer  *)
(* to the last attempt, ends the call.                                      *)
Sent(c) == call[c].pc = "waiting" /\ call[c].delay = 0

Respond(c) == Sent(c) /\ End(c)

(* The pacer's timer, the request and the backoff end with the context.     *)
Interrupt(c) == call[c].pc # "idle" /\ End(c)

(* retryBackoff *)
RetryBackoff(attempt) == Backoff * 2 ^ (IF attempt < 5 THEN attempt ELSE 5)

(* parseRetryAfter, of seconds that fit into a time.Duration.               *)
ParseRetryAfter(d) == IF d < MaxRetryAfter THEN d ELSE MaxRetryAfter

RetryDelays(attempt) == {RetryBackoff(attempt)} \cup {ParseRetryAfter(d) : d \in RetryAfters}

(* No answer, a retryable status, or 429: the caller sleeps ...             *)
Sleep(c) ==
  /\ Sent(c) /\ call[c].attempt + 1 < MaxAttempts
  /\ \E d \in RetryDelays(call[c].attempt) :
       call' = [call EXCEPT ![c] = [@ EXCEPT !.pc = "sleeping", !.delay = d]]
  /\ UNCHANGED <<ahead, calm>>

(* Mutant: attempts are not counted. *)
RetryMutant(c) ==
  /\ call[c].pc = "sleeping" /\ call[c].delay = 0
  /\ Wait(c, call[c].attempt)

(* ... and then takes another slot.                                         *)
Retry(c) ==
  /\ call[c].pc = "sleeping" /\ call[c].delay = 0
  /\ Wait(c, call[c].attempt + 1)

Later(n) == IF n = 0 THEN 0 ELSE n - 1

(* Time passes.  A slot comes when a waiting caller's delay runs out, and   *)
(* nobody sleeps past the end of a timer that is due.                       *)
SlotComes == \E c \in Callers : call[c].pc = "waiting" /\ call[c].delay = 1

Elapse ==
  /\ call' = [c \in Callers |-> [call[c] EXCEPT !.delay = Later(@)]]
  /\ ahead' = Later(ahead)
  /\ calm' = IF SlotComes THEN 0 ELSE IF calm < Interval THEN calm + 1 ELSE calm

Tick ==
  /\ ahead > 0 \/ \E c \in Callers : call[c].delay > 0
  /\ Elapse

CallStep(c) == Request(c) \/ Respond(c) \/ Interrupt(c) \/ Sleep(c) \/ Retry(c)

ClientNext == Tick \/ \E c \in Callers : CallStep(c)

ClientSpec == ClientInit /\ [][ClientNext]_clientVars

-----------------------------------------------------------------------------
(* The slots reserved for all users are an interval apart: those callers    *)
(* wait for are, each of them is that far from the last one that came, and  *)
(* so is the slot the next caller will get, whoever was cancelled while it  *)
(* waited.  How late a timer then lets a request leave is not the pacer's.  *)
Ahead(c) == call[c].pc = "waiting" /\ call[c].delay > 0

WaitersApart ==
  \A c, d \in Callers :
    Ahead(c) /\ Ahead(d) /\ c # d =>
      \/ call[c].delay + Interval <= call[d].delay
      \/ call[d].delay + Interval <= call[c].delay

SlotsApart ==
  /\ WaitersApart
  /\ \A c \in Callers : Ahead(c) => call[c].delay + calm >= Interval
  /\ ahead + calm >= Interval
=============================================================================
