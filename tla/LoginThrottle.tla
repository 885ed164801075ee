--------------------------- MODULE LoginThrottle ---------------------------
(***************************************************************************)
(* The login throttle of routes/login.py: per client the moments of failed *)
(* attempts, and the end of its lockout.  Both live in memory.  A moment   *)
(* is the ticks it lies back; a tick older than the window plus one is not *)
(* told apart.  The handler does not await between the check and what it   *)
(* records.                                                                *)
(***************************************************************************)
EXTENDS Naturals, Sequences

CONSTANTS
  Clients,      \* addresses
  Window,       \* _THROTTLE_WINDOW_SEC, in ticks
  MaxAttempts,  \* _THROTTLE_MAX_ATTEMPTS
  Lockout       \* _THROTTLE_LOCKOUT_SEC, in ticks

ASSUME ThrottleAssumption ==
  Window \in Nat /\ MaxAttempts \in Nat \ {0} /\ Lockout \in Nat /\ Lockout > Window

VARIABLES
  attempts,  \* the moments of the failures, the oldest first
  lockout,   \* ticks until the lockout ends
  wrong      \* moments of all passwords found wrong since the last success or
             \* restart (history)

logVars == <<attempts, lockout, wrong>>

Ages == 0 .. Window + 1

LogTypeOK ==
  /\ attempts \in [Clients -> Seq(Ages)] /\ wrong \in [Clients -> Seq(Ages)]
  /\ lockout \in [Clients -> 0 .. Lockout]

LogInit ==
  /\ attempts = [c \in Clients |-> << >>]
  /\ lockout = [c \in Clients |-> 0]
  /\ wrong = [c \in Clients |-> << >>]

\* The moments without the leading ones that lie further back than `age`.
Shed(moments, age) ==
  LET n == CHOOSE n \in 0 .. Len(moments) :
             /\ \A i \in 1 .. n : moments[i] > age
             /\ n < Len(moments) => moments[n + 1] <= age
  IN SubSeq(moments, n + 1, Len(moments))

Within(moments) == Shed(moments, Window)

Older(moments) == [i \in DOMAIN moments |-> IF moments[i] > Window THEN Window + 1 ELSE moments[i] + 1]

\* Time passes.
Tick ==
  /\ attempts' = [c \in Clients |-> Older(attempts[c])]
  /\ lockout' = [c \in Clients |-> IF lockout[c] = 0 THEN 0 ELSE lockout[c] - 1]
  /\ wrong' = [c \in Clients |-> Within(Older(wrong[c]))]

(* Mutant of Kept: a failure at the edge of the window is dropped. *)
KeptInside(bucket) == Shed(bucket, Window - 1)

(* Mutant of Kept: nothing is dropped. *)
KeptAll(bucket) == bucket

\* The bucket without what is older than the window: popleft() in a loop.
Kept(bucket) == Shed(bucket, Window)

\* POST /login with the wrong password: _record_failure().
WrongPassword(c) ==
  /\ lockout[c] = 0
  /\ LET bucket == Kept(Append(attempts[c], 0)) IN
     IF Len(bucket) >= MaxAttempts
     THEN /\ attempts' = [attempts EXCEPT ![c] = << >>]
          /\ lockout' = [lockout EXCEPT ![c] = Lockout]
     ELSE /\ attempts' = [attempts EXCEPT ![c] = bucket]
          /\ UNCHANGED lockout
  /\ wrong' = [wrong EXCEPT ![c] = Append(Within(@), 0)]

\* With the right one: _record_success().
RightPassword(c) ==
  /\ lockout[c] = 0
  /\ attempts' = [attempts EXCEPT ![c] = << >>]
  /\ wrong' = [wrong EXCEPT ![c] = << >>]
  /\ UNCHANGED lockout

\* The process starts with an empty memory.
Forget ==
  /\ attempts' = [c \in Clients |-> << >>]
  /\ lockout' = [c \in Clients |-> 0]
  /\ wrong' = [c \in Clients |-> << >>]

-----------------------------------------------------------------------------
\* No client has more than MaxAttempts passwords found wrong within any window,
\* lockouts that end and buckets that are cleared included, unless one was
\* right in between or the process started anew.
GuessesAreBounded ==
  \A c \in Clients : Len(Within(wrong[c])) <= MaxAttempts

\* Only MaxAttempts of them within a window lock a client out: neither old
\* failures nor those that an earlier lockout has paid for count again.
LockoutIsEarned ==
  \A c \in Clients : lockout[c] = Lockout => Len(Within(wrong[c])) >= MaxAttempts
=============================================================================
