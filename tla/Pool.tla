-------------------------------- MODULE Pool --------------------------------
(***************************************************************************)
(* The database pool of one process (app/db.py): the slots that callers    *)
(* queue for, psycopg2's pool behind them, which connects while it holds   *)
(* its own lock, the cool-down after a connect that failed, and sessions   *)
(* of their own (db_connection) that share the cool-down and nothing else. *)
(* The server goes down and comes back; an outage kills every connection.  *)
(***************************************************************************)
EXTENDS Integers, Sequences, FiniteSets

CONSTANTS
  Callers,       \* threads that use the database
  Diallers,      \* those that open sessions of their own (a stage's advisory lock)
  MaxConn,       \* DB_POOL_MAX_CONN
  MinConn,       \* DB_POOL_MIN_CONN: idle connections kept
  NoCaller,      \* nobody holds the lock of psycopg2's pool
  MaxUses,       \* bound: calls made
  MaxOutages     \* bound: outages

ASSUME PoolAssumption ==
  /\ IsFiniteSet(Callers) /\ Diallers \subseteq Callers /\ NoCaller \notin Callers
  /\ MaxConn \in Nat \ {0} /\ MinConn \in 0 .. MaxConn
  /\ MaxUses \in Nat /\ MaxOutages \in Nat

VARIABLES
  at,          \* where a caller is
  hand,        \* the connection it was given: "none", "live" or "dead"
  slots,       \* free slots of _WaitedPool
  lock,        \* who holds the lock of psycopg2's pool while it connects
  idle,        \* connections psycopg2's pool keeps, last returned last
  cooling,     \* _connect_failures has an unexpired entry
  up,          \* the server accepts connections
  uses, outages

poolVars == <<at, hand, slots, lock, idle, cooling, up, uses, outages>>

\* In order: past the cool-down check; holding a slot; connecting; its connect failed; given a
\* connection; working; done, its connection to be put back; put back.  Then those of a session.
PoolPlaces == {"waiting", "slot", "connecting", "refused", "got", "using", "returning", "returned"}
SessionPlaces == {"dialing", "session"}
Places == {"away"} \cup PoolPlaces \cup SessionPlaces

Holders == { c \in Callers : at[c] \in PoolPlaces \ {"waiting"} }
Used == { c \in Callers : at[c] \in {"got", "using", "returning"} }

PoolInit ==
  /\ at = [c \in Callers |-> "away"] /\ hand = [c \in Callers |-> "none"]
  /\ slots = MaxConn /\ lock = NoCaller /\ idle = << >>
  /\ cooling = FALSE /\ up = TRUE
  /\ uses = 0 /\ outages = 0

Goes(c, place) == at' = [at EXCEPT ![c] = place]

----------------------------------------------------------------------------
(* getconn                                                                 *)

\* The cool-down is looked at once, before anything is waited for.
Ask(c, place) ==
  /\ at[c] = "away" /\ uses < MaxUses
  /\ uses' = uses + 1
  /\ IF cooling THEN UNCHANGED at ELSE Goes(c, place)
  /\ UNCHANGED <<hand, slots, lock, idle, cooling, up, outages>>

TakeSlot(c) ==
  /\ at[c] = "waiting" /\ slots > 0
  /\ slots' = slots - 1 /\ Goes(c, "slot")
  /\ UNCHANGED <<hand, lock, idle, cooling, up, uses, outages>>

\* acquire_timeout runs out: 503 db_busy.
Saturated(c) ==
  /\ at[c] = "waiting" /\ slots = 0
  /\ Goes(c, "away")
  /\ UNCHANGED <<hand, slots, lock, idle, cooling, up, uses, outages>>

\* psycopg2 hands out the connection that was returned last, whatever became of it.
Reuse(c) ==
  /\ at[c] = "slot" /\ lock = NoCaller /\ idle # << >>
  /\ hand' = [hand EXCEPT ![c] = idle[Len(idle)]]
  /\ idle' = SubSeq(idle, 1, Len(idle) - 1)
  /\ Goes(c, "got")
  /\ UNCHANGED <<slots, lock, cooling, up, uses, outages>>

\* With none idle it connects under its lock, or raises PoolError when maxconn are out.
Connect(c) ==
  /\ at[c] = "slot" /\ lock = NoCaller /\ idle = << >>
  /\ IF Cardinality(Used) = MaxConn
       THEN slots' = slots + 1 /\ Goes(c, "away") /\ UNCHANGED lock
       ELSE lock' = c /\ Goes(c, "connecting") /\ UNCHANGED slots
  /\ UNCHANGED <<hand, idle, cooling, up, uses, outages>>

Connected(c) ==
  /\ at[c] = "connecting" /\ up
  /\ lock' = NoCaller /\ Goes(c, "got")
  /\ hand' = [hand EXCEPT ![c] = "live"]
  /\ UNCHANGED <<slots, idle, cooling, up, uses, outages>>

\* OperationalError, after connect_timeout at the latest.
\* Mutant of ConnectFails: the lock of the pool is not released.
ConnectFailsLocked(c) ==
  /\ at[c] = "connecting" /\ ~ up
  /\ Goes(c, "refused")
  /\ UNCHANGED <<hand, slots, lock, idle, cooling, up, uses, outages>>

ConnectFails(c) ==
  /\ at[c] = "connecting" /\ ~ up
  /\ lock' = NoCaller /\ Goes(c, "refused")
  /\ UNCHANGED <<hand, slots, idle, cooling, up, uses, outages>>

\* Mutant of NoteFailure: the slot is not given back.
NoteFailureOnly(c) ==
  /\ at[c] = "refused"
  /\ cooling' = TRUE /\ Goes(c, "away")
  /\ UNCHANGED <<hand, slots, lock, idle, up, uses, outages>>

NoteFailure(c) ==
  /\ at[c] = "refused"
  /\ slots' = slots + 1 /\ cooling' = TRUE /\ Goes(c, "away")
  /\ UNCHANGED <<hand, lock, idle, up, uses, outages>>

\* _note_connect_success, for a reused connection as well.
NoteSuccess(c) ==
  /\ at[c] = "got"
  /\ cooling' = FALSE /\ Goes(c, "using")
  /\ UNCHANGED <<hand, slots, lock, idle, up, uses, outages>>

----------------------------------------------------------------------------
(* The end of db_cursor                                                    *)

\* Committed, or rolled back for an exception; a dead connection raises in both.
Finish(c) ==
  /\ at[c] = "using"
  /\ Goes(c, "returning")
  /\ UNCHANGED <<hand, slots, lock, idle, cooling, up, uses, outages>>

\* putconn: a live connection is kept while fewer than minconn are idle.
PutBack(c) ==
  /\ at[c] = "returning" /\ lock = NoCaller
  /\ idle' = IF hand[c] = "live" /\ Len(idle) < MinConn THEN Append(idle, "live") ELSE idle
  /\ hand' = [hand EXCEPT ![c] = "none"] /\ Goes(c, "returned")
  /\ UNCHANGED <<slots, lock, cooling, up, uses, outages>>

ReleaseSlot(c) ==
  /\ at[c] = "returned"
  /\ slots' = slots + 1 /\ Goes(c, "away")
  /\ UNCHANGED <<hand, lock, idle, cooling, up, uses, outages>>

----------------------------------------------------------------------------
(* db_connection, and the server                                           *)

Dial(c) ==
  /\ at[c] = "dialing"
  /\ cooling' = ~ up
  /\ Goes(c, IF up THEN "session" ELSE "away")
  /\ UNCHANGED <<hand, slots, lock, idle, up, uses, outages>>

HangUp(c) ==
  /\ at[c] = "session"
  /\ Goes(c, "away")
  /\ UNCHANGED <<hand, slots, lock, idle, cooling, up, uses, outages>>

CoolDownExpires ==
  /\ cooling /\ cooling' = FALSE
  /\ UNCHANGED <<at, hand, slots, lock, idle, up, uses, outages>>

Outage ==
  /\ up /\ outages < MaxOutages
  /\ up' = FALSE /\ outages' = outages + 1
  /\ idle' = [i \in DOMAIN idle |-> "dead"]
  /\ hand' = [c \in Callers |-> IF hand[c] = "none" THEN "none" ELSE "dead"]
  /\ UNCHANGED <<at, slots, lock, cooling, uses>>

Recovery ==
  /\ ~ up /\ up' = TRUE
  /\ UNCHANGED <<at, hand, slots, lock, idle, cooling, uses, outages>>

----------------------------------------------------------------------------
(* What a caller does of itself once it has asked.                         *)
Proceed(c) ==
  \/ TakeSlot(c) \/ Saturated(c) \/ Reuse(c) \/ Connect(c) \/ Connected(c) \/ ConnectFails(c)
  \/ NoteFailure(c) \/ NoteSuccess(c) \/ Finish(c) \/ PutBack(c) \/ ReleaseSlot(c)
  \/ Dial(c) \/ HangUp(c)

PoolNext ==
  \/ \E c \in Callers : Ask(c, "waiting") \/ Proceed(c)
  \/ \E c \in Diallers : Ask(c, "dialing")
  \/ CoolDownExpires \/ Outage \/ Recovery

PoolSpec == PoolInit /\ [][PoolNext]_poolVars

\* Connects, statements and waits for a slot are bounded by their timeouts (_budget).
FairPoolSpec == PoolSpec /\ \A c \in Callers : WF_poolVars(Proceed(c))

----------------------------------------------------------------------------
(* Properties                                                              *)

\* Types; who connects holds the lock, and a connection in hand belongs to a caller that works.
PoolTypeOK ==
  /\ at \in [Callers -> Places]
  /\ hand \in [Callers -> {"none", "live", "dead"}]
  /\ slots \in 0 .. MaxConn /\ lock \in Callers \cup {NoCaller}
  /\ idle \in Seq({"live", "dead"})
  /\ cooling \in BOOLEAN /\ up \in BOOLEAN
  /\ uses \in 0 .. MaxUses /\ outages \in 0 .. MaxOutages
  /\ \A c \in Callers : /\ lock = c <=> at[c] = "connecting"
                        /\ hand[c] # "none" <=> c \in Used

\* Every slot is free or held by one caller, on every way out of getconn and of db_cursor.
SlotsConserved == slots + Cardinality(Holders) = MaxConn

\* The process never has more than maxconn pooled connections, and a caller with a slot is never
\* refused one: the PoolError branch, a 503 for ordinary concurrency, is not taken.
NeverExhausted ==
  /\ Cardinality(Used) + Len(idle) <= MaxConn
  /\ \A c \in Callers : at[c] = "slot" /\ idle = << >> => Cardinality(Used) < MaxConn

\* Whatever the server does, a call ends: nobody waits for ever for a slot whose holder waits for
\* the lock of the pool.
CallsEnd == \A c \in Callers : at[c] # "away" ~> at[c] = "away"

=============================================================================
