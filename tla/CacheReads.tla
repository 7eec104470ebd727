----------------------------- MODULE CacheReads -----------------------------
(***************************************************************************)
(* What a calendar cache promises the requests that read through it, with  *)
(* nothing of how LayerCache keeps it: no tickets, slots, waiting, clock   *)
(* or order of use.                                                        *)
(*                                                                         *)
(*   - A request is answered with data the key had while it was asked: the *)
(*     snapshot held, or what the database said.                           *)
(*   - What is held when a change is settled for a key (invalidated while  *)
(*     nobody is fetching the key) goes, and nothing older is ever held    *)
(*     again, so no later request meets it.                                *)
(*   - A request fails only when there is no snapshot to answer it with.   *)
(***************************************************************************)
EXTENDS Naturals

CONSTANTS Keys, Callers

VARIABLES
  version,  \* of the data behind each key
  settled,  \* the version every later request of the key sees
  held,     \* the version of a key's snapshot, 0 when there is none
  call      \* of each caller, its latest request

readVars == <<version, settled, held, call>>

NoCall == [at |-> "out"]

\* least is what was settled when the request came, val what it has in hand, 0 when nothing.
Call(at, k, least, val) == [at |-> at, key |-> k, least |-> least, val |-> val]

Waits(c)  == call[c].at = "waiting"
KeyOf(c)  == call[c].key
\* The request goes on with v in hand, is answered with it or fails.
Becomes(c, at, v) == call' = [call EXCEPT ![c] = Call(at, KeyOf(c), call[c].least, v)]

\* A snapshot of version v is held of k; other keys, or k again, may lose theirs.
Holds(k, v) ==
  /\ v \in settled[k] .. version[k] /\ v # 0
  /\ held' \in [Keys -> Nat]
  /\ \A x \in Keys : held'[x] \in {0, IF x = k THEN v ELSE held[x]}

ReadsInit ==
  /\ version = [k \in Keys |-> 1]
  /\ settled = [k \in Keys |-> 0]
  /\ held = [k \in Keys |-> 0]
  /\ call = [c \in Callers |-> NoCall]

Commit(k) ==
  /\ version' = [version EXCEPT ![k] = @ + 1]
  /\ UNCHANGED <<settled, held, call>>

\* Changes are settled for some keys, whose snapshots go; other keys may lose theirs as well.
Settle ==
  /\ settled' \in [Keys -> Nat] /\ held' \in [Keys -> Nat]
  /\ \A k \in Keys : \/ settled'[k] = settled[k] /\ held'[k] \in {0, held[k]}
                     \/ settled'[k] = version[k] /\ held'[k] = 0
  /\ UNCHANGED <<version, call>>

\* A request finds a snapshot or not, and may be answered with it at once.
Ask(c, k) ==
  /\ ~ Waits(c)
  /\ \E at \in {"waiting", "answered"} :
       /\ at = "answered" => held[k] # 0
       /\ call' = [call EXCEPT ![c] = Call(at, k, settled[k], held[k])]
  /\ UNCHANGED <<version, settled, held>>

\* A request that waits comes by the snapshot, or by what the database says, and may be
\* answered with it at once.
Find(c) ==
  /\ Waits(c)
  /\ \E v \in {held[KeyOf(c)], version[KeyOf(c)]} \ {0}, at \in {"waiting", "answered"} :
       Becomes(c, at, v)
  /\ UNCHANGED <<version, settled, held>>

\* It is answered with what it has in hand, which may be held from now on.
Reply(c) ==
  /\ Waits(c) /\ call[c].val # 0
  /\ Becomes(c, "answered", call[c].val)
  /\ UNCHANGED held \/ Holds(KeyOf(c), call[c].val)
  /\ UNCHANGED <<version, settled>>

Fail(c) ==
  /\ Waits(c) /\ held[KeyOf(c)] = 0
  /\ Becomes(c, "failed", 0)
  /\ UNCHANGED <<version, settled, held>>

\* A snapshot is renewed without a request that waits for it.
Renew(k) ==
  /\ \E v \in settled[k] .. version[k] : Holds(k, v)
  /\ UNCHANGED <<version, settled, call>>

ReadsNext ==
  \/ \E k \in Keys : Commit(k) \/ Renew(k)
  \/ Settle
  \/ \E c \in Callers : Find(c) \/ Reply(c) \/ Fail(c) \/ \E k \in Keys : Ask(c, k)

ReadsSpec == ReadsInit /\ [][ReadsNext]_readVars

\* Why: what is held is no older than what was settled, and so is what a request comes by.
ReadsKept ==
  /\ version \in [Keys -> Nat] /\ settled \in [Keys -> Nat] /\ held \in [Keys -> Nat]
  /\ \A k \in Keys : /\ 1 <= version[k] /\ settled[k] <= version[k]
                     /\ held[k] # 0 => held[k] \in settled[k] .. version[k]
  /\ call \in [Callers -> {NoCall} \cup
                 [at : {"waiting", "answered", "failed"}, key : Keys, least : Nat, val : Nat]]
  /\ \A c \in Callers :
       call[c] # NoCall =>
         /\ call[c].least <= settled[KeyOf(c)] /\ call[c].val <= version[KeyOf(c)]
         /\ call[c].val # 0 => call[c].val >= call[c].least
         /\ call[c].at = "answered" => call[c].val # 0

\* An answer is a version its key has had, and none that a change settled before the
\* request came replaced.
AnswersAreCurrent ==
  \A c \in Callers :
    call[c].at = "answered" => /\ call[c].val \in 1 .. version[KeyOf(c)]
                               /\ call[c].val >= call[c].least
=============================================================================
