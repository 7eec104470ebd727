------------------------------ MODULE WebProofs ------------------------------
(***************************************************************************)
(* Proofs about two parts of the serving process.  Pool, for every number  *)
(* of callers and every size of the pool: slots are conserved, and a       *)
(* caller with a slot is never refused a connection by the pool behind     *)
(* them.  Universe, for every set of codes and every number of threads,    *)
(* changes and failed reads: one reload at a time, and a change of the     *)
(* table nobody had read past is in every snapshot that is served.  Last,  *)
(* that the composition MCWeb checks is of its parts.                      *)
(***************************************************************************)
EXTENDS MCWeb, FiniteSetTheorems, SequenceTheorems, TLAPS

----------------------------------------------------------------------------
(* Pool                                                                    *)

\* While somebody connects nothing is idle: only who holds the lock could have put it there.
PoolInv ==
  /\ PoolTypeOK
  /\ SlotsConserved
  /\ Cardinality(Used) + Len(idle) <= MaxConn
  /\ lock # NoCaller => idle = << >>

LEMMA CallersFinite ==
  ASSUME PoolAssumption
  PROVE  \A S \in SUBSET Callers : IsFiniteSet(S) /\ Cardinality(S) \in Nat
BY FS_Subset, FS_CardinalityType DEF PoolAssumption

\* Counting one caller in or out of a set of callers.
LEMMA OneIn ==
  ASSUME PoolAssumption, NEW S \in SUBSET Callers, NEW c \in Callers, c \notin S
  PROVE  Cardinality(S \cup {c}) = Cardinality(S) + 1
BY CallersFinite, FS_AddElement

LEMMA OneOut ==
  ASSUME PoolAssumption, NEW S \in SUBSET Callers, NEW c \in S
  PROVE  Cardinality(S \ {c}) = Cardinality(S) - 1
BY CallersFinite, FS_RemoveElement

\* A caller that holds a slot and has no connection leaves one for it.
LEMMA SlotIsRoom ==
  ASSUME PoolAssumption, PoolInv, NEW c \in Holders, c \notin Used
  PROVE  Cardinality(Used) < MaxConn
<1>1. Used \subseteq Holders \ {c} /\ Holders \in SUBSET Callers
  BY DEF Used, Holders, PoolPlaces
<1>2. Cardinality(Used) <= Cardinality(Holders \ {c})
  BY <1>1, CallersFinite, FS_Subset
<1>3. Cardinality(Holders \ {c}) = Cardinality(Holders) - 1
  BY <1>1, OneOut
<1>4. /\ Cardinality(Used) \in Nat /\ Cardinality(Holders) \in Nat
      /\ Cardinality(Holders) <= MaxConn
  BY <1>1, CallersFinite DEF PoolInv, SlotsConserved, PoolTypeOK, PoolAssumption
<1> QED BY <1>2, <1>3, <1>4 DEF PoolAssumption

\* How a caller's move changes who holds slots and connections.
LEMMA MoveCounts ==
  ASSUME PoolAssumption, PoolTypeOK, NEW c \in Callers, NEW place \in Places, Goes(c, place)
  PROVE  /\ at' \in [Callers -> Places]
         /\ Holders' = (Holders \ {c}) \cup (IF place \in PoolPlaces \ {"waiting"} THEN {c} ELSE {})
         /\ Used' = (Used \ {c}) \cup (IF place \in {"got", "using", "returning"} THEN {c} ELSE {})
         /\ \A d \in Callers : at'[d] = (IF d = c THEN place ELSE at[d])
<1>1. at' = [at EXCEPT ![c] = place] /\ at \in [Callers -> Places]
  BY DEF Goes, PoolTypeOK
<1> QED BY <1>1 DEF Holders, Used

\* What is left of a sequence whose last element is taken.
LEMMA ButLast ==
  ASSUME NEW S, NEW s \in Seq(S), Len(s) \in Nat \ {0}
  PROVE  SubSeq(s, 1, Len(s) - 1) \in Seq(S) /\ Len(SubSeq(s, 1, Len(s) - 1)) = Len(s) - 1
<1>1. PICK n \in Int : n = Len(s) - 1 /\ n \in Nat
  OBVIOUS
<1>2. 1 \in Int /\ \A i \in 1 .. n : s[i] \in S
  BY <1>1
<1>3. SubSeq(s, 1, n) \in Seq(S) /\ Len(SubSeq(s, 1, n)) = IF 1 <= n THEN n - 1 + 1 ELSE 0
  BY <1>2, SubSeqProperties, SMTT(30)
<1> HIDE <1>2
<1>4. (IF 1 <= n THEN n - 1 + 1 ELSE 0) = n
  BY <1>1
<1> QED BY <1>1, <1>3, <1>4, Zenon

LEMMA PoolInvInit == ASSUME PoolAssumption, PoolInit PROVE PoolInv
<1>1. Holders = {} /\ Used = {}
  BY DEF PoolInit, Holders, Used, PoolPlaces
<1>2. Cardinality({}) = 0
  BY FS_EmptySet
<1>3. PoolTypeOK
  <2>1. /\ at \in [Callers -> Places] /\ hand \in [Callers -> {"none", "live", "dead"}]
        /\ idle \in Seq({"live", "dead"}) /\ slots \in 0 .. MaxConn
    <3>1. at \in [Callers -> Places] /\ hand \in [Callers -> {"none", "live", "dead"}]
      BY DEF PoolInit, Places
    <3>2. idle \in Seq({"live", "dead"}) /\ idle = << >>
      BY DEF PoolInit
    <3>3. slots \in 0 .. MaxConn
      BY DEF PoolInit, PoolAssumption
    <3> QED BY <3>1, <3>2, <3>3
  <2>2. \A c \in Callers : lock # c /\ at[c] = "away" /\ hand[c] = "none"
    <3>1. \A c \in Callers : at[c] = "away" /\ hand[c] = "none"
      BY DEF PoolInit
    <3>2. \A c \in Callers : lock # c
      BY DEF PoolInit, PoolAssumption
    <3> QED BY <3>1, <3>2
  <2>3. /\ lock \in Callers \cup {NoCaller} /\ cooling \in BOOLEAN /\ up \in BOOLEAN
        /\ uses \in 0 .. MaxUses /\ outages \in 0 .. MaxOutages
    <3>1. lock \in Callers \cup {NoCaller} /\ cooling \in BOOLEAN /\ up \in BOOLEAN
      BY Zenon DEF PoolInit
    <3>2. uses \in 0 .. MaxUses /\ outages \in 0 .. MaxOutages
      BY DEF PoolInit, PoolAssumption
    <3> QED BY <3>1, <3>2
  <2>4. \A c \in Callers : /\ lock = c <=> at[c] = "connecting"
                           /\ hand[c] # "none" <=> c \in Used
    <3> SUFFICES ASSUME NEW c \in Callers
                 PROVE  (lock = c <=> at[c] = "connecting") /\ (hand[c] # "none" <=> c \in Used)
      OBVIOUS
    <3>1. c \notin Used
      BY <1>1
    <3> QED BY <2>2, <3>1
  <2> QED BY <2>1, <2>3, <2>4 DEF PoolTypeOK
<1>4. SlotsConserved /\ Cardinality(Used) + Len(idle) <= MaxConn /\ idle = << >>
  BY <1>1, <1>2 DEF PoolInit, SlotsConserved, PoolAssumption
<1> QED BY <1>3, <1>4 DEF PoolInv

LEMMA PoolInvNext == ASSUME PoolAssumption, PoolInv, [PoolNext]_poolVars PROVE PoolInv'
<1> USE DEF PoolInv
<1>0. /\ Holders \in SUBSET Callers /\ Used \in SUBSET Callers
      /\ Cardinality(Holders) \in Nat /\ Cardinality(Used) \in Nat
      /\ MaxConn \in Nat /\ MinConn \in 0 .. MaxConn /\ MaxUses \in Nat
  <2>1. Holders \in SUBSET Callers /\ Used \in SUBSET Callers
    BY DEF Holders, Used
  <2> QED BY <2>1, CallersFinite DEF PoolAssumption
\* Steps that move nobody into or out of a slot.
<1>1. ASSUME NEW c \in Callers, Ask(c, "waiting") \/ (c \in Diallers /\ Ask(c, "dialing"))
      PROVE PoolInv'
  <2>1. CASE cooling
    <3>1. /\ uses < MaxUses /\ uses' = uses + 1
          /\ UNCHANGED <<at, hand, slots, lock, idle, cooling, up, outages>>
      BY <1>1, <2>1 DEF Ask
    <3>2. Holders' = Holders /\ Used' = Used
      BY <3>1 DEF Holders, Used
    <3>3. PoolTypeOK'
      BY <1>0, <3>1, <3>2 DEF PoolTypeOK
    <3> QED BY <3>1, <3>2, <3>3 DEF SlotsConserved
  <2>2. CASE ~ cooling
    <3>1. PICK place \in {"waiting", "dialing"} : Ask(c, place)
      BY <1>1
    <3>2. at[c] = "away" /\ Goes(c, place) /\ place \in Places
      BY <2>2, <3>1 DEF Ask, Places, PoolPlaces, SessionPlaces
    <3>3. Holders' = Holders /\ Used' = Used
      BY <3>2, MoveCounts DEF Holders, Used, PoolPlaces
    <3> QED BY <2>2, <3>1, <3>2, <3>3, MoveCounts DEF Ask, PoolTypeOK, SlotsConserved
  <2> QED BY <2>1, <2>2
<1>2. ASSUME NEW c \in Callers, Saturated(c) \/ Dial(c) \/ HangUp(c)
      PROVE PoolInv'
  <2>1. PICK place \in {"away", "session"} :
           /\ Goes(c, place) /\ at[c] \in {"waiting", "dialing", "session"}
           /\ UNCHANGED <<hand, slots, lock, idle, up, uses, outages>> /\ cooling' \in BOOLEAN
    BY <1>2 DEF Saturated, Dial, HangUp, PoolTypeOK
  <2>2. place \in Places
    BY DEF Places, SessionPlaces
  <2>3. Holders' = Holders /\ Used' = Used
    BY <2>1, <2>2, MoveCounts DEF Holders, Used, PoolPlaces
  <2> QED BY <2>1, <2>2, <2>3, MoveCounts DEF PoolTypeOK, SlotsConserved
<1>3. ASSUME NEW c \in Callers, TakeSlot(c)
      PROVE PoolInv'
  <2>1. /\ Goes(c, "slot") /\ at[c] = "waiting" /\ slots > 0 /\ slots' = slots - 1
        /\ UNCHANGED <<hand, lock, idle, cooling, up, uses, outages>>
    BY <1>3 DEF TakeSlot
  <2>2. "slot" \in Places
    BY DEF Places, PoolPlaces
  <2>3. c \notin Holders /\ Holders' = Holders \cup {c} /\ Used' = Used
    BY <2>1, <2>2, MoveCounts DEF Holders, Used, PoolPlaces
  <2>4. Cardinality(Holders') = Cardinality(Holders) + 1
    BY <2>3, <1>0, OneIn
  <2>5. PoolTypeOK'
    BY <1>0, <2>1, <2>2, <2>3, MoveCounts DEF PoolTypeOK
  <2>6. SlotsConserved'
    BY <1>0, <2>1, <2>4 DEF PoolTypeOK, SlotsConserved
  <2> QED BY <2>1, <2>3, <2>5, <2>6
<1>4. ASSUME NEW c \in Callers, Reuse(c)
      PROVE PoolInv'
  <2>1. /\ Goes(c, "got") /\ at[c] = "slot" /\ lock = NoCaller /\ idle # << >>
        /\ hand' = [hand EXCEPT ![c] = idle[Len(idle)]]
        /\ idle' = SubSeq(idle, 1, Len(idle) - 1)
        /\ UNCHANGED <<slots, lock, cooling, up, uses, outages>>
    BY <1>4 DEF Reuse
  <2>2. "got" \in Places
    BY DEF Places, PoolPlaces
  <2>3. c \notin Used /\ Holders' = Holders /\ Used' = Used \cup {c}
    BY <2>1, <2>2, MoveCounts DEF Holders, Used, PoolPlaces
  <2>4. Cardinality(Used') = Cardinality(Used) + 1
    BY <2>3, <1>0, OneIn
  <2>5. /\ Len(idle) \in Nat \ {0} /\ idle[Len(idle)] \in {"live", "dead"}
        /\ idle' \in Seq({"live", "dead"}) /\ Len(idle') = Len(idle) - 1
    <3>1. idle \in Seq({"live", "dead"}) /\ idle # << >>
      BY <2>1 DEF PoolTypeOK
    <3>2. Len(idle) \in Nat \ {0} /\ idle[Len(idle)] \in {"live", "dead"}
      BY <3>1
    <3>3. idle' \in Seq({"live", "dead"}) /\ Len(idle') = Len(idle) - 1
      BY <2>1, <3>1, <3>2, ButLast
    <3> QED BY <3>2, <3>3
  <2> QED BY <1>0, <2>1, <2>2, <2>3, <2>4, <2>5, MoveCounts DEF PoolTypeOK, SlotsConserved
<1>5. ASSUME NEW c \in Callers, Connect(c)
      PROVE PoolInv'
  <2>1. c \in Holders /\ c \notin Used /\ at[c] = "slot" /\ lock = NoCaller /\ idle = << >>
    BY <1>5 DEF Connect, Holders, Used, PoolPlaces
  <2>2. Cardinality(Used) # MaxConn
    BY <2>1, <1>0, SlotIsRoom
  <2>3. /\ Goes(c, "connecting") /\ lock' = c
        /\ UNCHANGED <<slots, hand, idle, cooling, up, uses, outages>>
    BY <1>5, <2>2 DEF Connect
  <2>4. "connecting" \in Places
    BY DEF Places, PoolPlaces
  <2>5. Holders' = Holders /\ Used' = Used
    BY <2>1, <2>3, <2>4, MoveCounts DEF Holders, Used, PoolPlaces
  <2> QED BY <2>1, <2>3, <2>4, <2>5, MoveCounts DEF PoolTypeOK, SlotsConserved, PoolAssumption
<1>6. ASSUME NEW c \in Callers, Connected(c)
      PROVE PoolInv'
  <2>1. /\ Goes(c, "got") /\ at[c] = "connecting" /\ lock' = NoCaller
        /\ hand' = [hand EXCEPT ![c] = "live"]
        /\ UNCHANGED <<slots, idle, cooling, up, uses, outages>>
    BY <1>6 DEF Connected
  <2>2. "got" \in Places
    BY DEF Places, PoolPlaces
  <2>3. c \in Holders /\ c \notin Used /\ Holders' = Holders /\ Used' = Used \cup {c}
    BY <2>1, <2>2, MoveCounts DEF Holders, Used, PoolPlaces
  <2>4. Cardinality(Used') = Cardinality(Used) + 1 /\ Cardinality(Used) < MaxConn
    BY <2>3, <1>0, OneIn, SlotIsRoom
  <2>5. idle = << >> /\ lock = c
    BY <2>1 DEF PoolTypeOK, PoolAssumption
  <2> QED BY <1>0, <2>1, <2>2, <2>3, <2>4, <2>5, MoveCounts
       DEF PoolTypeOK, SlotsConserved, PoolAssumption
<1>7. ASSUME NEW c \in Callers, ConnectFails(c)
      PROVE PoolInv'
  <2>1. /\ Goes(c, "refused") /\ at[c] = "connecting" /\ lock' = NoCaller
        /\ UNCHANGED <<slots, hand, idle, cooling, up, uses, outages>>
    BY <1>7 DEF ConnectFails
  <2>2. "refused" \in Places
    BY DEF Places, PoolPlaces
  <2>3. Holders' = Holders /\ Used' = Used
    BY <2>1, <2>2, MoveCounts DEF Holders, Used, PoolPlaces
  <2> QED BY <2>1, <2>2, <2>3, MoveCounts DEF PoolTypeOK, SlotsConserved, PoolAssumption
<1>8. ASSUME NEW c \in Callers, NoteFailure(c) \/ ReleaseSlot(c)
      PROVE PoolInv'
  <2>1. /\ Goes(c, "away") /\ at[c] \in {"refused", "returned"} /\ slots' = slots + 1
        /\ UNCHANGED <<hand, lock, idle, up, uses, outages>> /\ cooling' \in BOOLEAN
    BY <1>8 DEF NoteFailure, ReleaseSlot, PoolTypeOK
  <2>2. "away" \in Places
    BY DEF Places
  <2>3. c \in Holders /\ Holders' = Holders \ {c} /\ Used' = Used
    BY <2>1, <2>2, MoveCounts DEF Holders, Used, PoolPlaces
  <2>4. Cardinality(Holders') = Cardinality(Holders) - 1 /\ Cardinality(Holders') \in Nat
    BY <2>3, <1>0, OneOut, CallersFinite
  <2> QED BY <1>0, <2>1, <2>2, <2>3, <2>4, MoveCounts DEF PoolTypeOK, SlotsConserved
<1>9. ASSUME NEW c \in Callers, NoteSuccess(c) \/ Finish(c)
      PROVE PoolInv'
  <2>1. PICK place \in {"using", "returning"} :
           /\ Goes(c, place) /\ at[c] \in {"got", "using"}
           /\ UNCHANGED <<hand, slots, lock, idle, up, uses, outages>> /\ cooling' \in BOOLEAN
    BY <1>9 DEF NoteSuccess, Finish, PoolTypeOK
  <2>2. place \in Places
    BY DEF Places, PoolPlaces
  <2>3. Holders' = Holders /\ Used' = Used
    BY <2>1, <2>2, MoveCounts DEF Holders, Used, PoolPlaces
  <2> QED BY <2>1, <2>2, <2>3, MoveCounts DEF PoolTypeOK, SlotsConserved
<1>10. ASSUME NEW c \in Callers, PutBack(c)
       PROVE PoolInv'
  <2>1. /\ Goes(c, "returned") /\ at[c] = "returning" /\ lock = NoCaller
        /\ hand' = [hand EXCEPT ![c] = "none"]
        /\ idle' = IF hand[c] = "live" /\ Len(idle) < MinConn THEN Append(idle, "live") ELSE idle
        /\ UNCHANGED <<slots, lock, cooling, up, uses, outages>>
    BY <1>10 DEF PutBack
  <2>2. "returned" \in Places
    BY DEF Places, PoolPlaces
  <2>3. c \in Used /\ Holders' = Holders /\ Used' = Used \ {c}
    BY <2>1, <2>2, MoveCounts DEF Holders, Used, PoolPlaces
  <2>4. Cardinality(Used') = Cardinality(Used) - 1
    BY <2>3, <1>0, OneOut
  <2>5. idle' \in Seq({"live", "dead"}) /\ Len(idle') <= Len(idle) + 1 /\ Len(idle') \in Nat
    BY <2>1 DEF PoolTypeOK
  <2> QED BY <1>0, <2>1, <2>2, <2>3, <2>4, <2>5, MoveCounts DEF PoolTypeOK, SlotsConserved
<1>11. CASE CoolDownExpires \/ Recovery
  BY <1>11 DEF CoolDownExpires, Recovery, PoolTypeOK, SlotsConserved, Holders, Used
<1>12. CASE Outage
  <2>1. /\ idle' = [i \in 1 .. Len(idle) |-> "dead"]
        /\ hand' = [c \in Callers |-> IF hand[c] = "none" THEN "none" ELSE "dead"]
        /\ up' = FALSE /\ outages' = outages + 1 /\ outages < MaxOutages
        /\ UNCHANGED <<at, slots, lock, cooling, uses>>
    BY <1>12 DEF Outage, PoolTypeOK
  <2>2. idle' \in Seq({"live", "dead"}) /\ Len(idle') = Len(idle)
    BY <2>1 DEF PoolTypeOK
  <2>3. Holders' = Holders /\ Used' = Used
    BY <2>1 DEF Holders, Used
  <2>4. lock' # NoCaller => idle' = << >>
    BY <2>1, <2>2
  <2>5. PoolTypeOK'
    <3>1. hand' \in [Callers -> {"none", "live", "dead"}]
      BY <2>1
    <3>2. \A c \in Callers : hand'[c] # "none" <=> c \in Used'
      BY <2>1, <2>3 DEF PoolTypeOK
    <3>3. outages' \in 0 .. MaxOutages
      BY <2>1 DEF PoolTypeOK, PoolAssumption
    <3> QED BY <2>1, <2>2, <3>1, <3>2, <3>3 DEF PoolTypeOK
  <2> QED BY <2>1, <2>2, <2>3, <2>4, <2>5 DEF SlotsConserved
<1>13. CASE UNCHANGED poolVars
  BY <1>13 DEF poolVars, PoolTypeOK, SlotsConserved, Holders, Used
<1> QED
  BY <1>1, <1>2, <1>3, <1>4, <1>5, <1>6, <1>7, <1>8, <1>9, <1>10, <1>11, <1>12, <1>13
  DEF PoolNext, Proceed, PoolAssumption

LEMMA PoolInvHolds == PoolSpec => []PoolInv
<1>1. PoolInit => PoolInv
  BY PoolAssumption, PoolInvInit
<1>2. PoolInv /\ [PoolNext]_poolVars => PoolInv'
  BY PoolAssumption, PoolInvNext
<1> QED BY <1>1, <1>2, PTL DEF PoolSpec

\* Every variable keeps its type, and only the caller that connects holds the lock.
THEOREM PoolTypeCorrect == PoolSpec => []PoolTypeOK
<1>1. PoolInv => PoolTypeOK
  BY DEF PoolInv
<1> QED BY <1>1, PoolInvHolds, PTL

\* A slot is never lost and never given back twice.
THEOREM SlotsAreConserved == PoolSpec => []SlotsConserved
<1>1. PoolInv => SlotsConserved
  BY DEF PoolInv
<1> QED BY <1>1, PoolInvHolds, PTL

\* A caller that holds a slot always gets a connection or a connect: as many slots as connections
\* are enough because a connection goes back before its slot does.
THEOREM PoolErrorUnreachable == PoolSpec => []NeverExhausted
<1>1. PoolInv => NeverExhausted
  BY PoolAssumption, SlotIsRoom DEF PoolInv, NeverExhausted, Holders, Used, PoolPlaces
<1> QED BY <1>1, PoolInvHolds, PTL

----------------------------------------------------------------------------
(* Universe                                                                *)

\* A reload that has read the external list but not yet the table holds codes
\* of the external list only.
UpstreamFirst ==
  \A w \in Loaders : reload[w].at = "local" => reload[w].got \subseteq UpstreamCodes

\* A reload that has read the table, and could, holds what the table holds now,
\* unless the table has changed since and the change is not announced, or was
\* announced while the reload held the older table.
QuietReload ==
  \A w \in Loaders :
    quiet /\ reload[w].at = "publish" /\ reload[w].sure => reload[w].got \cap LocalCodes = managed

\* The inductive invariant.
UniverseInvariant == UniverseTypeOK /\ UpstreamFirst /\ QuietReload /\ QuietChangeIsVisible

Sources == [upstream : SUBSET UpstreamCodes, local : SUBSET LocalCodes]
Reloads == [at : {"off", "started", "upstream", "local", "publish", "ending"}, of : Sources,
            current : BOOLEAN, got : SUBSET (LocalCodes \cup UpstreamCodes),
            failed : BOOLEAN, sure : BOOLEAN]

----------------------------------------------------------------------------
(* One reload                                                              *)

\* A thread that has nothing to reload.
LEMMA NoReloadType == NoSource \in Sources /\ NoReload \in Reloads /\ NoReload.at = "off"
BY DEF NoSource, NoReload, Sources, Reloads

\* What a reload holds.
LEMMA ReloadType ==
  ASSUME UniverseTypeOK, NEW w \in Loaders
  PROVE  reload[w] \in Reloads /\ reload \in [Loaders -> Reloads]
BY DEF UniverseTypeOK, Reloads, Sources

\* A step of the thread w from the state it is in to the state st, that touches
\* neither the snapshot nor the table.
LEMMA ReloadMoves ==
  ASSUME UniverseInvariant, NEW w \in Loaders, NEW st \in Reloads,
         reload' = [reload EXCEPT ![w] = st], reload[w].at # "off", st.at # "off",
         source' \in Sources, failedReads' \in 0 .. MaxFailedReads,
         UNCHANGED <<managed, upstream, refresh, universe, fresh, admin, quiet, changes>>,
         st.at = "local" => st.got \subseteq UpstreamCodes,
         quiet /\ st.at = "publish" /\ st.sure => st.got \cap LocalCodes = managed
  PROVE  UniverseInvariant'
<1>1. reload \in [Loaders -> Reloads]
  BY ReloadType DEF UniverseInvariant
<1>2. reload' \in [Loaders -> Reloads] /\ reload'[w] = st
      /\ \A v \in Loaders : v # w => reload'[v] = reload[v]
  BY <1>1
<1>3. \A v \in Loaders : refresh' = v <=> reload'[v].at # "off"
  BY <1>2 DEF UniverseInvariant, UniverseTypeOK
<1>4. UniverseTypeOK'
  BY <1>2, <1>3 DEF UniverseInvariant, UniverseTypeOK, Sources, Reloads
<1>5. UpstreamFirst'
  BY <1>2 DEF UniverseInvariant, UpstreamFirst
<1>6. QuietReload'
  BY <1>2 DEF UniverseInvariant, QuietReload
<1>7. QuietChangeIsVisible'
  BY DEF UniverseInvariant, QuietChangeIsVisible
<1> QED BY <1>4, <1>5, <1>6, <1>7 DEF UniverseInvariant

\* A caller starts a reload only when none is in flight.
LEMMA GetUniverseInvariant ==
  ASSUME UniverseInvariant, NEW w \in Loaders, GetUniverse(w)
  PROVE  UniverseInvariant'
<1> DEFINE st == [NoReload EXCEPT !.at = "started"]
<1>1. st \in Reloads /\ st.at = "started"
  BY NoReloadType DEF Reloads, NoReload
<1>2. reload \in [Loaders -> Reloads]
  BY ReloadType DEF UniverseInvariant
<1>3. /\ refresh = NoLoader /\ refresh' = w /\ reload' = [reload EXCEPT ![w] = st]
      /\ UNCHANGED <<managed, upstream, source, universe, fresh, admin, quiet, changes, failedReads>>
  BY DEF GetUniverse
<1> HIDE DEF st
<1>4. reload' \in [Loaders -> Reloads] /\ reload'[w] = st
      /\ \A v \in Loaders : v # w => reload'[v] = reload[v]
  BY <1>1, <1>2, <1>3
<1>5. \A v \in Loaders : v # w => reload[v].at = "off"
  BY <1>3, UniverseAssumption DEF UniverseInvariant, UniverseTypeOK
<1>6. \A v \in Loaders : refresh' = v <=> reload'[v].at # "off"
  BY <1>1, <1>3, <1>4, <1>5
<1>7. UniverseTypeOK'
  BY <1>3, <1>4, <1>6 DEF UniverseInvariant, UniverseTypeOK, Sources, Reloads
<1>8. UpstreamFirst' /\ QuietReload'
  BY <1>1, <1>3, <1>4 DEF UniverseInvariant, UpstreamFirst, QuietReload
<1>9. QuietChangeIsVisible'
  BY <1>3 DEF UniverseInvariant, QuietChangeIsVisible
<1> QED BY <1>7, <1>8, <1>9 DEF UniverseInvariant

\* The reload takes the source object of the moment.
LEMMA TakeSourceInvariant ==
  ASSUME UniverseInvariant, NEW w \in Loaders, TakeSource(w)
  PROVE  UniverseInvariant'
<1> DEFINE st == [reload[w] EXCEPT !.at = "upstream", !.of = source, !.current = TRUE]
<1>1. reload[w] \in Reloads /\ reload \in [Loaders -> Reloads] /\ source \in Sources
  BY ReloadType DEF UniverseInvariant, UniverseTypeOK, Sources
<1>2. st \in Reloads /\ st.at = "upstream"
  BY <1>1 DEF Reloads
<1>3. reload' = [reload EXCEPT ![w] = st] /\ reload[w].at = "started"
      /\ UNCHANGED <<managed, upstream, source, refresh, universe, fresh, admin, quiet, changes, failedReads>>
  BY <1>1 DEF TakeSource
<1>4. failedReads' \in 0 .. MaxFailedReads
  BY <1>3 DEF UniverseInvariant, UniverseTypeOK
<1> HIDE DEF st
<1> QED BY <1>1, <1>2, <1>3, <1>4, ReloadMoves

\* Whatever the read of the external list yields, now or from what the object
\* remembers, are codes of that list.
LEMMA ReadUpstreamInvariant ==
  ASSUME UniverseInvariant, NEW w \in Loaders, ReadUpstream(w)
  PROVE  UniverseInvariant'
<1> DEFINE r == reload[w]
<1>1. r \in Reloads /\ reload \in [Loaders -> Reloads] /\ source \in Sources
      /\ upstream \subseteq UpstreamCodes /\ failedReads \in 0 .. MaxFailedReads
  BY ReloadType DEF UniverseInvariant, UniverseTypeOK, Sources
<1>2. r.of \in Sources
  BY <1>1 DEF Reloads
<1>3. r.at = "upstream"
      /\ UNCHANGED <<managed, upstream, refresh, universe, fresh, admin, quiet, changes>>
  BY DEF ReadUpstream
<1>4. ASSUME reload' = [reload EXCEPT ![w].at = "local", ![w].of = [r.of EXCEPT !.upstream = upstream],
                                      ![w].got = upstream],
             Remember(w, [r.of EXCEPT !.upstream = upstream]), UNCHANGED failedReads
      PROVE  UniverseInvariant'
  <2> DEFINE kept == [r.of EXCEPT !.upstream = upstream]
  <2> DEFINE st == [r EXCEPT !.at = "local", !.of = kept, !.got = upstream]
  <2>1. kept \in Sources
    BY <1>1, <1>2 DEF Sources
  <2>2. source' \in Sources
    BY <1>1, <1>4, <2>1 DEF Remember
  <2>3. reload' = [reload EXCEPT ![w] = st]
    BY <1>1, <1>4
  <2> HIDE DEF kept
  <2>4. st \in Reloads /\ st.at = "local" /\ st.got = upstream
    BY <1>1, <2>1 DEF Reloads
  <2> HIDE DEF st
  <2> QED BY <1>1, <1>3, <1>4, <2>2, <2>3, <2>4, ReloadMoves
<1>5. ASSUME failedReads < MaxFailedReads, failedReads' = failedReads + 1, UNCHANGED source,
             reload' = [reload EXCEPT ![w].at = "local", ![w].got = r.of.upstream, ![w].failed = TRUE]
      PROVE  UniverseInvariant'
  <2> DEFINE st == [r EXCEPT !.at = "local", !.got = r.of.upstream, !.failed = TRUE]
  <2>1. r.of.upstream \subseteq UpstreamCodes
    BY <1>2 DEF Sources
  <2>2. reload' = [reload EXCEPT ![w] = st]
    BY <1>1, <1>5
  <2>3. st \in Reloads /\ st.at = "local" /\ st.got = r.of.upstream
    BY <1>1, <2>1 DEF Reloads
  <2>4. failedReads' \in 0 .. MaxFailedReads
    BY <1>1, <1>5, UniverseAssumption
  <2> HIDE DEF st
  <2> QED BY <1>1, <1>3, <1>5, <2>1, <2>2, <2>3, <2>4, ReloadMoves
<1> QED BY <1>4, <1>5 DEF ReadUpstream

\* A read of the table that succeeds adds what it holds now to codes that are
\* none of its own; one that fails is not sure.
LEMMA ReadLocalInvariant ==
  ASSUME UniverseInvariant, NEW w \in Loaders, ReadLocal(w)
  PROVE  UniverseInvariant'
<1> DEFINE r == reload[w]
<1>1. r \in Reloads /\ reload \in [Loaders -> Reloads] /\ source \in Sources
      /\ managed \subseteq LocalCodes /\ failedReads \in 0 .. MaxFailedReads
  BY ReloadType DEF UniverseInvariant, UniverseTypeOK, Sources
<1>2. r.of \in Sources /\ r.got \subseteq LocalCodes \cup UpstreamCodes
  BY <1>1 DEF Reloads
<1>3. r.at = "local" /\ r.got \subseteq UpstreamCodes
      /\ UNCHANGED <<managed, upstream, refresh, universe, fresh, admin, quiet, changes>>
  BY DEF ReadLocal, UniverseInvariant, UpstreamFirst
<1>4. ASSUME reload' = [reload EXCEPT ![w].at = "publish", ![w].of = [r.of EXCEPT !.local = managed],
                                      ![w].got = @ \cup managed],
             Remember(w, [r.of EXCEPT !.local = managed]), UNCHANGED failedReads
      PROVE  UniverseInvariant'
  <2> DEFINE kept == [r.of EXCEPT !.local = managed]
  <2> DEFINE st == [r EXCEPT !.at = "publish", !.of = kept, !.got = r.got \cup managed]
  <2>1. kept \in Sources
    BY <1>1, <1>2 DEF Sources
  <2>2. source' \in Sources
    BY <1>1, <1>4, <2>1 DEF Remember
  <2>3. reload' = [reload EXCEPT ![w] = st]
    BY <1>1, <1>4
  <2> HIDE DEF kept
  <2>4. st \in Reloads /\ st.at = "publish" /\ st.got = r.got \cup managed
    BY <1>1, <1>2, <2>1 DEF Reloads
  <2>5. (r.got \cup managed) \cap LocalCodes = managed
    BY <1>1, <1>3, UniverseAssumption
  <2> HIDE DEF st
  <2> QED BY <1>1, <1>3, <1>4, <2>2, <2>3, <2>4, <2>5, ReloadMoves
<1>5. ASSUME failedReads < MaxFailedReads, failedReads' = failedReads + 1, UNCHANGED source,
             reload' = [reload EXCEPT ![w].at = "publish", ![w].got = @ \cup r.of.local, ![w].sure = FALSE]
      PROVE  UniverseInvariant'
  <2> DEFINE st == [r EXCEPT !.at = "publish", !.got = r.got \cup r.of.local, !.sure = FALSE]
  <2>1. r.of.local \subseteq LocalCodes
    BY <1>2 DEF Sources
  <2>2. reload' = [reload EXCEPT ![w] = st]
    BY <1>1, <1>5
  <2>3. st \in Reloads /\ st.at = "publish" /\ st.sure = FALSE
    BY <1>1, <1>2, <2>1 DEF Reloads
  <2>4. failedReads' \in 0 .. MaxFailedReads
    BY <1>1, <1>5, UniverseAssumption
  <2> HIDE DEF st
  <2> QED BY <1>1, <1>3, <1>5, <2>2, <2>3, <2>4, ReloadMoves
<1> QED BY <1>4, <1>5 DEF ReadLocal

\* What a sure reload publishes holds the table.
LEMMA PublishInvariant ==
  ASSUME UniverseInvariant, NEW w \in Loaders, Publish(w)
  PROVE  UniverseInvariant'
<1> DEFINE r == reload[w]
<1> DEFINE st == [r EXCEPT !.at = "ending"]
<1>1. r \in Reloads /\ reload \in [Loaders -> Reloads]
  BY ReloadType DEF UniverseInvariant
<1>2. /\ r.at = "publish" /\ universe' = Snapshot(r) /\ fresh' = TRUE
      /\ reload' = [reload EXCEPT ![w] = st]
      /\ UNCHANGED <<managed, upstream, source, refresh, admin, quiet, changes, failedReads>>
  BY <1>1 DEF Publish
<1>3. st \in Reloads /\ st.at = "ending"
  BY <1>1 DEF Reloads
<1> HIDE DEF st
<1>4. reload' \in [Loaders -> Reloads] /\ reload'[w] = st
      /\ \A v \in Loaders : v # w => reload'[v] = reload[v]
  BY <1>1, <1>2, <1>3
<1>5. /\ universe' \in [codes : SUBSET Codes, error : BOOLEAN, read : BOOLEAN, sure : BOOLEAN]
      /\ universe'.sure => universe'.codes = r.got /\ r.sure
  BY <1>1, <1>2 DEF Snapshot, Codes, Reloads, UniverseInvariant, UniverseTypeOK
<1>6. \A v \in Loaders : refresh' = v <=> reload'[v].at # "off"
  BY <1>2, <1>3, <1>4 DEF UniverseInvariant, UniverseTypeOK
<1>7. UniverseTypeOK'
  BY <1>2, <1>4, <1>5, <1>6 DEF UniverseInvariant, UniverseTypeOK, Sources, Reloads
<1>8. UpstreamFirst' /\ QuietReload'
  BY <1>2, <1>3, <1>4 DEF UniverseInvariant, UpstreamFirst, QuietReload
<1>9. QuietChangeIsVisible'
  BY <1>2, <1>5 DEF UniverseInvariant, QuietReload, QuietChangeIsVisible
<1> QED BY <1>7, <1>8, <1>9 DEF UniverseInvariant

\* The flight of a reload ends with it.
LEMMA EndReloadInvariant ==
  ASSUME UniverseInvariant, NEW w \in Loaders, EndReload(w)
  PROVE  UniverseInvariant'
<1>1. reload \in [Loaders -> Reloads]
  BY ReloadType DEF UniverseInvariant
<1>2. /\ reload[w].at = "ending" /\ reload' = [reload EXCEPT ![w] = NoReload]
      /\ refresh' = IF refresh = w THEN NoLoader ELSE refresh
      /\ UNCHANGED <<managed, upstream, source, universe, fresh, admin, quiet, changes, failedReads>>
  BY DEF EndReload
<1>3. reload' \in [Loaders -> Reloads] /\ reload'[w] = NoReload
      /\ \A v \in Loaders : v # w => reload'[v] = reload[v]
  BY <1>1, <1>2, NoReloadType
<1>4. refresh = w
  BY <1>2 DEF UniverseInvariant, UniverseTypeOK
<1>5. \A v \in Loaders : refresh' = v <=> reload'[v].at # "off"
  BY <1>2, <1>3, <1>4, NoReloadType, UniverseAssumption DEF UniverseInvariant, UniverseTypeOK
<1>6. UniverseTypeOK'
  BY <1>2, <1>3, <1>5 DEF UniverseInvariant, UniverseTypeOK, Sources, Reloads
<1>7. UpstreamFirst' /\ QuietReload'
  BY <1>2, <1>3, NoReloadType DEF UniverseInvariant, UpstreamFirst, QuietReload
<1>8. QuietChangeIsVisible'
  BY <1>2 DEF UniverseInvariant, QuietChangeIsVisible
<1> QED BY <1>6, <1>7, <1>8 DEF UniverseInvariant

----------------------------------------------------------------------------
(* Time and the two lists                                                  *)

\* Expiry and a change of the external list touch neither reloads nor the table.
LEMMA DriftInvariant ==
  ASSUME UniverseInvariant, UniverseExpires \/ UpstreamChanges
  PROVE  UniverseInvariant'
<1>1. UNCHANGED <<managed, source, reload, refresh, universe, admin, quiet, failedReads>>
  BY DEF UniverseExpires, UpstreamChanges
<1>2. fresh' \in BOOLEAN /\ (fresh' => fresh)
  <2>1. fresh' = FALSE \/ fresh' = fresh
    BY DEF UniverseExpires, UpstreamChanges
  <2>2. fresh \in BOOLEAN
    BY DEF UniverseInvariant, UniverseTypeOK
  <2>3. CASE fresh' = FALSE
    BY <2>3
  <2>4. CASE fresh' = fresh
    BY <2>2, <2>4
  <2> QED BY <2>1, <2>3, <2>4
<1>3. upstream' \subseteq UpstreamCodes
  BY DEF UniverseExpires, UpstreamChanges, UniverseInvariant, UniverseTypeOK
<1>4. changes' \in 0 .. MaxChanges
  BY UniverseAssumption DEF UniverseExpires, UpstreamChanges, UniverseInvariant, UniverseTypeOK
<1>5. UniverseTypeOK'
  BY <1>1, <1>2, <1>3, <1>4 DEF UniverseInvariant, UniverseTypeOK
<1>6. UpstreamFirst' /\ QuietReload'
  BY <1>1 DEF UniverseInvariant, UpstreamFirst, QuietReload
<1>7. QuietChangeIsVisible'
  BY <1>1, <1>2 DEF UniverseInvariant, QuietChangeIsVisible
<1> QED BY <1>5, <1>6, <1>7 DEF UniverseInvariant

\* A change of the table is not quiet before it is announced.
LEMMA ManagedChangesInvariant ==
  ASSUME UniverseInvariant, ManagedChanges
  PROVE  UniverseInvariant'
<1>1. /\ managed' \subseteq LocalCodes /\ changes' \in 0 .. MaxChanges
      /\ admin' = "changed" /\ quiet' = FALSE
      /\ UNCHANGED <<upstream, source, reload, refresh, universe, fresh, failedReads>>
  BY UniverseAssumption DEF ManagedChanges, UniverseInvariant, UniverseTypeOK
<1>2. UniverseTypeOK'
  BY <1>1 DEF UniverseInvariant, UniverseTypeOK
<1>3. UpstreamFirst' /\ QuietReload' /\ QuietChangeIsVisible'
  BY <1>1 DEF UniverseInvariant, UpstreamFirst, QuietReload, QuietChangeIsVisible
<1> QED BY <1>2, <1>3 DEF UniverseInvariant

\* The announcement expires the snapshot, and is quiet when no reload holds the
\* table.
LEMMA InvalidateUniverseInvariant ==
  ASSUME UniverseInvariant, InvalidateUniverse
  PROVE  UniverseInvariant'
<1>1. /\ admin' = "announced" /\ fresh' = FALSE
      /\ quiet' = \A w \in Loaders : reload[w].at # "publish"
      /\ UNCHANGED <<managed, upstream, source, reload, refresh, universe, changes, failedReads>>
  BY DEF InvalidateUniverse, HasReadTable
<1>2. quiet' \in BOOLEAN
  BY <1>1
<1>3. UniverseTypeOK'
  BY <1>1, <1>2 DEF UniverseInvariant, UniverseTypeOK
<1>4. UpstreamFirst' /\ QuietReload' /\ QuietChangeIsVisible'
  BY <1>1 DEF UniverseInvariant, UpstreamFirst, QuietReload, QuietChangeIsVisible
<1> QED BY <1>3, <1>4 DEF UniverseInvariant

\* A source object that is dropped lives on in the reload that uses it.
LEMMA InvalidateSourceInvariant ==
  ASSUME UniverseInvariant, InvalidateSource
  PROVE  UniverseInvariant'
<1>1. /\ admin' = "idle" /\ source' = NoSource
      /\ reload' = [w \in Loaders |-> [reload[w] EXCEPT !.current = FALSE]]
      /\ UNCHANGED <<managed, upstream, refresh, universe, fresh, quiet, changes, failedReads>>
  BY DEF InvalidateSource
<1>2. ASSUME NEW w \in Loaders
      PROVE  /\ reload'[w] \in Reloads
             /\ reload'[w].at = reload[w].at /\ reload'[w].got = reload[w].got
             /\ reload'[w].sure = reload[w].sure
  <2>1. reload[w] \in Reloads
    BY ReloadType DEF UniverseInvariant
  <2>2. reload'[w] = [reload[w] EXCEPT !.current = FALSE]
    BY <1>1
  <2> QED BY <2>1, <2>2 DEF Reloads
<1>3. reload' \in [Loaders -> Reloads]
  BY <1>1, <1>2
<1>4. \A w \in Loaders : refresh' = w <=> reload'[w].at # "off"
  BY <1>1, <1>2 DEF UniverseInvariant, UniverseTypeOK
<1>5. UniverseTypeOK'
  BY <1>1, <1>3, <1>4, NoReloadType DEF UniverseInvariant, UniverseTypeOK, Sources, Reloads
<1>6. UpstreamFirst' /\ QuietReload'
  BY <1>1, <1>2 DEF UniverseInvariant, UpstreamFirst, QuietReload
<1>7. QuietChangeIsVisible'
  BY <1>1 DEF UniverseInvariant, QuietChangeIsVisible
<1> QED BY <1>5, <1>6, <1>7 DEF UniverseInvariant

----------------------------------------------------------------------------
(* The theorems                                                            *)

\* Nothing has been read or announced at first.
LEMMA InitUniverse == UniverseInit => UniverseInvariant
<1> SUFFICES ASSUME UniverseInit PROVE UniverseInvariant
  OBVIOUS
<1>1. /\ reload \in [Loaders -> Reloads] /\ \A w \in Loaders : reload[w].at = "off"
      /\ source \in Sources
  BY NoReloadType DEF UniverseInit
<1>2. universe \in [codes : SUBSET Codes, error : BOOLEAN, read : BOOLEAN, sure : BOOLEAN]
  BY DEF UniverseInit, Codes
<1>3. UniverseTypeOK
  <2>1. changes \in 0 .. MaxChanges /\ failedReads \in 0 .. MaxFailedReads
    BY UniverseAssumption DEF UniverseInit
  <2>2. managed \subseteq LocalCodes /\ upstream \subseteq UpstreamCodes
        /\ fresh \in BOOLEAN /\ quiet \in BOOLEAN /\ admin \in {"idle", "changed", "announced"}
    BY DEF UniverseInit
  <2>3. \A w \in Loaders : refresh = w <=> reload[w].at # "off"
    BY <1>1, UniverseAssumption DEF UniverseInit
  <2> QED BY <1>1, <1>2, <2>1, <2>2, <2>3 DEF UniverseTypeOK, Sources, Reloads
<1>4. UpstreamFirst /\ QuietReload
  BY <1>1 DEF UpstreamFirst, QuietReload
<1>5. QuietChangeIsVisible
  BY DEF UniverseInit, QuietChangeIsVisible
<1> QED BY <1>3, <1>4, <1>5 DEF UniverseInvariant

\* Every step keeps it.
LEMMA NextUniverse == UniverseInvariant /\ [UniverseNext]_universeVars => UniverseInvariant'
<1> SUFFICES ASSUME UniverseInvariant, [UniverseNext]_universeVars PROVE UniverseInvariant'
  OBVIOUS
<1>1. ASSUME NEW w \in Loaders, ReloadSteps(w) PROVE UniverseInvariant'
  BY <1>1, GetUniverseInvariant, TakeSourceInvariant, ReadUpstreamInvariant, ReadLocalInvariant,
     PublishInvariant, EndReloadInvariant DEF ReloadSteps
<1>2. CASE UNCHANGED universeVars
  BY <1>2 DEF universeVars, UniverseInvariant, UniverseTypeOK, UpstreamFirst, QuietReload,
              QuietChangeIsVisible
<1> QED BY <1>1, <1>2, DriftInvariant, ManagedChangesInvariant, InvalidateUniverseInvariant,
           InvalidateSourceInvariant DEF UniverseNext, AdminSteps

\* The snapshot, the reloads and the lists keep their types, and the reload that
\* the callers join is the only one: never two reads at a time (universe.py, the
\* refresh lock and its future).
THEOREM UniverseTypes == UniverseSpec => []UniverseTypeOK
BY InitUniverse, NextUniverse, PTL DEF UniverseSpec, UniverseInvariant

\* A change of the managed table that no reload in flight had read past when it
\* was announced is in every snapshot served without a new read, unless the read
\* of the table failed: however many threads reload, whatever else changes.
THEOREM QuietChanges == UniverseSpec => []QuietChangeIsVisible
BY InitUniverse, NextUniverse, PTL DEF UniverseSpec, UniverseInvariant

----------------------------------------------------------------------------
(* Their composition                                                       *)

\* A step of one part leaves the others as they are.
LEMMA WebSteps ==
  [WebNext]_webVars => /\ [PoolNext]_poolVars /\ [UniverseNext]_universeVars
                       /\ [Cache!Next]_(Cache!vars) /\ [Sync!Next]_(Sync!vars)
<1> SUFFICES ASSUME [WebNext]_webVars
             PROVE  /\ [PoolNext]_poolVars /\ [UniverseNext]_universeVars
                    /\ [Cache!Next]_(Cache!vars) /\ [Sync!Next]_(Sync!vars)
  OBVIOUS
<1> /\ UNCHANGED cacheVars <=> UNCHANGED Cache!vars
    /\ UNCHANGED syncVars <=> UNCHANGED Sync!vars
  BY DEF cacheVars, syncVars, Cache!vars, Sync!vars
<1>1. CASE InPool(PoolNext)
  BY <1>1 DEF InPool
<1>2. CASE InUniverse(UniverseNext)
  BY <1>2 DEF InUniverse
<1>3. CASE InCache(Cache!Next)
  BY <1>3 DEF InCache
<1>4. CASE InSync(Sync!Next)
  BY <1>4 DEF InSync
<1>5. CASE UNCHANGED webVars
  BY <1>5 DEF webVars
<1> QED BY <1>1, <1>2, <1>3, <1>4, <1>5 DEF WebNext

\* What the run composes are behaviours of every part.
THEOREM WebIsItsParts == WebSpec => PoolSpec /\ UniverseSpec /\ Cache!Spec /\ Sync!Spec
<1>1. WebInit => PoolInit /\ UniverseInit /\ Cache!Init /\ Sync!Init
  BY DEF WebInit
<1> QED BY <1>1, WebSteps, PTL DEF WebSpec, PoolSpec, UniverseSpec, Cache!Spec, Sync!Spec

\* The pool and the symbol snapshot keep their types also where they run beside the cache and
\* the sync runs.
THEOREM WebTypes == WebSpec => []WebTypeOK
<1>1. PoolTypeOK /\ UniverseTypeOK => WebTypeOK
  BY DEF WebTypeOK
<1> QED BY <1>1, WebIsItsParts, PoolTypeCorrect, UniverseTypes, PTL

=============================================================================
