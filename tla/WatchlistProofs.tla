--------------------------- MODULE WatchlistProofs ---------------------------
(***************************************************************************)
(* Proofs about a user's watchlist.  Feeds, for every number of requests,  *)
(* edits and tokens and every time to live: type correctness with one      *)
(* generation at a time, no older body after a calm change of the          *)
(* watchlist, and the end of a replaced token.  SymbolKeys, for every set  *)
(* of words and codes and any number of edits: unique keys, and rows that  *)
(* a start leaves, and the endpoints keep, as the calendar knows them.     *)
(***************************************************************************)
EXTENDS Feeds, SymbolKeys, FiniteSetTheorems, TLAPS

\* A request between its read of the watchlist and its answer.
UnderWay == {"read", "leading", "waiting", "made"}

\* Such a request has a body.
BodiesRead == \A r \in Requests : request[r].at \in UnderWay => request[r].body # Nothing

\* After a calm change nothing older is under way, and nothing older appears.
CalmFlights == calm => NothingOlder

\* The tokens replaced so far are those issued before the one that is valid.
ReplacedTokens ==
  /\ \A t \in Tokens : revoked[t] # Nothing <=> t < issued
  /\ rotator < issued /\ \A t \in forgotten : t < issued

\* A request about to cache a resolution holds the valid token, or one that was
\* replaced while it was at it.
FoundTokens ==
  \A r \in Requests : request[r].at = "found" => request[r].token = issued \/ request[r].token \in late

\* A resolution cached before its token was replaced uses up its time to live
\* after that; one that the service dropped is not cached again.
AgingTokens ==
  \A t \in Tokens \ late : /\ t < issued => tokens[t] + revoked[t] <= TokenTTL
                           /\ t \in forgotten => tokens[t] = 0

\* The inductive invariant, in two halves: what requests produce and what they
\* resolve.
BodyInvariant  == BodiesRead /\ CalmFlights /\ CalmEditIsServed
TokenInvariant == ReplacedTokens /\ FoundTokens /\ AgingTokens
FeedsInvariant == FeedsTypeOK /\ BodyInvariant /\ TokenInvariant

RequestState == [at : {"away", "found", "known", "read", "leading", "waiting", "made"},
                 token : Tokens, body : Nothing .. MaxEdits]

----------------------------------------------------------------------------
(* Requests                                                                *)

\* A request that is away holds nothing; the versions of the watchlist are
\* told apart from both failures and missing bodies.
LEMMA AwayState == /\ Away \in RequestState /\ Away.at = "away"
                   /\ \A t \in Tokens : /\ [Away EXCEPT !.at = "known", !.token = t] \in RequestState
                                        /\ [Away EXCEPT !.at = "found", !.token = t] \in RequestState
<1>1. 1 \in Tokens /\ Nothing \in Nothing .. MaxEdits
  BY FeedsAssumption DEF Tokens, Nothing
<1> QED BY <1>1 DEF Away, RequestState

LEMMA Versions == /\ Nothing \in Nothing .. MaxEdits /\ Failed \notin Nothing .. MaxEdits
                  /\ \A n \in 0 .. MaxEdits : n \in Nothing .. MaxEdits /\ n # Nothing /\ n # Failed
                  /\ Nothing .. MaxEdits \subseteq Nothing .. Failed /\ Failed \in Nothing .. Failed
                  /\ Failed # Nothing
BY FeedsAssumption DEF Nothing, Failed

\* The types of the requests.
LEMMA RequestType ==
  ASSUME FeedsTypeOK, NEW r \in Requests
  PROVE  request[r] \in RequestState /\ request \in [Requests -> RequestState]
BY DEF FeedsTypeOK, RequestState

\* Tokens live on unchanged when no request finds one.
LEMMA TokensStay ==
  ASSUME FeedsInvariant,
         UNCHANGED <<issued, tokens, rotator, revoked, forgotten, late>>,
         \A r \in Requests : request'[r].at = "found" => request'[r] = request[r]
  PROVE  TokenInvariant'
BY DEF FeedsInvariant, TokenInvariant, ReplacedTokens, FoundTokens, AgingTokens

\* Bodies stay when neither the watchlist, the feed nor the flight changes.
LEMMA BodiesStay ==
  ASSUME FeedsInvariant, UNCHANGED <<watchlist, feed, flight, request, calm>>
  PROVE  BodyInvariant'
BY DEF FeedsInvariant, BodyInvariant, BodiesRead, CalmFlights, NothingOlder, CalmEditIsServed

\* One request goes from its state to st; the flight stays.
LEMMA OneRequest ==
  ASSUME FeedsInvariant, NEW r \in Requests, NEW st \in RequestState,
         request' = [request EXCEPT ![r] = st],
         UNCHANGED <<watchlist, issued, flight, editor, rotator, calm, revoked, forgotten, late>>,
         tokens' \in [Tokens -> 0 .. TokenTTL], polls' \in Nat,
         feed' \in Nothing .. MaxEdits, calm => feed' \in {Nothing, watchlist},
         request[r].at # "leading", st.at # "leading",
         st.at = "waiting" => flight.leader # NoLeader /\ flight.result = Nothing,
         st.at \in UnderWay => st.body # Nothing /\ (calm => st.body = watchlist)
  PROVE  FeedsTypeOK' /\ BodyInvariant'
<1>1. request \in [Requests -> RequestState]
  BY DEF FeedsInvariant, FeedsTypeOK, RequestState
<1>2. request' \in [Requests -> RequestState] /\ request'[r] = st
      /\ \A q \in Requests : q # r => request'[q] = request[q]
  BY <1>1
<1>3. \A q \in Requests :
        /\ request'[q].at = "leading" <=> flight' = [leader |-> q, result |-> Nothing]
        /\ request'[q].at = "waiting" => flight'.leader # NoLeader /\ flight'.result = Nothing
  BY <1>2 DEF FeedsInvariant, FeedsTypeOK
<1>4. FeedsTypeOK'
  BY <1>2, <1>3 DEF FeedsInvariant, FeedsTypeOK, RequestState
<1>5. BodiesRead'
  BY <1>2 DEF FeedsInvariant, BodyInvariant, BodiesRead
<1>6. CalmFlights'
  BY <1>2 DEF FeedsInvariant, BodyInvariant, CalmFlights, NothingOlder, UnderWay
<1> QED BY <1>4, <1>5, <1>6 DEF BodyInvariant, CalmEditIsServed

\* A token that is looked up is resolved from the cache, or from the row of the
\* valid token.
LEMMA LookUpTokenInvariant ==
  ASSUME FeedsInvariant, NEW r \in Requests, LookUpToken(r)
  PROVE  FeedsInvariant'
<1>1. /\ request[r].at = "away" /\ polls \in Nat /\ issued \in Tokens
      /\ tokens \in [Tokens -> 0 .. TokenTTL] /\ feed \in Nothing .. MaxEdits
      /\ calm => feed \in {Nothing, watchlist}
      /\ UNCHANGED <<watchlist, issued, tokens, feed, flight, editor, rotator, calm, revoked, forgotten, late>>
  BY DEF LookUpToken, FeedsInvariant, FeedsTypeOK, BodyInvariant, CalmEditIsServed
<1>2. PICK t \in Tokens :
        \/ Becomes(r, [Away EXCEPT !.at = "known", !.token = t]) /\ UNCHANGED polls
        \/ t = issued /\ Becomes(r, [Away EXCEPT !.at = "found", !.token = t]) /\ UNCHANGED polls
        \/ polls' = polls + 1 /\ UNCHANGED request
  <2>1. 1 .. issued \subseteq Tokens
    BY <1>1, FeedsAssumption DEF Tokens
  <2> QED BY <2>1 DEF LookUpToken
<1>3. request \in [Requests -> RequestState] /\ request[r] \in RequestState
  BY RequestType DEF FeedsInvariant
<1>4. CASE Becomes(r, [Away EXCEPT !.at = "known", !.token = t]) /\ UNCHANGED polls
  <2> DEFINE st == [Away EXCEPT !.at = "known", !.token = t]
  <2>1. st \in RequestState /\ st.at = "known" /\ request' = [request EXCEPT ![r] = st]
    BY <1>4, AwayState DEF Becomes, Away
  <2> HIDE DEF st
  <2>2. FeedsTypeOK' /\ BodyInvariant'
    BY <1>1, <1>4, <2>1, OneRequest DEF UnderWay
  <2>3. \A q \in Requests : request'[q].at = "found" => request'[q] = request[q]
    BY <1>3, <2>1
  <2> QED BY <1>1, <2>2, <2>3, TokensStay DEF FeedsInvariant
<1>5. CASE t = issued /\ Becomes(r, [Away EXCEPT !.at = "found", !.token = t]) /\ UNCHANGED polls
  <2> DEFINE st == [Away EXCEPT !.at = "found", !.token = t]
  <2>1. st \in RequestState /\ st.at = "found" /\ st.token = issued
        /\ request' = [request EXCEPT ![r] = st]
    BY <1>5, AwayState DEF Becomes, Away
  <2> HIDE DEF st
  <2>2. FeedsTypeOK' /\ BodyInvariant'
    BY <1>1, <1>5, <2>1, OneRequest DEF UnderWay
  <2>3. request'[r] = st /\ \A q \in Requests : q # r => request'[q] = request[q]
    BY <1>3, <2>1
  <2>4. FoundTokens'
    BY <1>1, <2>1, <2>3 DEF FeedsInvariant, TokenInvariant, FoundTokens
  <2>5. ReplacedTokens' /\ AgingTokens'
    BY <1>1 DEF FeedsInvariant, TokenInvariant, ReplacedTokens, AgingTokens
  <2> QED BY <2>2, <2>4, <2>5 DEF FeedsInvariant, TokenInvariant
<1>6. CASE polls' = polls + 1 /\ UNCHANGED request
  <2>1. FeedsTypeOK'
    BY <1>1, <1>6 DEF FeedsInvariant, FeedsTypeOK
  <2> QED BY <1>1, <1>6, <2>1, TokensStay, BodiesStay DEF FeedsInvariant
<1> QED BY <1>2, <1>4, <1>5, <1>6

\* The token that is cached is valid, or its request was late.
LEMMA CacheTokenInvariant ==
  ASSUME FeedsInvariant, NEW r \in Requests, CacheToken(r)
  PROVE  FeedsInvariant'
<1> DEFINE st == [request[r] EXCEPT !.at = "known"]
<1>1. /\ request \in [Requests -> RequestState] /\ request[r] \in RequestState
      /\ request[r].token \in Tokens /\ tokens \in [Tokens -> 0 .. TokenTTL]
  BY RequestType DEF FeedsInvariant, FeedsTypeOK, RequestState
<1>2. /\ request[r].at = "found" /\ request' = [request EXCEPT ![r] = st]
      /\ tokens' = [tokens EXCEPT ![request[r].token] = TokenTTL]
      /\ UNCHANGED <<watchlist, issued, feed, flight, editor, rotator, calm, revoked, forgotten, late, polls>>
  BY DEF CacheToken, Becomes
<1>3. st \in RequestState /\ st.at = "known"
  BY <1>1 DEF RequestState
<1> HIDE DEF st
<1>4. tokens' \in [Tokens -> 0 .. TokenTTL]
  BY <1>1, <1>2, FeedsAssumption
<1>5. FeedsTypeOK' /\ BodyInvariant'
  <2>1. feed' \in Nothing .. MaxEdits /\ polls' \in Nat /\ (calm => feed' \in {Nothing, watchlist})
    BY <1>2 DEF FeedsInvariant, FeedsTypeOK, BodyInvariant, CalmEditIsServed
  <2> QED BY <1>2, <1>3, <1>4, <2>1, OneRequest DEF UnderWay
<1>6. request[r].token = issued \/ request[r].token \in late
  BY <1>2 DEF FeedsInvariant, TokenInvariant, FoundTokens
<1>7. ReplacedTokens'
  BY <1>2 DEF FeedsInvariant, TokenInvariant, ReplacedTokens
<1>8. FoundTokens'
  BY <1>1, <1>2, <1>3 DEF FeedsInvariant, TokenInvariant, FoundTokens
<1>9. AgingTokens'
  <2> SUFFICES ASSUME NEW t \in Tokens \ late
               PROVE  /\ t < issued => tokens'[t] + revoked[t] <= TokenTTL
                      /\ t \in forgotten => tokens'[t] = 0
    BY <1>2 DEF AgingTokens
  <2>1. CASE t = request[r].token
    <3>1. t = issued /\ issued \in Nat
      BY <1>6, <2>1 DEF FeedsInvariant, FeedsTypeOK, Tokens
    <3>2. ~ (t < issued)
      BY <3>1
    <3>3. t \notin forgotten
      BY <3>2 DEF FeedsInvariant, TokenInvariant, ReplacedTokens
    <3> QED BY <3>2, <3>3
  <2>2. CASE t # request[r].token
    BY <1>1, <1>2, <2>2 DEF FeedsInvariant, TokenInvariant, AgingTokens
  <2> QED BY <2>1, <2>2
<1> QED BY <1>5, <1>7, <1>8, <1>9 DEF FeedsInvariant, TokenInvariant

\* An answer leaves a request away; what it stores was read after the last calm
\* change.
LEMMA AnswerInvariant ==
  ASSUME FeedsInvariant, NEW r \in Requests,
         ServeCached(r) \/ WaitTimesOut(r) \/ \E stores \in BOOLEAN : Reply(r, stores)
  PROVE  FeedsInvariant'
<1>1. /\ request \in [Requests -> RequestState] /\ request[r] \in RequestState
      /\ request[r].body \in Nothing .. MaxEdits
  BY RequestType DEF FeedsInvariant, RequestState
<1>2. /\ request[r].at # "leading"
      /\ request' = [request EXCEPT ![r] = Away] /\ polls' = polls + 1
      /\ feed' = feed \/ (request[r].at = "made" /\ feed' = request[r].body)
      /\ UNCHANGED <<watchlist, issued, tokens, flight, editor, rotator, calm, revoked, forgotten, late>>
  BY DEF ServeCached, WaitTimesOut, Reply, Answered, Becomes
<1>3. /\ feed' \in Nothing .. MaxEdits /\ polls' \in Nat /\ (calm => feed' \in {Nothing, watchlist})
      /\ tokens' \in [Tokens -> 0 .. TokenTTL]
  BY <1>1, <1>2 DEF FeedsInvariant, FeedsTypeOK, BodyInvariant, CalmEditIsServed, CalmFlights, NothingOlder
<1>4. FeedsTypeOK' /\ BodyInvariant'
  BY <1>2, <1>3, AwayState, OneRequest DEF UnderWay
<1>5. \A q \in Requests : request'[q].at = "found" => request'[q] = request[q]
  BY <1>1, <1>2, AwayState
<1> QED BY <1>2, <1>4, <1>5, TokensStay DEF FeedsInvariant

\* The body a request takes along is the watchlist of the moment.
LEMMA ReadWatchlistInvariant ==
  ASSUME FeedsInvariant, NEW r \in Requests, ReadWatchlist(r)
  PROVE  FeedsInvariant'
<1> DEFINE st == [request[r] EXCEPT !.at = "read", !.body = watchlist]
<1>1. /\ request \in [Requests -> RequestState] /\ request[r] \in RequestState
      /\ watchlist \in 0 .. MaxEdits
  BY RequestType DEF FeedsInvariant, FeedsTypeOK
<1>2. /\ request[r].at = "known" /\ request' = [request EXCEPT ![r] = st]
      /\ UNCHANGED <<watchlist, issued, tokens, feed, flight, editor, rotator, calm, revoked, forgotten, late, polls>>
  BY DEF ReadWatchlist, Becomes
<1>3. st \in RequestState /\ st.at = "read" /\ st.body = watchlist /\ watchlist # Nothing
  BY <1>1, Versions DEF RequestState
<1> HIDE DEF st
<1>4. /\ feed' \in Nothing .. MaxEdits /\ polls' \in Nat /\ (calm => feed' \in {Nothing, watchlist})
      /\ tokens' \in [Tokens -> 0 .. TokenTTL]
  BY <1>2 DEF FeedsInvariant, FeedsTypeOK, BodyInvariant, CalmEditIsServed
<1>5. FeedsTypeOK' /\ BodyInvariant'
  BY <1>2, <1>3, <1>4, OneRequest DEF UnderWay
<1>6. \A q \in Requests : request'[q].at = "found" => request'[q] = request[q]
  BY <1>1, <1>2, <1>3
<1> QED BY <1>2, <1>5, <1>6, TokensStay DEF FeedsInvariant

\* A request leads only when nobody does, waits for a leader, or takes what a
\* finished flight has left.
LEMMA JoinFlightInvariant ==
  ASSUME FeedsInvariant, NEW r \in Requests, JoinFlight(r)
  PROVE  FeedsInvariant'
<1>1. /\ request \in [Requests -> RequestState] /\ request[r] \in RequestState
      /\ request[r].at = "read" /\ request[r].body # Nothing
      /\ calm => request[r].body = watchlist
  BY RequestType DEF FeedsInvariant, JoinFlight, BodyInvariant, BodiesRead, CalmFlights,
                     NothingOlder, UnderWay
<1>2. UNCHANGED <<watchlist, issued, tokens, feed, editor, rotator, calm, revoked, forgotten, late>>
  BY DEF JoinFlight
<1>3. /\ feed' \in Nothing .. MaxEdits /\ (calm => feed' \in {Nothing, watchlist})
      /\ tokens' \in [Tokens -> 0 .. TokenTTL] /\ polls \in Nat
  BY <1>2 DEF FeedsInvariant, FeedsTypeOK, BodyInvariant, CalmEditIsServed
<1>4. CASE /\ flight.leader = NoLeader /\ flight' = [leader |-> r, result |-> Nothing]
           /\ Becomes(r, [request[r] EXCEPT !.at = "leading"]) /\ UNCHANGED polls
  <2> DEFINE st == [request[r] EXCEPT !.at = "leading"]
  <2>1. st \in RequestState /\ st.at = "leading" /\ st.body = request[r].body
    BY <1>1 DEF RequestState
  <2>2. request' = [request EXCEPT ![r] = st]
    BY <1>4 DEF Becomes
  <2> HIDE DEF st
  <2>3. /\ request' \in [Requests -> RequestState] /\ request'[r] = st
        /\ \A q \in Requests : q # r => request'[q] = request[q]
    BY <1>1, <2>1, <2>2
  <2>4. \A q \in Requests : request[q].at \notin {"leading", "waiting"}
    <3>1. ASSUME NEW q \in Requests, request[q].at = "leading" PROVE FALSE
      <4>1. flight = [leader |-> q, result |-> Nothing]
        BY <3>1 DEF FeedsInvariant, FeedsTypeOK
      <4>2. flight.leader = q
        BY <4>1
      <4> QED BY <1>4, <4>2, FeedsAssumption
    <3>2. \A q \in Requests : request[q].at # "waiting"
      BY <1>4 DEF FeedsInvariant, FeedsTypeOK
    <3> QED BY <3>1, <3>2
  <2>5. \A q \in Requests :
          /\ request'[q].at = "leading" <=> flight' = [leader |-> q, result |-> Nothing]
          /\ request'[q].at = "waiting" => flight'.leader # NoLeader /\ flight'.result = Nothing
    <3>1. \A q \in Requests : [leader |-> r, result |-> Nothing] = [leader |-> q, result |-> Nothing]
                                => q = r
      OBVIOUS
    <3> QED BY <1>4, <2>1, <2>3, <2>4, <3>1
  <2>6. flight' \in [leader : Requests \cup {NoLeader}, result : Nothing .. Failed]
    BY <1>4, Versions
  <2>7. FeedsTypeOK'
    BY <1>2, <1>4, <2>3, <2>5, <2>6 DEF FeedsInvariant, FeedsTypeOK, RequestState
  <2>8. BodiesRead'
    BY <1>1, <2>1, <2>3 DEF FeedsInvariant, BodyInvariant, BodiesRead
  <2>9. flight'.result = Nothing
    BY <1>4
  <2>10. CalmFlights'
    BY <1>1, <1>2, <2>1, <2>3, <2>9 DEF FeedsInvariant, BodyInvariant, CalmFlights, NothingOlder
  <2>11. CalmEditIsServed'
    BY <1>2, <1>3 DEF CalmEditIsServed
  <2>12. \A q \in Requests : request'[q].at = "found" => request'[q] = request[q]
    BY <2>1, <2>3
  <2> QED BY <1>2, <2>7, <2>8, <2>10, <2>11, <2>12, TokensStay DEF FeedsInvariant, BodyInvariant
<1>5. ASSUME NEW st \in RequestState, Becomes(r, st), UNCHANGED flight, polls' \in Nat,
             st.at \notin {"leading", "found"},
             st.at = "waiting" => flight.leader # NoLeader /\ flight.result = Nothing,
             st.at \in UnderWay => st.body # Nothing /\ (calm => st.body = watchlist)
      PROVE  FeedsInvariant'
  <2>1. request' = [request EXCEPT ![r] = st] /\ request[r].at # "leading"
    BY <1>1, <1>5 DEF Becomes
  <2>2. FeedsTypeOK' /\ BodyInvariant'
    BY <1>2, <1>3, <1>5, <2>1, OneRequest
  <2>3. \A q \in Requests : request'[q].at = "found" => request'[q] = request[q]
    BY <1>1, <1>5, <2>1
  <2> QED BY <1>2, <2>2, <2>3, TokensStay DEF FeedsInvariant
<1>6. CASE /\ flight.leader # NoLeader /\ flight.result = Nothing
           /\ Becomes(r, [request[r] EXCEPT !.at = "waiting"]) /\ UNCHANGED <<flight, polls>>
  <2> DEFINE st == [request[r] EXCEPT !.at = "waiting"]
  <2>1. st \in RequestState /\ st.at = "waiting" /\ st.body = request[r].body
    BY <1>1 DEF RequestState
  <2>2. Becomes(r, st) /\ UNCHANGED flight /\ polls' \in Nat
    BY <1>3, <1>6
  <2> HIDE DEF st
  <2> QED BY <1>1, <1>5, <1>6, <2>1, <2>2
<1>7. CASE /\ flight.result \notin {Nothing, Failed}
           /\ Becomes(r, [request[r] EXCEPT !.at = "made", !.body = flight.result])
           /\ UNCHANGED <<flight, polls>>
  <2> DEFINE st == [request[r] EXCEPT !.at = "made", !.body = flight.result]
  <2>1. flight.result \in Nothing .. MaxEdits /\ (calm => flight.result = watchlist)
    <3>1. flight.result \in Nothing .. Failed
      BY DEF FeedsInvariant, FeedsTypeOK
    <3>2. flight.result \in Nothing .. MaxEdits
      BY <1>7, <3>1, FeedsAssumption DEF Nothing, Failed
    <3> QED BY <1>7, <3>2 DEF FeedsInvariant, BodyInvariant, CalmFlights, NothingOlder
  <2>2. st \in RequestState /\ st.at = "made" /\ st.body = flight.result
    BY <1>1, <2>1 DEF RequestState
  <2>3. Becomes(r, st) /\ UNCHANGED flight /\ polls' \in Nat
    BY <1>3, <1>7
  <2> HIDE DEF st
  <2> QED BY <1>5, <1>7, <2>1, <2>2, <2>3
<1>8. CASE flight.result = Failed /\ Answered(r) /\ UNCHANGED flight
  <2>1. Becomes(r, Away) /\ polls' \in Nat
    BY <1>3, <1>8 DEF Answered
  <2> QED BY <1>5, <1>8, <2>1, AwayState DEF UnderWay
<1> QED BY <1>4, <1>6, <1>7, <1>8 DEF JoinFlight

\* A flight that ends with the leader's body or with its error ends for whoever
\* waits for it.
LEMMA FlightEnds ==
  ASSUME FeedsInvariant, NEW r \in Requests, Generate(r) \/ GenerateFails(r)
  PROVE  FeedsInvariant'
<1>1. /\ request \in [Requests -> RequestState] /\ request[r] \in RequestState
      /\ request[r].at = "leading" /\ request[r].body # Nothing
      /\ request[r].body \in Nothing .. MaxEdits
      /\ calm => request[r].body = watchlist
  <2>1. request[r].at = "leading"
    BY DEF Generate, GenerateFails
  <2> QED BY <2>1, RequestType DEF FeedsInvariant, BodyInvariant, BodiesRead, CalmFlights,
                                   NothingOlder, UnderWay, RequestState
<1>2. /\ flight = [leader |-> r, result |-> Nothing]
      /\ \A q \in Requests : request[q].at = "leading" => q = r
  <2>1. \A q \in Requests : request[q].at = "leading" => flight = [leader |-> q, result |-> Nothing]
    BY DEF FeedsInvariant, FeedsTypeOK
  <2>2. flight = [leader |-> r, result |-> Nothing]
    BY <1>1, <2>1
  <2>3. \A q \in Requests : [leader |-> r, result |-> Nothing] = [leader |-> q, result |-> Nothing]
                              => q = r
    OBVIOUS
  <2> QED BY <2>1, <2>2, <2>3
<1>3. /\ UNCHANGED <<watchlist, issued, tokens, feed, editor, rotator, calm, revoked, forgotten, late>>
      /\ polls' \in Nat
  <2>1. polls \in Nat
    BY DEF FeedsInvariant, FeedsTypeOK
  <2>2. polls' = polls \/ polls' = polls + 1
    BY DEF Generate, GenerateFails
  <2>3. polls' \in Nat
    BY <2>1, <2>2
  <2>4. UNCHANGED <<watchlist, issued, tokens, feed, editor, rotator, calm, revoked, forgotten, late>>
    BY DEF Generate, GenerateFails
  <2> QED BY <2>3, <2>4
<1>4. PICK res \in Nothing .. Failed :
        /\ res = request[r].body \/ res = Failed
        /\ flight' = [flight EXCEPT !.result = res]
        /\ \A q \in Requests :
             IF q = r \/ request[q].at = "waiting"
               THEN request'[q] = IF res = Failed THEN Away
                                  ELSE [request[q] EXCEPT !.at = "made", !.body = res]
               ELSE request'[q] = request[q]
        /\ request' = [q \in Requests |-> request'[q]]
  <2>1. CASE Generate(r)
    <3>1. /\ flight' = [flight EXCEPT !.result = request[r].body]
          /\ request' = [q \in Requests |->
               IF q = r \/ request[q].at = "waiting"
                 THEN [request[q] EXCEPT !.at = "made", !.body = request[r].body] ELSE request[q]]
      BY <2>1 DEF Generate
    <3>2. request[r].body \in Nothing .. Failed /\ request[r].body # Failed
      BY <1>1, Versions
    <3> QED BY <3>1, <3>2
  <2>2. CASE GenerateFails(r)
    BY <2>2, Versions DEF GenerateFails
  <2> QED BY <2>1, <2>2
<1>5. flight' = [leader |-> r, result |-> res] /\ res # Nothing
  BY <1>1, <1>2, <1>4, Versions
<1>6. ASSUME NEW q \in Requests
      PROVE  /\ request'[q] \in RequestState
             /\ request'[q].at \notin {"leading", "waiting"}
             /\ request'[q].at = "found" => request'[q] = request[q]
             /\ request'[q].at \in UnderWay =>
                  /\ request'[q].body # Nothing
                  /\ calm => request'[q].body = watchlist
  <2>1. request[q] \in RequestState
    BY <1>1
  <2>2. CASE (q = r \/ request[q].at = "waiting") /\ res = Failed
    BY <1>4, <2>2, AwayState DEF UnderWay
  <2>3. CASE (q = r \/ request[q].at = "waiting") /\ res # Failed
    <3>1. res = request[r].body
      BY <1>4, <2>3
    <3>2. request'[q] = [request[q] EXCEPT !.at = "made", !.body = res]
      BY <1>4, <2>3
    <3>3. request'[q] \in RequestState /\ request'[q].at = "made" /\ request'[q].body = res
      BY <1>1, <2>1, <3>1, <3>2 DEF RequestState
    <3> QED BY <1>1, <3>1, <3>3
  <2>4. CASE ~ (q = r \/ request[q].at = "waiting")
    <3>1. request'[q] = request[q] /\ request[q].at # "leading"
      BY <1>2, <1>4, <2>4
    <3>2. request[q].at \in UnderWay => request[q].body # Nothing /\ (calm => request[q].body = watchlist)
      BY DEF FeedsInvariant, BodyInvariant, BodiesRead, CalmFlights, NothingOlder, UnderWay
    <3> QED BY <2>1, <2>4, <3>1, <3>2
  <2> QED BY <2>2, <2>3, <2>4
<1>7. request' \in [Requests -> RequestState]
  BY <1>4, <1>6
<1>8. FeedsTypeOK'
  <2>1. flight' \in [leader : Requests \cup {NoLeader}, result : Nothing .. Failed]
    <3>1. r \in Requests \cup {NoLeader} /\ res \in Nothing .. Failed
      OBVIOUS
    <3> QED BY <1>5, <3>1, Zenon
  <2>2. flight'.result # Nothing
    BY <1>5
  <2>3. \A q \in Requests : flight' # [leader |-> q, result |-> Nothing]
    BY <2>2
  <2> QED BY <1>3, <1>6, <1>7, <2>1, <2>3 DEF FeedsInvariant, FeedsTypeOK, RequestState
<1>9. BodyInvariant'
  <2>1. BodiesRead'
    BY <1>6 DEF BodiesRead
  <2>2. calm => flight'.result \in {Failed, watchlist}
    BY <1>1, <1>4, <1>5
  <2>3. CalmFlights'
    BY <1>3, <1>6, <2>2 DEF CalmFlights, NothingOlder, UnderWay
  <2>4. CalmEditIsServed'
    BY <1>3 DEF FeedsInvariant, BodyInvariant, CalmEditIsServed
  <2> QED BY <2>1, <2>3, <2>4 DEF BodyInvariant
<1> QED BY <1>3, <1>6, <1>8, <1>9, TokensStay DEF FeedsInvariant

----------------------------------------------------------------------------
(* Caches, changes, rotations and time                                     *)

\* A flight that is removed has a result, so nobody leads or waits for it.
LEMMA CleanUpInvariant ==
  ASSUME FeedsInvariant, CleanUp
  PROVE  FeedsInvariant'
<1>1. /\ flight.result # Nothing /\ flight' = NoFlight
      /\ UNCHANGED <<watchlist, issued, tokens, feed, request, editor, rotator, calm, revoked,
                     forgotten, late, polls>>
  BY DEF CleanUp
<1>2. \A q \in Requests : request[q].at \notin {"leading", "waiting"}
  <2>1. \A q \in Requests : request[q].at # "waiting"
    BY <1>1 DEF FeedsInvariant, FeedsTypeOK
  <2>2. ASSUME NEW q \in Requests, request[q].at = "leading" PROVE FALSE
    <3>1. flight = [leader |-> q, result |-> Nothing]
      BY <2>2 DEF FeedsInvariant, FeedsTypeOK
    <3> QED BY <1>1, <3>1
  <2> QED BY <2>1, <2>2
<1>3. /\ flight' \in [leader : Requests \cup {NoLeader}, result : Nothing .. Failed]
      /\ \A q \in Requests : flight' # [leader |-> q, result |-> Nothing]
  <2>1. flight' = [leader |-> NoLeader, result |-> Nothing]
    BY <1>1 DEF NoFlight
  <2>2. Nothing \in Nothing .. Failed
    BY Versions
  <2>3. ASSUME NEW q \in Requests, flight' = [leader |-> q, result |-> Nothing] PROVE FALSE
    <3>1. flight'.leader = q /\ flight'.leader = NoLeader
      BY <2>1, <2>3
    <3> QED BY <3>1, FeedsAssumption
  <2> QED BY <2>1, <2>2, <2>3
<1>4. FeedsTypeOK'
  BY <1>1, <1>2, <1>3 DEF FeedsInvariant, FeedsTypeOK
<1>5. flight'.result = Nothing
  BY <1>1 DEF NoFlight
<1>6. BodyInvariant'
  BY <1>1, <1>5 DEF FeedsInvariant, BodyInvariant, BodiesRead, CalmFlights, NothingOlder,
                    CalmEditIsServed
<1> QED BY <1>1, <1>4, <1>6, TokensStay DEF FeedsInvariant

\* A step that touches neither requests nor flights keeps the types.
LEMMA TypesStay ==
  ASSUME FeedsInvariant, UNCHANGED <<flight, request, polls>>,
         watchlist' \in 0 .. MaxEdits, issued' \in Tokens,
         tokens' \in [Tokens -> 0 .. TokenTTL], feed' \in Nothing .. MaxEdits,
         editor' \in {"idle", "written"}, rotator' \in 0 .. MaxTokens, calm' \in BOOLEAN,
         revoked' \in [Tokens -> Nothing .. TokenTTL], forgotten' \subseteq Tokens, late' \subseteq Tokens
  PROVE  FeedsTypeOK'
BY DEF FeedsInvariant, FeedsTypeOK

\* What the other variables are before such a step.
LEMMA TypesBefore ==
  ASSUME FeedsInvariant
  PROVE  /\ watchlist \in 0 .. MaxEdits /\ issued \in Tokens /\ polls \in Nat
         /\ tokens \in [Tokens -> 0 .. TokenTTL] /\ feed \in Nothing .. MaxEdits
         /\ editor \in {"idle", "written"} /\ rotator \in 0 .. MaxTokens /\ calm \in BOOLEAN
         /\ revoked \in [Tokens -> Nothing .. TokenTTL] /\ forgotten \subseteq Tokens
         /\ late \subseteq Tokens
BY DEF FeedsInvariant, FeedsTypeOK

\* An expired feed is generated again.
LEMMA FeedGoesInvariant ==
  ASSUME FeedsInvariant, FeedGoes
  PROVE  FeedsInvariant'
<1>1. /\ feed' = Nothing
      /\ UNCHANGED <<watchlist, issued, tokens, flight, request, editor, rotator, calm, revoked,
                     forgotten, late, polls>>
  BY DEF FeedGoes
<1>2. FeedsTypeOK'
  BY <1>1, TypesBefore, TypesStay, Versions
<1>3. BodyInvariant'
  BY <1>1 DEF FeedsInvariant, BodyInvariant, BodiesRead, CalmFlights, NothingOlder, CalmEditIsServed
<1> QED BY <1>1, <1>2, <1>3, TokensStay DEF FeedsInvariant

\* A change is calm only from its announcement on, which drops the feed.
LEMMA EditInvariant ==
  ASSUME FeedsInvariant, EditWatchlist \/ AnnounceEdit
  PROVE  FeedsInvariant'
<1>1. UNCHANGED <<issued, tokens, flight, request, rotator, revoked, forgotten, late, polls>>
  BY DEF EditWatchlist, AnnounceEdit
<1>2. CASE EditWatchlist
  <2>1. /\ watchlist < MaxEdits /\ watchlist' = watchlist + 1
        /\ editor' = "written" /\ calm' = FALSE /\ UNCHANGED feed
    BY <1>2 DEF EditWatchlist
  <2>2. watchlist' \in 0 .. MaxEdits
    BY <2>1, TypesBefore, FeedsAssumption
  <2>3. FeedsTypeOK'
    BY <1>1, <2>1, <2>2, TypesBefore, TypesStay
  <2>4. BodyInvariant'
    BY <1>1, <2>1 DEF FeedsInvariant, BodyInvariant, BodiesRead, CalmFlights, CalmEditIsServed
  <2> QED BY <1>1, <2>3, <2>4, TokensStay DEF FeedsInvariant
<1>3. CASE AnnounceEdit
  <2>1. /\ editor' = "idle" /\ feed' = Nothing /\ calm' = NothingOlder /\ UNCHANGED watchlist
    BY <1>3 DEF AnnounceEdit
  <2>2. calm' \in BOOLEAN
    BY <2>1 DEF NothingOlder
  <2>3. FeedsTypeOK'
    BY <1>1, <2>1, <2>2, TypesBefore, TypesStay, Versions
  <2>4. BodiesRead' /\ CalmEditIsServed'
    BY <1>1, <2>1 DEF FeedsInvariant, BodyInvariant, BodiesRead, CalmEditIsServed
  <2>5. CalmFlights'
    BY <1>1, <2>1 DEF CalmFlights, NothingOlder
  <2> QED BY <1>1, <2>3, <2>4, <2>5, TokensStay DEF FeedsInvariant, BodyInvariant
<1> QED BY <1>2, <1>3

\* A token that is replaced has its whole time to live left at most, and who has
\* just found it is late.
LEMMA ReplaceInvariant ==
  ASSUME FeedsInvariant, RotateInService \/ RotateByScript
  PROVE  FeedsInvariant'
<1>1. /\ issued < MaxTokens /\ issued' = issued + 1
      /\ revoked' = [revoked EXCEPT ![issued] = 0]
      /\ late' = IF \E r \in Requests : request[r].at = "found" /\ request[r].token = issued
                   THEN late \cup {issued} ELSE late
      /\ UNCHANGED <<watchlist, tokens, feed, flight, request, editor, calm, forgotten, polls>>
      /\ rotator' = rotator \/ rotator' = issued
  BY DEF RotateInService, RotateByScript, Replace
<1>2. issued \in Tokens /\ issued' \in Tokens /\ issued \in Nat /\ rotator' \in 0 .. MaxTokens
  BY <1>1, TypesBefore, FeedsAssumption DEF Tokens
<1>3. /\ revoked \in [Tokens -> Nothing .. TokenTTL] /\ 0 \in Nothing .. TokenTTL
      /\ revoked' \in [Tokens -> Nothing .. TokenTTL]
      /\ revoked'[issued] = 0 /\ \A t \in Tokens : t # issued => revoked'[t] = revoked[t]
  BY <1>1, <1>2, TypesBefore, FeedsAssumption DEF Nothing
<1>4. late' \subseteq Tokens /\ late \subseteq late'
  BY <1>1, <1>2, TypesBefore
<1>5. FeedsTypeOK'
  BY <1>1, <1>2, <1>3, <1>4, TypesBefore, TypesStay
<1>6. BodyInvariant'
  BY <1>1, BodiesStay
<1>7. ReplacedTokens'
  <2>1. \A t \in Tokens : t \in Nat /\ (t < issued' <=> t < issued \/ t = issued)
    BY <1>1, <1>2 DEF Tokens
  <2>2. \A t \in Tokens : revoked'[t] # Nothing <=> t < issued'
    BY <1>3, <2>1 DEF Nothing, FeedsInvariant, TokenInvariant, ReplacedTokens
  <2>3. rotator' < issued'
    <3>1. rotator < issued /\ rotator \in Int
      BY TypesBefore DEF FeedsInvariant, TokenInvariant, ReplacedTokens
    <3> QED BY <1>1, <1>2, <3>1
  <2>4. \A t \in forgotten' : t < issued'
    BY <1>1, <2>1, TypesBefore DEF FeedsInvariant, TokenInvariant, ReplacedTokens
  <2> QED BY <2>2, <2>3, <2>4 DEF ReplacedTokens
<1>8. FoundTokens'
  BY <1>1 DEF FeedsInvariant, TokenInvariant, FoundTokens
<1>9. AgingTokens'
  <2> SUFFICES ASSUME NEW t \in Tokens \ late'
               PROVE  /\ t < issued' => tokens[t] + revoked'[t] <= TokenTTL
                      /\ t \in forgotten => tokens[t] = 0
    BY <1>1 DEF AgingTokens
  <2>1. t \in Tokens \ late /\ tokens[t] \in 0 .. TokenTTL
    BY <1>4, TypesBefore
  <2>2. t \in forgotten => tokens[t] = 0
    BY <2>1 DEF FeedsInvariant, TokenInvariant, AgingTokens
  <2>3. CASE t = issued
    BY <1>3, <2>1, <2>2, <2>3, FeedsAssumption
  <2>4. CASE t # issued
    <3>1. t < issued' => t < issued
      BY <1>1, <1>2, <2>1, <2>4 DEF Tokens
    <3> QED BY <1>3, <2>1, <2>2, <2>4, <3>1 DEF FeedsInvariant, TokenInvariant, AgingTokens
  <2> QED BY <2>3, <2>4
<1> QED BY <1>5, <1>6, <1>7, <1>8, <1>9 DEF FeedsInvariant, TokenInvariant

\* Forgotten tokens are not cached, and were replaced.
LEMMA ForgetInvariant ==
  ASSUME FeedsInvariant, ForgetTokens
  PROVE  FeedsInvariant'
<1>1. /\ rotator # 0 /\ rotator' = 0 /\ feed' = Nothing /\ forgotten' = forgotten \cup {rotator}
      /\ tokens' = [t \in Tokens |-> IF t \in {rotator, rotator + 1} THEN 0 ELSE tokens[t]]
      /\ UNCHANGED <<watchlist, issued, flight, request, editor, calm, revoked, late, polls>>
  BY DEF ForgetTokens
<1>2. rotator \in Tokens /\ 0 \in 0 .. MaxTokens
  BY <1>1, TypesBefore, FeedsAssumption DEF Tokens
<1>3. /\ tokens' \in [Tokens -> 0 .. TokenTTL]
      /\ \A t \in Tokens : tokens'[t] = tokens[t] \/ tokens'[t] = 0
      /\ tokens'[rotator] = 0
  BY <1>1, <1>2, TypesBefore, FeedsAssumption
<1>4. FeedsTypeOK'
  BY <1>1, <1>2, <1>3, TypesBefore, TypesStay, Versions
<1>5. BodyInvariant'
  BY <1>1 DEF FeedsInvariant, BodyInvariant, BodiesRead, CalmFlights, NothingOlder, CalmEditIsServed
<1>6. ReplacedTokens' /\ FoundTokens'
  <2>1. 0 < issued
    BY TypesBefore DEF Tokens
  <2> QED BY <1>1, <2>1 DEF FeedsInvariant, TokenInvariant, ReplacedTokens, FoundTokens
<1>7. AgingTokens'
  <2> SUFFICES ASSUME NEW t \in Tokens \ late
               PROVE  /\ t < issued => tokens'[t] + revoked[t] <= TokenTTL
                      /\ t \in forgotten' => tokens'[t] = 0
    BY <1>1 DEF AgingTokens
  <2>1. /\ tokens[t] \in 0 .. TokenTTL /\ revoked[t] \in Nothing .. TokenTTL
        /\ t < issued => tokens[t] + revoked[t] <= TokenTTL
        /\ t \in forgotten => tokens[t] = 0
    BY TypesBefore DEF FeedsInvariant, TokenInvariant, AgingTokens
  <2>2. t < issued => tokens'[t] + revoked[t] <= TokenTTL
    BY <1>3, <2>1, FeedsAssumption
  <2>3. t \in forgotten' => tokens'[t] = 0
    BY <1>1, <1>3, <2>1
  <2> QED BY <2>2, <2>3
<1> QED BY <1>4, <1>5, <1>6, <1>7 DEF FeedsInvariant, TokenInvariant

\* A tick takes as much from a resolution as it adds to the age of its token.
LEMMA ElapseInvariant ==
  ASSUME FeedsInvariant, Elapse
  PROVE  FeedsInvariant'
<1>1. /\ tokens' = [t \in Tokens |-> IF tokens[t] > 0 THEN tokens[t] - 1 ELSE 0]
      /\ revoked' = [t \in Tokens |->
                       IF revoked[t] \in 0 .. TokenTTL - 1 THEN revoked[t] + 1 ELSE revoked[t]]
      /\ UNCHANGED <<watchlist, issued, feed, flight, request, editor, rotator, calm, forgotten,
                     late, polls>>
  BY DEF Elapse
<1>2. ASSUME NEW t \in Tokens
      PROVE  /\ tokens'[t] \in 0 .. TokenTTL /\ revoked'[t] \in Nothing .. TokenTTL
             /\ revoked'[t] = Nothing <=> revoked[t] = Nothing
             /\ tokens[t] = 0 => tokens'[t] = 0
             /\ revoked[t] # Nothing /\ tokens[t] + revoked[t] <= TokenTTL
                  => tokens'[t] + revoked'[t] <= TokenTTL
  <2>1. tokens[t] \in 0 .. TokenTTL /\ revoked[t] \in Nothing .. TokenTTL
    BY TypesBefore
  <2>2. /\ tokens'[t] = IF tokens[t] > 0 THEN tokens[t] - 1 ELSE 0
        /\ revoked'[t] = IF revoked[t] \in 0 .. TokenTTL - 1 THEN revoked[t] + 1 ELSE revoked[t]
    BY <1>1
  <2> QED BY <2>1, <2>2, FeedsAssumption DEF Nothing
<1>3. /\ tokens' \in [Tokens -> 0 .. TokenTTL] /\ revoked' \in [Tokens -> Nothing .. TokenTTL]
  BY <1>1, <1>2
<1>4. FeedsTypeOK'
  BY <1>1, <1>3, TypesBefore, TypesStay
<1>5. BodyInvariant'
  BY <1>1, BodiesStay
<1>6. ReplacedTokens' /\ FoundTokens'
  BY <1>1, <1>2 DEF FeedsInvariant, TokenInvariant, ReplacedTokens, FoundTokens
<1>7. AgingTokens'
  BY <1>1, <1>2 DEF FeedsInvariant, TokenInvariant, ReplacedTokens, AgingTokens
<1> QED BY <1>4, <1>5, <1>6, <1>7 DEF FeedsInvariant, TokenInvariant

----------------------------------------------------------------------------
(* The theorems                                                            *)

\* One token is valid, nothing is cached and nobody asks at first.
LEMMA InitFeeds == FeedsInit => FeedsInvariant
<1> SUFFICES ASSUME FeedsInit PROVE FeedsInvariant
  OBVIOUS
<1>1. /\ request \in [Requests -> RequestState] /\ \A r \in Requests : request[r].at = "away"
      /\ watchlist = 0 /\ issued = 1 /\ feed = Nothing /\ rotator = 0
      /\ flight = [leader |-> NoLeader, result |-> Nothing]
      /\ \A t \in Tokens : revoked[t] = Nothing
      /\ forgotten = {} /\ late = {} /\ calm = TRUE /\ editor = "idle" /\ polls = 0
  BY AwayState DEF FeedsInit, NoFlight
<1>2. /\ issued \in Tokens /\ 0 \in 0 .. MaxEdits /\ 0 \in 0 .. MaxTokens /\ 0 \in 0 .. TokenTTL
      /\ Nothing \in Nothing .. TokenTTL
  BY <1>1, FeedsAssumption DEF Tokens, Nothing
<1>3. /\ tokens \in [Tokens -> 0 .. TokenTTL] /\ revoked \in [Tokens -> Nothing .. TokenTTL]
  BY <1>2 DEF FeedsInit
<1>4. \A r \in Requests : flight # [leader |-> r, result |-> Nothing]
  <2>1. ASSUME NEW r \in Requests, flight = [leader |-> r, result |-> Nothing] PROVE FALSE
    <3>1. flight.leader = r /\ flight.leader = NoLeader
      BY <1>1, <2>1
    <3> QED BY <3>1, FeedsAssumption
  <2> QED BY <2>1
<1>5. flight \in [leader : Requests \cup {NoLeader}, result : Nothing .. Failed]
  BY <1>1, Versions
<1>6. FeedsTypeOK
  BY <1>1, <1>2, <1>3, <1>4, <1>5, Versions DEF FeedsTypeOK, RequestState
<1>7. flight.result = Nothing
  BY <1>1
<1>8. BodyInvariant
  BY <1>1, <1>7 DEF BodyInvariant, BodiesRead, UnderWay, CalmFlights, NothingOlder, CalmEditIsServed
<1>9. TokenInvariant
  BY <1>1 DEF TokenInvariant, ReplacedTokens, FoundTokens, AgingTokens, Tokens
<1> QED BY <1>6, <1>8, <1>9 DEF FeedsInvariant

\* Every step keeps it.
LEMMA NextFeeds == FeedsInvariant /\ [FeedsNext]_feedVars => FeedsInvariant'
<1> SUFFICES ASSUME FeedsInvariant, [FeedsNext]_feedVars PROVE FeedsInvariant'
  OBVIOUS
<1>1. ASSUME NEW r \in Requests, Poll(r) PROVE FeedsInvariant'
  BY <1>1, LookUpTokenInvariant, CacheTokenInvariant, AnswerInvariant, ReadWatchlistInvariant,
     JoinFlightInvariant, FlightEnds DEF Poll
<1>2. CASE UNCHANGED feedVars
  <2>1. UNCHANGED <<watchlist, issued, tokens, feed, flight, request, editor, rotator, calm,
                    revoked, forgotten, late, polls>>
    BY <1>2 DEF feedVars
  <2>2. FeedsTypeOK'
    BY <2>1, TypesBefore, TypesStay
  <2> QED BY <2>1, <2>2, BodiesStay, TokensStay DEF FeedsInvariant
<1> QED BY <1>1, <1>2, CleanUpInvariant, FeedGoesInvariant, EditInvariant, ReplaceInvariant,
           ForgetInvariant, ElapseInvariant DEF FeedsNext

\* The caches, the requests and the flight keep their types; one request at most
\* generates, the leader of the registered flight, and whoever waits waits for a
\* flight that is still registered (singleflight.py).
THEOREM FeedsTypes == FeedsSpec => []FeedsTypeOK
BY InitFeeds, NextFeeds, PTL DEF FeedsSpec, FeedsInvariant

\* A change of the watchlist that met nothing read before it is in every body the
\* cache serves, whatever flights, failures, waits and rotations follow.
THEOREM CalmEdits == FeedsSpec => []CalmEditIsServed
BY InitFeeds, NextFeeds, PTL DEF FeedsSpec, FeedsInvariant, BodyInvariant

\* A replaced token stops resolving: at once when the service replaced it, within
\* one time to live when a script did, for any number of requests and rotations,
\* unless a request was about to cache its resolution when it was replaced.
THEOREM RevokedTokens == FeedsSpec => []RevokedTokenStops
<1>1. FeedsInvariant => RevokedTokenStops
  <2> SUFFICES ASSUME FeedsInvariant, NEW t \in Tokens \ late, revoked[t] # Nothing,
                      t \in forgotten \/ revoked[t] = TokenTTL
               PROVE  tokens[t] = 0
    BY DEF RevokedTokenStops
  <2>1. t < issued /\ tokens[t] \in 0 .. TokenTTL
    BY TypesBefore DEF FeedsInvariant, TokenInvariant, ReplacedTokens
  <2>2. /\ tokens[t] + revoked[t] <= TokenTTL
        /\ t \in forgotten => tokens[t] = 0
    BY <2>1 DEF FeedsInvariant, TokenInvariant, AgingTokens
  <2> QED BY <2>1, <2>2, FeedsAssumption
<1> QED BY <1>1, InitFeeds, NextFeeds, PTL DEF FeedsSpec


----------------------------------------------------------------------------
(* SymbolKeys: spellings                                                   *)

Affixes == {"", "US", "HK", "A", "SZ"}
Codes ==
  [prefix : Affixes, word : Tickers \cup {NoWord}, number : Nat, width : Nat, suffix : Affixes,
   lower : BOOLEAN]

\* The canonical spelling of a word, of a mainland listing's word, and of a number.
Word(w)      == Code("", w, 0, 0, "", FALSE)
MainWord(w)  == Code("", w, 0, 0, "A", FALSE)
HKCode(n)    == Code("", NoWord, n, Larger(4, Digits(n)), "HK", FALSE)

IsUpper(c) == c.lower = FALSE
IsWord(c) == c \in Codes /\ c.word \in Tickers /\ c.number = 0 /\ c.width = 0
IsNumber(c) == c \in Codes /\ c.word = NoWord /\ c.number # 0 /\ c.width >= Digits(c.number)

LEMMA SameCode ==
  ASSUME NEW a \in Codes, NEW b \in Codes, a.prefix = b.prefix, a.word = b.word, a.number = b.number,
         a.width = b.width, a.suffix = b.suffix, IsUpper(a), IsUpper(b)
  PROVE  a = b
BY DEF Codes, IsUpper

LEMMA DigitsRange ==
  ASSUME NEW n \in Nat
  PROVE  /\ Digits(n) \in Nat /\ Digits(n) >= 1 /\ Digits(n) <= 6
         /\ Larger(4, Digits(n)) \in Nat /\ Larger(4, Digits(n)) >= 4 /\ Larger(4, Digits(n)) >= Digits(n)
BY DEF Digits, Larger

\* The canonical spellings, by their parts.
LEMMA WordFields ==
  ASSUME NEW w \in Tickers
  PROVE  /\ IsWord(Word(w)) /\ Word(w) \in Codes /\ Word(w).word = w /\ Word(w).prefix = ""
         /\ Word(w).suffix = "" /\ Word(w).number = 0 /\ Word(w).width = 0 /\ IsUpper(Word(w))
<1>1. /\ Word(w) \in Codes /\ Word(w).word = w /\ Word(w).prefix = "" /\ Word(w).suffix = ""
      /\ Word(w).number = 0 /\ Word(w).width = 0
  BY DEF Word, Code, Codes, Affixes
<1>2. IsUpper(Word(w))
  BY DEF Word, Code, IsUpper
<1>. QED  BY <1>1, <1>2 DEF IsWord

LEMMA MainFields ==
  ASSUME NEW w \in Tickers
  PROVE  /\ IsWord(MainWord(w)) /\ MainWord(w) \in Codes /\ MainWord(w).word = w
         /\ MainWord(w).prefix = "" /\ MainWord(w).suffix = "A" /\ MainWord(w).number = 0
         /\ MainWord(w).width = 0 /\ IsUpper(MainWord(w))
<1>1. /\ MainWord(w) \in Codes /\ MainWord(w).word = w /\ MainWord(w).prefix = ""
      /\ MainWord(w).suffix = "A" /\ MainWord(w).number = 0 /\ MainWord(w).width = 0
  BY DEF MainWord, Code, Codes, Affixes
<1>2. IsUpper(MainWord(w))
  BY DEF MainWord, Code, IsUpper
<1>. QED  BY <1>1, <1>2 DEF IsWord

LEMMA HKFields ==
  ASSUME NEW n \in Nat, n # 0
  PROVE  /\ IsNumber(HKCode(n)) /\ HKCode(n) \in Codes /\ HKCode(n).word = NoWord
         /\ HKCode(n).prefix = "" /\ HKCode(n).suffix = "HK" /\ HKCode(n).number = n
         /\ HKCode(n).width = Larger(4, Digits(n)) /\ IsUpper(HKCode(n))
<1>. DEFINE d == Larger(4, Digits(n))
            h == HKCode(n)
<1>1. h = Code("", NoWord, n, d, "HK", FALSE)
  BY DEF HKCode
<1>2. d \in Nat /\ d >= Digits(n)
  BY DigitsRange
<1>. HIDE DEF d, h
<1>3. /\ h \in Codes /\ h.word = NoWord /\ h.prefix = "" /\ h.suffix = "HK" /\ h.number = n /\ h.width = d
  BY <1>1, <1>2 DEF Code, Codes, Affixes
<1>4. IsUpper(h)
  BY <1>1 DEF Code, IsUpper
<1>5. IsNumber(h)
  BY <1>2, <1>3 DEF IsNumber
<1>. QED  BY <1>3, <1>4, <1>5 DEF d, h

LEMMA UpperFields ==
  ASSUME NEW c \in Codes
  PROVE  /\ Upper(c) \in Codes /\ Upper(c).prefix = c.prefix /\ Upper(c).word = c.word
         /\ Upper(c).number = c.number /\ Upper(c).width = c.width /\ Upper(c).suffix = c.suffix
         /\ IsUpper(Upper(c))
BY DEF Upper, Codes, IsUpper

LEMMA NotRefused ==
  ASSUME NEW c \in Codes
  PROVE  c # Refused /\ \A m : Key(c, m) # Refused
BY DEF Codes, Refused, Key

\* A number is an HKEX code, however it is written.
LEMMA NumberInHK ==
  ASSUME NEW c, IsNumber(c), c.prefix = "", c.suffix \in {"", "HK"}
  PROVE  Normalize(c, "HK") = Key(HKCode(c.number), "HK")
<1>. DEFINE u == Upper(c)
            s == [u EXCEPT !.suffix = IF @ = "HK" THEN "" ELSE @]
            w == Larger(4, Digits(c.number))
            t == [s EXCEPT !.width = w]
            h == [t EXCEPT !.suffix = "HK"]
<1>1. c \in Codes /\ c.word = NoWord /\ c.number \in Nat \ {0} /\ c.width \in Nat /\ c.width > 0
  <2>1. c \in Codes /\ c.word = NoWord /\ c.number # 0 /\ c.width >= Digits(c.number)
    BY DEF IsNumber
  <2>2. c.number \in Nat /\ c.width \in Nat
    BY <2>1 DEF Codes
  <2>3. Digits(c.number) \in Nat /\ Digits(c.number) >= 1
    BY <2>2, DigitsRange
  <2>. QED  BY ONLY <2>1, <2>2, <2>3
<1>2. /\ u \in Codes /\ u.prefix = "" /\ u.word = NoWord /\ u.number = c.number
      /\ u.width = c.width /\ u.suffix = c.suffix /\ IsUpper(u)
  BY <1>1, UpperFields
<1>. HIDE DEF u
<1>3. /\ s \in Codes /\ s.prefix = "" /\ s.word = NoWord /\ s.number = c.number
      /\ s.width = c.width /\ s.suffix = "" /\ IsUpper(s)
  <2>1. /\ s \in Codes /\ s.prefix = "" /\ s.word = NoWord /\ s.number = c.number
        /\ s.width = c.width /\ s.suffix = "" /\ s.lower = u.lower
    BY <1>2 DEF Codes, Affixes
  <2>. QED  BY <1>2, <2>1 DEF IsUpper
<1>4. NormalizeHK(c) = [(IF IsDigit(s) THEN Padded(s) ELSE s) EXCEPT !.suffix = "HK"]
  BY DEF NormalizeHK, u
<1>. HIDE DEF s
<1>5. IsDigit(s)
  BY <1>1, <1>3 DEF IsDigit
<1>6. Padded(s) = t
  BY <1>3 DEF Padded
<1>7. w \in Nat
  BY <1>1, DigitsRange
<1>. HIDE DEF w
<1>8. /\ t \in Codes /\ t.prefix = "" /\ t.word = NoWord /\ t.number = c.number
      /\ t.width = w /\ t.suffix = "" /\ IsUpper(t)
  <2>1. /\ t \in Codes /\ t.prefix = "" /\ t.word = NoWord /\ t.number = c.number
        /\ t.width = w /\ t.suffix = "" /\ t.lower = s.lower
    BY <1>3, <1>7 DEF Codes
  <2>. QED  BY <1>3, <2>1 DEF IsUpper
<1>9. NormalizeHK(c) = h
  BY <1>4, <1>5, <1>6
<1>. HIDE DEF t
<1>10. /\ h \in Codes /\ h.prefix = "" /\ h.word = NoWord /\ h.number = c.number
       /\ h.width = w /\ h.suffix = "HK" /\ IsUpper(h)
  <2>1. /\ h \in Codes /\ h.prefix = "" /\ h.word = NoWord /\ h.number = c.number
        /\ h.width = w /\ h.suffix = "HK" /\ h.lower = t.lower
    BY <1>8 DEF Codes, Affixes
  <2>. QED  BY <1>8, <2>1 DEF IsUpper
<1>. HIDE DEF h
<1>11. h = HKCode(c.number)
  <2>1. /\ HKCode(c.number) \in Codes /\ HKCode(c.number).word = NoWord
        /\ HKCode(c.number).prefix = "" /\ HKCode(c.number).suffix = "HK"
        /\ HKCode(c.number).number = c.number
        /\ HKCode(c.number).width = w /\ IsUpper(HKCode(c.number))
    BY <1>1, HKFields DEF w
  <2>. QED  BY <1>10, <2>1, SameCode
<1>. QED  BY <1>9, <1>10, <1>11, NotRefused DEF Normalize

\* A word is a US ticker, a mainland suffix stays, and a number is none.
LEMMA SpellingInUS ==
  ASSUME NEW c \in Codes, c.prefix \in {"", "US"}, c.suffix \in {"", "US", "A"}
  PROVE  /\ IsWord(c) =>
              Normalize(c, "US") = Key(IF c.suffix = "A" THEN MainWord(c.word) ELSE Word(c.word), "US")
         /\ c.width > 0 /\ c.suffix # "A" => Normalize(c, "US") = Refused
<1>. DEFINE u == Upper(c)
            s == [u EXCEPT !.prefix = IF @ = "US" THEN "" ELSE @, !.suffix = IF @ = "US" THEN "" ELSE @]
<1>1. /\ u \in Codes /\ u.prefix = c.prefix /\ u.word = c.word /\ u.number = c.number
      /\ u.width = c.width /\ u.suffix = c.suffix /\ IsUpper(u)
  BY UpperFields
<1>. HIDE DEF u
<1>2. /\ s \in Codes /\ s.prefix = "" /\ s.word = c.word /\ s.number = c.number
      /\ s.width = c.width /\ (c.suffix = "A" => s.suffix = "A") /\ (c.suffix # "A" => s.suffix = "")
      /\ IsUpper(s)
  <2>1. /\ s \in Codes /\ s.prefix = "" /\ s.word = c.word /\ s.number = c.number
        /\ s.width = c.width /\ (c.suffix = "A" => s.suffix = "A") /\ (c.suffix # "A" => s.suffix = "")
        /\ s.lower = u.lower
    BY <1>1 DEF Codes, Affixes
  <2>. QED  BY <1>1, <2>1 DEF IsUpper
<1>3. NormalizeUS(c) = IF IsDigit(s) THEN Refused ELSE s
  BY DEF NormalizeUS, u
<1>. HIDE DEF s
<1>4. ASSUME IsWord(c)
      PROVE  Normalize(c, "US") = Key(IF c.suffix = "A" THEN MainWord(c.word) ELSE Word(c.word), "US")
  <2>1. c.word \in Tickers /\ c.number = 0 /\ c.width = 0
    BY <1>4 DEF IsWord
  <2>2. ~ IsDigit(s)
    <3>1. s.width = 0
      BY <1>2, <2>1
    <3>. QED  BY ONLY <3>1 DEF IsDigit
  <2>3. CASE c.suffix = "A"
    <3>1. s = MainWord(c.word)
      BY <1>2, <2>1, <2>3, MainFields, SameCode
    <3>. QED  BY <1>2, <1>3, <2>2, <2>3, <3>1, NotRefused DEF Normalize
  <2>4. CASE c.suffix # "A"
    <3>1. s = Word(c.word)
      BY <1>2, <2>1, <2>4, WordFields, SameCode
    <3>. QED  BY <1>2, <1>3, <2>2, <2>4, <3>1, NotRefused DEF Normalize
  <2>. QED  BY <2>3, <2>4
<1>5. ASSUME c.width > 0, c.suffix # "A"
      PROVE  Normalize(c, "US") = Refused
  BY <1>2, <1>3, <1>5 DEF IsDigit, Normalize
<1>. QED  BY <1>4, <1>5

LEMMA NoDigit ==
  ASSUME NEW c, c.width = 0
  PROVE  ~ IsDigit(c)
BY DEF IsDigit

LEMMA SomeDigit ==
  ASSUME NEW c, c.width \in Nat, c.width > 0, c.prefix = "", c.suffix = ""
  PROVE  IsDigit(c) /\ (IsHkTicker(c) <=> c.width <= 5)
BY DEF IsDigit, IsHkTicker

LEMMA BareFields ==
  ASSUME NEW c \in Codes
  PROVE  /\ Bare(c) \in Codes /\ Bare(c).prefix = "" /\ Bare(c).word = c.word /\ Bare(c).number = c.number
         /\ Bare(c).width = c.width /\ (c.suffix \in {"", "US", "HK"} => Bare(c).suffix = "")
         /\ IsUpper(Bare(c))
<1>. DEFINE u == Upper(c)
            b == [u EXCEPT !.prefix = "", !.suffix = IF @ \in {"US", "HK"} THEN "" ELSE @]
<1>1. /\ u \in Codes /\ u.word = c.word /\ u.number = c.number
      /\ u.width = c.width /\ u.suffix = c.suffix /\ IsUpper(u)
  BY UpperFields
<1>2. Bare(c) = b
  BY DEF Bare
<1>. HIDE DEF u
<1>3. /\ b \in Codes /\ b.prefix = "" /\ b.word = c.word /\ b.number = c.number /\ b.width = c.width
      /\ (c.suffix \in {"", "US", "HK"} => b.suffix = "") /\ b.lower = u.lower
  BY <1>1 DEF Codes, Affixes
<1>4. IsUpper(b)
  BY <1>1, <1>3 DEF IsUpper
<1>. QED  BY <1>2, <1>3, <1>4

\* The market a spelling is of.
LEMMA MarketOfWord ==
  ASSUME NEW c, IsWord(c), c.prefix \in {"", "US"}, c.suffix \in {"", "US", "A"}
  PROVE  MarketOf(c) = "US"
<1>1. ~ IsDigit(c)
  BY NoDigit DEF IsWord
<1>. QED  BY <1>1 DEF MarketOf

LEMMA WidthOfNumber ==
  ASSUME NEW c, IsNumber(c)
  PROVE  /\ c \in Codes /\ c.word = NoWord /\ c.number \in Nat /\ c.number # 0 /\ c.width \in Nat
         /\ c.width > 0 /\ c.width >= Digits(c.number)
<1>1. c \in Codes /\ c.word = NoWord /\ c.number # 0 /\ c.width >= Digits(c.number)
  BY DEF IsNumber
<1>2. c.number \in Nat /\ c.width \in Nat
  BY <1>1 DEF Codes
<1>3. Digits(c.number) \in Nat /\ Digits(c.number) >= 1
  BY <1>2, DigitsRange
<1>4. c.width > 0
  BY ONLY <1>1, <1>2, <1>3
<1>. QED  BY <1>1, <1>2, <1>4

LEMMA MarketOfNumber ==
  ASSUME NEW c, IsNumber(c), c.prefix = ""
  PROVE  /\ c.suffix = "" => MarketOf(c) = IF c.width <= 5 THEN "HK" ELSE "none"
         /\ c.suffix = "HK" => MarketOf(c) = "HK"
<1>1. c.width \in Nat /\ c.width > 0
  BY WidthOfNumber
<1>2. ASSUME c.suffix = ""
      PROVE  MarketOf(c) = IF c.width <= 5 THEN "HK" ELSE "none"
  <2>1. IsDigit(c) /\ (IsHkTicker(c) <=> c.width <= 5)
    BY <1>1, <1>2, SomeDigit
  <2>2. MarketOf(c) = IF IsHkTicker(c) THEN "HK" ELSE "none"
    BY <1>2, <2>1 DEF MarketOf
  <2>3. CASE IsHkTicker(c)
    BY <2>1, <2>2, <2>3
  <2>4. CASE ~ IsHkTicker(c)
    BY <2>1, <2>2, <2>4
  <2>. QED  BY <2>3, <2>4
<1>3. c.suffix = "HK" => MarketOf(c) = "HK"
  BY DEF MarketOf
<1>. QED  BY <1>2, <1>3

\* Every entry point gives a ticker and an HKEX code one key.
LEMMA WordIsKeyedOnce ==
  ASSUME NEW c, IsWord(c), c.prefix = "", c.suffix \in {"", "US"}
  PROVE  KeysOf(c) = {Key(Word(c.word), "US")}
<1>1. c \in Codes /\ c.word \in Tickers /\ c.number = 0 /\ c.width = 0
  BY DEF IsWord
<1>2. MarketOf(c) = "US" /\ ~ MarketMismatch(c, "US")
  BY MarketOfWord DEF MarketMismatch
<1>3. HomeMarket(c) = "US"
  BY ONLY <1>1 DEF HomeMarket
<1>4. Bare(c) = Word(c.word)
  <2>1. /\ Bare(c) \in Codes /\ Bare(c).prefix = "" /\ Bare(c).word = c.word /\ Bare(c).number = c.number
        /\ Bare(c).width = c.width /\ Bare(c).suffix = "" /\ IsUpper(Bare(c))
    BY <1>1, BareFields
  <2>2. PICK w \in Tickers : w = c.word
    BY <1>1
  <2>. QED  BY <1>1, <2>1, <2>2, WordFields, SameCode
<1>5. Normalize(c, "US") = Key(Word(c.word), "US")
  BY <1>1, SpellingInUS
<1>6. Upper(Word(c.word)) = Word(c.word)
  <2>. DEFINE w == Word(c.word)
  <2>1. /\ w \in Codes /\ w.word = c.word /\ w.prefix = "" /\ w.suffix = "" /\ w.number = 0
        /\ w.width = 0 /\ IsUpper(w)
    BY <1>1, WordFields
  <2>. HIDE DEF w
  <2>2. /\ Upper(w) \in Codes /\ Upper(w).prefix = w.prefix /\ Upper(w).word = w.word
        /\ Upper(w).number = w.number /\ Upper(w).width = w.width /\ Upper(w).suffix = w.suffix
        /\ IsUpper(Upper(w))
    BY <2>1, UpperFields
  <2>3. Upper(w) = w
    BY <2>1, <2>2, SameCode
  <2>. QED  BY <2>3 DEF w
<1>7. Grouped(c) = Key(Word(c.word), "US") /\ FutuSymbol(c) = Key(Word(c.word), "US")
  BY <1>2, <1>4 DEF Grouped, FutuSymbol
<1>8. FromCalendar(c, "US") = Key(Word(c.word), "US")
  BY <1>5 DEF FromCalendar
<1>9. FromCounter(Bare(c), "US") = Key(Word(c.word), "US")
  BY <1>4, <1>6 DEF FromCounter
<1>10. Written(c, "US") = Key(Word(c.word), "US")
  BY <1>2, <1>5 DEF Written
<1>. QED  BY <1>3, <1>7, <1>8, <1>9, <1>10 DEF KeysOf

LEMMA NumberIsKeyedOnce ==
  ASSUME NEW c, IsNumber(c), c.prefix = "", c.suffix \in {"", "HK"}, c.width <= 5
  PROVE  KeysOf(c) = {Key(HKCode(c.number), "HK")}
<1>1. /\ c \in Codes /\ c.word = NoWord /\ c.number \in Nat /\ c.number # 0 /\ c.width \in Nat
      /\ c.width > 0 /\ c.width >= Digits(c.number)
  BY WidthOfNumber
<1>. DEFINE b == Bare(c)
            k == Key(HKCode(c.number), "HK")
<1>2. /\ b \in Codes /\ b.prefix = "" /\ b.word = NoWord /\ b.number = c.number /\ b.width = c.width
      /\ b.suffix = "" /\ IsUpper(b)
  BY <1>1, BareFields
<1>. HIDE DEF b
<1>3. IsNumber(b)
  BY ONLY <1>1, <1>2 DEF IsNumber
<1>4. MarketOf(c) = "HK"
  BY MarketOfNumber
<1>5. Normalize(c, "HK") = k /\ Normalize(b, "HK") = k
  BY <1>2, <1>3, NumberInHK
<1>6. HomeMarket(c) = "HK"
  BY ONLY <1>1 DEF HomeMarket
<1>7. ~ MarketMismatch(c, "HK")
  <2>1. CASE c.suffix = "HK"
    BY <2>1 DEF MarketMismatch
  <2>2. CASE c.suffix = ""
    <3>1. IsHkTicker(c)
      BY <1>1, <2>2, SomeDigit
    <3>. QED  BY <2>2, <3>1 DEF MarketMismatch
  <2>. QED  BY <2>1, <2>2
<1>8. Grouped(c) = k /\ FutuSymbol(c) = k
  BY <1>4, <1>5 DEF Grouped, FutuSymbol, b
<1>9. FromCalendar(c, "HK") = k
  BY <1>5 DEF FromCalendar
<1>10. Written(c, "HK") = k
  BY <1>5, <1>7 DEF Written
<1>11. FromCounter(b, "HK") = k
  <2>. DEFINE w == Larger(4, Digits(c.number))
              t == [b EXCEPT !.width = w]
              h == [t EXCEPT !.suffix = "HK"]
  <2>1. IsDigit(b)
    BY <1>1, <1>2, SomeDigit
  <2>2. Padded(b) = t
    BY <1>2 DEF Padded
  <2>3. FromCounter(b, "HK") = Key(h, "HK")
    BY <2>1, <2>2 DEF FromCounter
  <2>4. w \in Nat
    BY <1>1, DigitsRange
  <2>. HIDE DEF w
  <2>5. /\ t \in Codes /\ t.prefix = "" /\ t.word = NoWord /\ t.number = c.number /\ t.width = w
        /\ t.suffix = "" /\ t.lower = b.lower
    BY <1>2, <2>4 DEF Codes
  <2>. HIDE DEF t
  <2>6. /\ h \in Codes /\ h.prefix = "" /\ h.word = NoWord /\ h.number = c.number /\ h.width = w
        /\ h.suffix = "HK" /\ h.lower = t.lower
    BY <2>5 DEF Codes, Affixes
  <2>. HIDE DEF h
  <2>7. IsUpper(h)
    BY <1>2, <2>5, <2>6 DEF IsUpper
  <2>8. /\ HKCode(c.number) \in Codes /\ HKCode(c.number).word = NoWord
        /\ HKCode(c.number).prefix = "" /\ HKCode(c.number).suffix = "HK"
        /\ HKCode(c.number).number = c.number
        /\ HKCode(c.number).width = w /\ IsUpper(HKCode(c.number))
    BY <1>1, HKFields DEF w
  <2>9. h = HKCode(c.number)
    BY <2>6, <2>7, <2>8, SameCode
  <2>. QED  BY <2>3, <2>9
<1>. QED  BY <1>6, <1>8, <1>9, <1>10, <1>11 DEF KeysOf, b

----------------------------------------------------------------------------
(* SymbolKeys: rows as a start leaves them                                 *)

IsRow(r) == r = [id |-> r.id, symbol |-> r.symbol, market |-> r.market]

\* A US ticker, a mainland listing kept under US, an HKEX code, or a number too long to be one.
Ticker(r)   == r.market = "US" /\ r.symbol.word \in Tickers /\ r.symbol = Word(r.symbol.word)
Mainland(r) == r.market = "US" /\ r.symbol.word \in Tickers /\ r.symbol = MainWord(r.symbol.word)
Listed(r)   == r.market = "HK" /\ IsNumber(r.symbol) /\ r.symbol = HKCode(r.symbol.number)
TooLong(r)  ==
  /\ r.market = "US" /\ IsNumber(r.symbol) /\ r.symbol.prefix = "" /\ r.symbol.suffix = ""
  /\ r.symbol.width > 5
Settled(r) == Ticker(r) \/ Mainland(r) \/ Listed(r) \/ TooLong(r)

\* Settled rows are served under their own keys.
LEMMA SettledIsServed ==
  ASSUME NEW r, Settled(r)
  PROVE  /\ StoredAsServed(r)
         /\ TooLong(r) => ResolveStored(r) = Refused
<1>. DEFINE s == r.symbol
<1>1. CASE Ticker(r)
  <2>1. PICK w \in Tickers : r.market = "US" /\ s = Word(w) /\ s.word = w
    BY <1>1 DEF Ticker
  <2>. HIDE DEF s
  <2>2. /\ IsWord(s) /\ s \in Codes /\ s.prefix = "" /\ s.suffix = "" /\ s.width = 0
    BY <2>1, WordFields
  <2>3. ~ MarketMismatch(s, "US")
    BY <2>2, MarketOfWord DEF MarketMismatch
  <2>4. Normalize(s, "US") = Key(s, "US")
    BY <2>1, <2>2, SpellingInUS
  <2>5. ResolveStored(r) = Key(s, "US")
    BY <2>1, <2>3, <2>4 DEF ResolveStored, s
  <2>6. ~ TooLong(r)
    <3>1. s.word # NoWord
      BY <2>1, SymbolKeysAssumption
    <3>. QED  BY <3>1 DEF TooLong, IsNumber, s
  <2>. QED  BY <2>1, <2>5, <2>6 DEF StoredAsServed, s
<1>2. CASE Mainland(r)
  <2>1. PICK w \in Tickers : r.market = "US" /\ s = MainWord(w) /\ s.word = w
    BY <1>2 DEF Mainland
  <2>. HIDE DEF s
  <2>2. /\ IsWord(s) /\ s \in Codes /\ s.prefix = "" /\ s.suffix = "A" /\ s.width = 0
    BY <2>1, MainFields
  <2>3. ~ MarketMismatch(s, "US")
    BY <2>2, MarketOfWord DEF MarketMismatch
  <2>4. Normalize(s, "US") = Key(s, "US")
    BY <2>1, <2>2, SpellingInUS
  <2>5. ResolveStored(r) = Key(s, "US")
    BY <2>1, <2>3, <2>4 DEF ResolveStored, s
  <2>6. ~ TooLong(r)
    <3>1. s.word # NoWord
      BY <2>1, SymbolKeysAssumption
    <3>. QED  BY <3>1 DEF TooLong, IsNumber, s
  <2>. QED  BY <2>1, <2>5, <2>6 DEF StoredAsServed, s
<1>3. CASE Listed(r)
  <2>1. r.market = "HK" /\ IsNumber(s) /\ s = HKCode(s.number)
    BY <1>3 DEF Listed
  <2>2. s.number \in Nat /\ s.number # 0
    BY <2>1, WidthOfNumber
  <2>3. s.prefix = "" /\ s.suffix = "HK"
    <3>1. PICK n \in Nat : n = s.number /\ n # 0
      BY <2>2
    <3>2. s = HKCode(n)
      BY <2>1, <3>1
    <3>. HIDE DEF s
    <3>. QED  BY <3>1, <3>2, HKFields
  <2>. HIDE DEF s
  <2>4. ~ MarketMismatch(s, "HK")
    BY <2>3 DEF MarketMismatch
  <2>5. Normalize(s, "HK") = Key(s, "HK")
    BY <2>1, <2>3, NumberInHK
  <2>6. ResolveStored(r) = Key(s, "HK")
    BY <2>1, <2>4, <2>5 DEF ResolveStored, s
  <2>7. ~ TooLong(r)
    BY <2>1 DEF TooLong
  <2>. QED  BY <2>1, <2>6, <2>7 DEF StoredAsServed, s
<1>4. CASE TooLong(r)
  <2>1. r.market = "US" /\ IsNumber(s) /\ s.prefix = "" /\ s.suffix = "" /\ s.width > 5
    BY <1>4 DEF TooLong
  <2>2. s.width \in Nat /\ s.width > 0
    BY <2>1, WidthOfNumber
  <2>. HIDE DEF s
  <2>3. MarketOf(s) = "none"
    <3>1. MarketOf(s) = IF s.width <= 5 THEN "HK" ELSE "none"
      BY <2>1, MarketOfNumber
    <3>2. s.width > 5
      BY <2>1
    <3>3. ~ (s.width <= 5)
      BY ONLY <2>2, <3>2
    <3>. QED  BY ONLY <3>1, <3>3
  <2>4. MarketMismatch(s, "US")
    BY <2>3 DEF MarketMismatch
  <2>5. ResolveStored(r) = Refused
    BY <2>1, <2>4 DEF ResolveStored, s
  <2>6. IsDigit(s)
    BY <2>1, <2>2, SomeDigit
  <2>. QED  BY <2>1, <2>5, <2>6 DEF StoredAsServed, s
<1>. QED  BY <1>1, <1>2, <1>3, <1>4 DEF Settled

LEMMA InRange ==
  ASSUME NEW a \in Nat, NEW b \in Nat, NEW d \in a .. b
  PROVE  d \in Nat /\ d >= a /\ d <= b
OBVIOUS

LEMMA WordShapes ==
  ASSUME NEW prefixes \in SUBSET Affixes, NEW suffixes \in SUBSET Affixes, NEW lowers \in SUBSET BOOLEAN,
         NEW c \in Words(prefixes, suffixes, lowers)
  PROVE  IsWord(c) /\ c.prefix \in prefixes /\ c.suffix \in suffixes
<1>1. c \in Codes /\ c.word \in Tickers /\ c.prefix \in prefixes /\ c.suffix \in suffixes
      /\ c.number = 0 /\ c.width = 0
  BY DEF Words, Codes
<1>. QED  BY <1>1 DEF IsWord

LEMMA NumberParts ==
  ASSUME NEW n \in Nat, NEW prefixes \in SUBSET Affixes, NEW suffixes \in SUBSET Affixes,
         NEW widths \in SUBSET Nat, NEW c \in NumberCodes(n, prefixes, widths, suffixes)
  PROVE  /\ c \in Codes /\ c.word = NoWord /\ c.number = n /\ c.prefix \in prefixes /\ c.suffix \in suffixes
         /\ c.width \in widths /\ IsUpper(c)
<1>1. /\ c \in Codes /\ c.word = NoWord /\ c.prefix \in prefixes /\ c.suffix \in suffixes
      /\ c.number = n /\ c.width \in widths
  BY DEF NumberCodes, Codes
<1>2. c.lower = FALSE
  BY DEF NumberCodes
<1>. QED  BY <1>1, <1>2 DEF IsUpper

LEMMA NumberShapes ==
  ASSUME NEW n \in Nat, n # 0, NEW prefixes \in SUBSET Affixes, NEW suffixes \in SUBSET Affixes,
         NEW widths \in SUBSET Nat, \A d \in widths : d >= Digits(n),
         NEW c \in NumberCodes(n, prefixes, widths, suffixes)
  PROVE  /\ IsNumber(c) /\ c.number = n /\ c.prefix \in prefixes /\ c.suffix \in suffixes
         /\ c.width \in widths /\ IsUpper(c)
<1>1. /\ c \in Codes /\ c.word = NoWord /\ c.number = n /\ c.prefix \in prefixes
      /\ c.suffix \in suffixes /\ c.width \in widths /\ IsUpper(c)
  BY NumberParts
<1>2. IsNumber(c)
  BY <1>1 DEF IsNumber
<1>. QED  BY <1>1, <1>2

\* The spellings of lists and providers are of a ticker or of an HKEX code.
LEMMA SpelledShapes ==
  ASSUME NEW c \in Spelled
  PROVE  \/ IsWord(c) /\ c.prefix = "" /\ c.suffix \in {"", "US"}
         \/ /\ IsNumber(c) /\ c.prefix = "" /\ c.suffix \in {"", "HK"}
            /\ c.number \in Numbers /\ c.width <= 5
<1>. DEFINE none == {""}
            us == {"", "US"}
            hk == {"", "HK"}
<1>1. none \in SUBSET Affixes /\ us \in SUBSET Affixes /\ hk \in SUBSET Affixes
  BY DEF Affixes
<1>2. Spelled = Words(none, us, BOOLEAN) \cup UNION {NumberCodes(n, none, Digits(n) .. 5, hk) : n \in Numbers}
  BY DEF Spelled
<1>3. /\ \A p \in none : p = ""
      /\ \A p \in us : p \in {"", "US"}
      /\ \A p \in hk : p \in {"", "HK"}
  OBVIOUS
<1>4. BOOLEAN \in SUBSET BOOLEAN
  OBVIOUS
<1>. HIDE DEF none, us, hk
<1>5. CASE c \in Words(none, us, BOOLEAN)
  <2>1. IsWord(c) /\ c.prefix \in none /\ c.suffix \in us
    BY ONLY <1>1, <1>4, <1>5, WordShapes
  <2>. QED  BY <1>3, <2>1
<1>6. CASE c \in UNION {NumberCodes(n, none, Digits(n) .. 5, hk) : n \in Numbers}
  <2>1. PICK n \in Numbers : c \in NumberCodes(n, none, Digits(n) .. 5, hk)
    BY <1>6
  <2>2. n \in Nat /\ n # 0 /\ 5 \in Nat
    BY SymbolKeysAssumption
  <2>. DEFINE widths == Digits(n) .. 5
  <2>4. c \in NumberCodes(n, none, widths, hk)
    BY <2>1
  <2>5. Digits(n) \in Nat
    BY <2>2, DigitsRange
  <2>6. \A d \in widths : d \in Nat /\ d >= Digits(n) /\ d <= 5
    BY ONLY <2>2, <2>5, InRange
  <2>3. widths \in SUBSET Nat
    BY <2>6
  <2>. HIDE DEF widths
  <2>7. /\ IsNumber(c) /\ c.number = n /\ c.prefix \in none /\ c.suffix \in hk /\ c.width \in widths
    BY ONLY <1>1, <2>2, <2>3, <2>4, <2>6, NumberShapes
  <2>. QED  BY <1>3, <2>6, <2>7
<1>. QED  BY <1>2, <1>5, <1>6

LEMMA KeyParts ==
  ASSUME NEW a, NEW b, NEW m, NEW n, Key(a, m) = Key(b, n)
  PROVE  a = b /\ m = n
BY DEF Key

\* A shown row is a ticker's or an HKEX code's.
LEMMA ShownIsKeyed ==
  ASSUME NEW r, Settled(r), Shown(r)
  PROVE  Ticker(r) \/ Listed(r)
<1>1. ASSUME Mainland(r)
      PROVE  FALSE
  <2>1. PICK w \in Tickers : r.symbol = MainWord(w)
    BY <1>1 DEF Mainland
  <2>2. r.symbol.suffix = "A"
    BY <2>1, MainFields
  <2>. QED  BY <2>2 DEF Shown
<1>2. ~ TooLong(r)
  BY SettledIsServed DEF Shown
<1>. QED  BY <1>1, <1>2 DEF Settled

\* A settled row meets its company in the calendar, and no other.
LEMMA SettledMeets ==
  ASSUME NEW r, Settled(r)
  PROVE  MeetsTheCalendar(r)
<1>. DEFINE k == Key(r.symbol, r.market)
<1>1. SUFFICES ASSUME Shown(r), NEW c \in Spelled
               PROVE  IF Meant(c) = Meant(r.symbol) THEN KeysOf(c) = {k} ELSE k \notin KeysOf(c)
  BY DEF MeetsTheCalendar
<1>2. CASE IsWord(c) /\ c.prefix = "" /\ c.suffix \in {"", "US"}
  <2>1. KeysOf(c) = {Key(Word(c.word), "US")}
    BY <1>2, WordIsKeyedOnce
  <2>2. c.word \in Tickers /\ c.number = 0
    BY <1>2 DEF IsWord
  <2>3. CASE Ticker(r)
    <3>1. PICK w \in Tickers : r.market = "US" /\ r.symbol = Word(w)
      BY <2>3 DEF Ticker
    <3>2. r.symbol.word = w /\ r.symbol.number = 0
      BY <3>1, WordFields
    <3>3. Word(c.word).word = c.word /\ Word(w).word = w
      BY <2>2, WordFields
    <3>4. Meant(c) = Meant(r.symbol) <=> c.word = w
      BY <2>2, <3>2 DEF Meant
    <3>5. k = Key(Word(w), "US")
      BY <3>1
    <3>. HIDE DEF k
    <3>6. c.word # w => k # Key(Word(c.word), "US")
      BY <3>3, <3>5, KeyParts
    <3>. QED  BY <2>1, <3>4, <3>5, <3>6
  <2>4. CASE Listed(r)
    <3>1. r.market = "HK" /\ r.symbol.word = NoWord
      BY <2>4, WidthOfNumber DEF Listed
    <3>2. Meant(c) # Meant(r.symbol)
      BY <2>2, <3>1, SymbolKeysAssumption DEF Meant
    <3>3. k # Key(Word(c.word), "US")
      BY <3>1, KeyParts
    <3>. QED  BY <2>1, <3>2, <3>3
  <2>. QED  BY <1>1, <2>3, <2>4, ShownIsKeyed
<1>3. CASE /\ IsNumber(c) /\ c.prefix = "" /\ c.suffix \in {"", "HK"}
           /\ c.number \in Numbers /\ c.width <= 5
  <2>1. KeysOf(c) = {Key(HKCode(c.number), "HK")}
    BY <1>3, NumberIsKeyedOnce
  <2>2. c.word = NoWord /\ c.number \in Nat /\ c.number # 0
    BY <1>3, WidthOfNumber
  <2>3. CASE Ticker(r)
    <3>1. PICK w \in Tickers : r.market = "US" /\ r.symbol = Word(w)
      BY <2>3 DEF Ticker
    <3>2. r.symbol.word = w
      BY <3>1, WordFields
    <3>3. Meant(c) # Meant(r.symbol)
      BY <2>2, <3>2, SymbolKeysAssumption DEF Meant
    <3>4. k # Key(HKCode(c.number), "HK")
      BY <3>1, KeyParts
    <3>. QED  BY <2>1, <3>3, <3>4
  <2>4. CASE Listed(r)
    <3>1. r.market = "HK" /\ IsNumber(r.symbol) /\ r.symbol = HKCode(r.symbol.number)
      BY <2>4 DEF Listed
    <3>2. r.symbol.word = NoWord /\ r.symbol.number \in Nat /\ r.symbol.number # 0
      BY <3>1, WidthOfNumber
    <3>3. PICK n \in Nat : n = r.symbol.number /\ n # 0
      BY <3>2
    <3>4. HKCode(n).number = n /\ HKCode(c.number).number = c.number
      BY <2>2, <3>3, HKFields
    <3>5. Meant(c) = Meant(r.symbol) <=> c.number = n
      BY <2>2, <3>2, <3>3 DEF Meant
    <3>6. k = Key(HKCode(n), "HK")
      BY <3>1, <3>3
    <3>. HIDE DEF k
    <3>7. c.number # n => k # Key(HKCode(c.number), "HK")
      BY <3>4, <3>6, KeyParts
    <3>. QED  BY <2>1, <3>5, <3>6, <3>7
  <2>. QED  BY <1>1, <2>3, <2>4, ShownIsKeyed
<1>. QED  BY <1>1, <1>2, <1>3, SpelledShapes

\* Two settled rows of one company are one row.
LEMMA SettledOnce ==
  ASSUME NEW rs, Unique(rs), NEW q \in rs, NEW r \in rs, IsRow(q), IsRow(r), Settled(q), Settled(r),
         ~ Foreign(q), ~ Foreign(r), Meant(q.symbol) = Meant(r.symbol)
  PROVE  q = r
<1>1. q.symbol.word = r.symbol.word /\ q.symbol.number = r.symbol.number
  BY DEF Meant
<1>2. ASSUME NEW s, Settled(s), ~ Foreign(s)
      PROVE  Ticker(s) \/ Listed(s)
  <2>1. ASSUME Mainland(s)
        PROVE  FALSE
    <3>1. PICK w \in Tickers : s.symbol = MainWord(w)
      BY <2>1 DEF Mainland
    <3>2. s.symbol.suffix = "A"
      BY <3>1, MainFields
    <3>. QED  BY <1>2, <3>2 DEF Foreign
  <2>2. ~ TooLong(s)
    BY <1>2 DEF Foreign, TooLong
  <2>. QED  BY <1>2, <2>1, <2>2 DEF Settled
<1>3. ASSUME NEW s, NEW t, Ticker(s), Listed(t)
      PROVE  s.symbol.word # t.symbol.word
  <2>1. s.symbol.word \in Tickers
    BY <1>3 DEF Ticker
  <2>2. t.symbol.word = NoWord
    BY <1>3, WidthOfNumber DEF Listed
  <2>. QED  BY <2>1, <2>2, SymbolKeysAssumption
<1>4. \/ Ticker(q) /\ Ticker(r)
      \/ Listed(q) /\ Listed(r)
  BY <1>1, <1>2, <1>3
<1>5. q.symbol = r.symbol /\ q.market = r.market
  BY <1>1, <1>4 DEF Ticker, Listed
<1>6. q.id = r.id
  BY <1>5 DEF Unique
<1>. QED  BY <1>5, <1>6 DEF IsRow

\* Rows made from keys.
LEMMA RowParts ==
  ASSUME NEW id, NEW symbol, NEW market
  PROVE  LET r == Row(id, Key(symbol, market)) IN
         r.id = id /\ r.symbol = symbol /\ r.market = market /\ IsRow(r)
BY DEF Row, Key, IsRow

LEMMA TickerRow ==
  ASSUME NEW id, NEW w \in Tickers
  PROVE  /\ Settled(Row(id, Key(Word(w), "US"))) /\ IsRow(Row(id, Key(Word(w), "US")))
         /\ Settled(Row(id, Key(MainWord(w), "US"))) /\ IsRow(Row(id, Key(MainWord(w), "US")))
<1>. DEFINE s == Word(w)
            t == MainWord(w)
<1>1. s.word = w /\ t.word = w
  BY WordFields, MainFields
<1>2. /\ Row(id, Key(s, "US")).symbol = s /\ Row(id, Key(s, "US")).market = "US"
      /\ Row(id, Key(t, "US")).symbol = t /\ Row(id, Key(t, "US")).market = "US"
      /\ IsRow(Row(id, Key(s, "US"))) /\ IsRow(Row(id, Key(t, "US")))
  BY RowParts
<1>3. Ticker(Row(id, Key(s, "US"))) /\ Mainland(Row(id, Key(t, "US")))
  BY <1>1, <1>2 DEF Ticker, Mainland
<1>. QED  BY <1>2, <1>3 DEF Settled

LEMMA ListedRow ==
  ASSUME NEW id, NEW n \in Nat, n # 0
  PROVE  /\ Listed(Row(id, Key(HKCode(n), "HK"))) /\ Settled(Row(id, Key(HKCode(n), "HK")))
         /\ IsRow(Row(id, Key(HKCode(n), "HK")))
<1>. DEFINE s == HKCode(n)
            r == Row(id, Key(s, "HK"))
<1>1. IsNumber(s) /\ s.number = n
  BY HKFields
<1>2. r.symbol = s /\ r.market = "HK" /\ IsRow(r)
  BY RowParts
<1>3. s = HKCode(s.number)
  BY <1>1
<1>. HIDE DEF s
<1>4. Listed(r)
  BY <1>1, <1>2, <1>3 DEF Listed
<1>. QED  BY <1>2, <1>4 DEF Settled, s

\* What a user types is refused, or is written as a settled row.
LEMMA TypedSettles ==
  ASSUME NEW c \in Typed, NEW m \in {"US", "HK"}, Written(c, m) # Refused, NEW id
  PROVE  Settled(Row(id, Written(c, m))) /\ IsRow(Row(id, Written(c, m)))
<1>. DEFINE bare == {""}
            home == {"", "US", "A"}
            us == {"US"}
            hk == {"", "HK", "SZ"}
            far == {"US", "HK"}
            five == {5}
            codes == UNION {NumberCodes(n, {""}, Digits(n) .. 6, {"", "HK", "SZ"})
                            \cup NumberCodes(n, {"US", "HK"}, {5}, {""}) : n \in Numbers}
<1>1. /\ bare \in SUBSET Affixes /\ home \in SUBSET Affixes /\ us \in SUBSET Affixes
      /\ hk \in SUBSET Affixes /\ far \in SUBSET Affixes /\ {FALSE} \in SUBSET BOOLEAN
  BY DEF Affixes
<1>2. Typed = Words(bare, home, {FALSE}) \cup Words(us, bare, {FALSE}) \cup codes
  BY DEF Typed
<1>3. /\ \A p \in bare : p = ""
      /\ \A p \in home : p \in {"", "US", "A"}
      /\ \A p \in us : p = "US"
      /\ \A p \in hk : p \in {"", "HK", "SZ"}
      /\ \A p \in far : p \in {"US", "HK"}
  OBVIOUS
<1>4. ~ MarketMismatch(c, m) /\ Written(c, m) = Normalize(c, m)
  BY DEF Written
<1>10. five \in SUBSET Nat /\ \A d \in five : d = 5
  OBVIOUS
<1>. HIDE DEF bare, home, us, hk, far, five, codes
<1>5. ASSUME IsWord(c), \/ c.prefix = "" /\ c.suffix \in {"", "US", "A"}
                        \/ c.prefix = "US" /\ c.suffix = ""
      PROVE  Settled(Row(id, Written(c, m))) /\ IsRow(Row(id, Written(c, m)))
  <2>1. c \in Codes /\ c.width = 0 /\ c.word \in Tickers
    BY <1>5 DEF IsWord
  <2>2. m # "HK"
    <3>1. ~ IsHkTicker(c)
      BY <2>1, NoDigit DEF IsHkTicker
    <3>. QED  BY <1>4, <1>5, <3>1 DEF MarketMismatch
  <2>3. Normalize(c, "US") = Key(IF c.suffix = "A" THEN MainWord(c.word) ELSE Word(c.word), "US")
    BY <1>5, <2>1, SpellingInUS
  <2>4. PICK w \in Tickers : w = c.word
    BY <2>1
  <2>5. m = "US"
    BY <2>2
  <2>6. Written(c, m) = Key(MainWord(w), "US") \/ Written(c, m) = Key(Word(w), "US")
    BY <1>4, <2>3, <2>4, <2>5
  <2>. QED  BY <2>6, TickerRow
<1>6. CASE c \in Words(bare, home, {FALSE})
  <2>1. IsWord(c) /\ c.prefix \in bare /\ c.suffix \in home
    BY ONLY <1>1, <1>6, WordShapes
  <2>. QED  BY <1>3, <1>5, <2>1
<1>7. CASE c \in Words(us, bare, {FALSE})
  <2>1. IsWord(c) /\ c.prefix \in us /\ c.suffix \in bare
    BY ONLY <1>1, <1>7, WordShapes
  <2>. QED  BY <1>3, <1>5, <2>1
<1>11. ASSUME c \in codes
       PROVE  \E n \in Numbers : \/ c \in NumberCodes(n, bare, Digits(n) .. 6, hk)
                                 \/ c \in NumberCodes(n, far, five, bare)
  BY <1>11 DEF codes, bare, hk, far, five
<1>8. ASSUME NEW n \in Numbers, c \in NumberCodes(n, bare, Digits(n) .. 6, hk)
      PROVE  Settled(Row(id, Written(c, m))) /\ IsRow(Row(id, Written(c, m)))
  <2>2. n \in Nat /\ n # 0 /\ 6 \in Nat
    BY SymbolKeysAssumption
  <2>. DEFINE widths == Digits(n) .. 6
  <2>4. c \in NumberCodes(n, bare, widths, hk)
    BY <1>8
  <2>5. Digits(n) \in Nat
    BY <2>2, DigitsRange
  <2>6. \A d \in widths : d \in Nat /\ d >= Digits(n)
    BY ONLY <2>2, <2>5, InRange
  <2>7. widths \in SUBSET Nat
    BY <2>6
  <2>. HIDE DEF widths
  <2>8. IsNumber(c) /\ c.prefix \in bare /\ c.suffix \in hk
    BY ONLY <1>1, <2>2, <2>4, <2>6, <2>7, NumberShapes
  <2>9. c.prefix = "" /\ c.suffix \in {"", "HK", "SZ"}
    BY <1>3, <2>8
  <2>10. c.number \in Nat /\ c.number # 0
    BY <2>8, WidthOfNumber
  <2>11. CASE m = "HK"
    <3>1. c.suffix \in {"", "HK"}
      BY <1>4, <2>9, <2>11 DEF MarketMismatch
    <3>2. Written(c, m) = Key(HKCode(c.number), "HK")
      BY <1>4, <2>8, <2>9, <2>11, <3>1, NumberInHK
    <3>. QED  BY <2>10, <3>2, ListedRow
  <2>12. CASE m = "US"
    <3>1. c.suffix = "SZ" => MarketOf(c) = "none"
      BY <2>9 DEF MarketOf
    <3>2. MarketOf(c) # "US"
      BY <2>8, <2>9, <3>1, MarketOfNumber
    <3>. QED  BY <1>4, <2>12, <3>2 DEF MarketMismatch
  <2>. QED  BY <2>11, <2>12
<1>9. ASSUME NEW n \in Numbers, c \in NumberCodes(n, far, five, bare)
      PROVE  Settled(Row(id, Written(c, m))) /\ IsRow(Row(id, Written(c, m)))
  <2>2. n \in Nat
    BY SymbolKeysAssumption
  <2>3. c \in Codes /\ c.prefix \in far /\ c.suffix \in bare /\ c.width \in five
    BY ONLY <1>1, <1>9, <1>10, <2>2, NumberParts
  <2>5. c.prefix \in {"US", "HK"} /\ c.suffix = ""
    BY <1>3, <2>3
  <2>6. m = "US" /\ c.prefix = "US"
    BY <1>4, <2>5 DEF MarketMismatch, MarketOf
  <2>7. c.width > 0
    <3>1. c.width = 5
      BY <1>10, <2>3
    <3>. QED  BY ONLY <3>1
  <2>8. Normalize(c, "US") = Refused
    BY <2>3, <2>5, <2>6, <2>7, SpellingInUS
  <2>. QED  BY <1>4, <2>6, <2>8
<1>. QED  BY <1>2, <1>6, <1>7, <1>8, <1>9, <1>11

----------------------------------------------------------------------------
(* SymbolKeys: the migration                                               *)

\* The rows a start may find: words and numbers under US as older releases took them, rows as this
\* release leaves them.
WordRow(r) ==
  /\ UsMarket(r) /\ IsWord(r.symbol)
  /\ \/ r.symbol.prefix = "" /\ r.symbol.suffix \in {"", "US", "A"}
     \/ r.symbol.prefix = "US" /\ r.symbol.suffix = ""
NumberRow(r) == UsMarket(r) /\ IsNumber(r.symbol) /\ r.symbol.prefix \in {"", "US"} /\ r.symbol.suffix = ""
Acceptable(r) == WordRow(r) \/ NumberRow(r) \/ Listed(r)

\* A number left under US by the first half of the migration.
Plain(r) == r.market = "US" /\ IsNumber(r.symbol) /\ r.symbol.prefix = "" /\ r.symbol.suffix = ""
Converged(r) == Ticker(r) \/ Mainland(r) \/ Plain(r) \/ Listed(r)

LEMMA SettledIsAcceptable ==
  ASSUME NEW r, Settled(r)
  PROVE  Acceptable(r)
<1>1. CASE Ticker(r)
  <2>1. PICK w \in Tickers : r.market = "US" /\ r.symbol = Word(w)
    BY <1>1 DEF Ticker
  <2>2. IsWord(r.symbol) /\ r.symbol.prefix = "" /\ r.symbol.suffix = ""
    BY <2>1, WordFields
  <2>. QED  BY <2>1, <2>2 DEF Acceptable, WordRow, UsMarket
<1>2. CASE Mainland(r)
  <2>1. PICK w \in Tickers : r.market = "US" /\ r.symbol = MainWord(w)
    BY <1>2 DEF Mainland
  <2>2. IsWord(r.symbol) /\ r.symbol.prefix = "" /\ r.symbol.suffix = "A"
    BY <2>1, MainFields
  <2>. QED  BY <2>1, <2>2 DEF Acceptable, WordRow, UsMarket
<1>3. CASE Listed(r)
  BY <1>3 DEF Acceptable
<1>4. CASE TooLong(r)
  BY <1>4 DEF TooLong, Acceptable, NumberRow, UsMarket
<1>. QED  BY <1>1, <1>2, <1>3, <1>4 DEF Settled

LEMMA RankedParts ==
  ASSUME NEW r, r.symbol \in Codes
  PROVE  /\ Upper(RankKey(r)) \in Codes /\ Upper(RankKey(r)).word = r.symbol.word
         /\ Upper(RankKey(r)).number = r.symbol.number /\ Upper(RankKey(r)).width = r.symbol.width
         /\ IsUpper(Upper(RankKey(r)))
         /\ r.symbol.prefix = "US" => Upper(RankKey(r)).prefix = "" /\ Upper(RankKey(r)).suffix = r.symbol.suffix
         /\ r.symbol.prefix = "" =>
              /\ Upper(RankKey(r)).prefix = ""
              /\ Upper(RankKey(r)).suffix = IF r.symbol.suffix = "US" THEN "" ELSE r.symbol.suffix
<1>. DEFINE k == RankKey(r)
<1>1. /\ k \in Codes /\ k.word = r.symbol.word /\ k.number = r.symbol.number /\ k.width = r.symbol.width
      /\ r.symbol.prefix = "US" => k.prefix = "" /\ k.suffix = r.symbol.suffix
      /\ r.symbol.prefix = "" => k.prefix = "" /\ k.suffix = IF r.symbol.suffix = "US" THEN "" ELSE r.symbol.suffix
  <2>1. CASE r.symbol.prefix = "US"
    <3>1. k = [r.symbol EXCEPT !.prefix = ""]
      BY <2>1 DEF RankKey
    <3>. HIDE DEF k
    <3>. QED  BY <2>1, <3>1 DEF Codes, Affixes
  <2>2. CASE r.symbol.prefix # "US" /\ r.symbol.suffix = "US"
    <3>1. k = [r.symbol EXCEPT !.suffix = ""]
      BY <2>2 DEF RankKey
    <3>. HIDE DEF k
    <3>. QED  BY <2>2, <3>1 DEF Codes, Affixes
  <2>3. CASE r.symbol.prefix # "US" /\ r.symbol.suffix # "US"
    <3>1. k = Upper(r.symbol)
      BY <2>3 DEF RankKey
    <3>. HIDE DEF k
    <3>. QED  BY <2>3, <3>1, UpperFields
  <2>. QED  BY <2>1, <2>2, <2>3
<1>. HIDE DEF k
<1>2. /\ Upper(k) \in Codes /\ Upper(k).prefix = k.prefix /\ Upper(k).word = k.word /\ Upper(k).number = k.number
      /\ Upper(k).width = k.width /\ Upper(k).suffix = k.suffix /\ IsUpper(Upper(k))
  BY <1>1, UpperFields
<1>. QED  BY <1>1, <1>2 DEF k

LEMMA UndecoratedConverges ==
  ASSUME NEW r, WordRow(r) \/ NumberRow(r)
  PROVE  Converged(Undecorated(r)) /\ IsRow(Undecorated(r)) /\ Undecorated(r).id = r.id
<1>. DEFINE u == Undecorated(r)
            c == Upper(RankKey(r))
<1>1. u.id = r.id /\ u.symbol = c /\ u.market = "US" /\ IsRow(u)
  BY RowParts DEF Undecorated
<1>2. r.symbol \in Codes
  BY DEF WordRow, NumberRow, IsWord, IsNumber
<1>3. /\ c \in Codes /\ c.word = r.symbol.word /\ c.number = r.symbol.number /\ c.width = r.symbol.width
      /\ IsUpper(c)
      /\ r.symbol.prefix = "US" => c.prefix = "" /\ c.suffix = r.symbol.suffix
      /\ r.symbol.prefix = "" => c.prefix = "" /\ c.suffix = IF r.symbol.suffix = "US" THEN "" ELSE r.symbol.suffix
  BY <1>2, RankedParts
<1>. HIDE DEF c, u
<1>4. CASE WordRow(r)
  <2>1. r.symbol.word \in Tickers /\ r.symbol.number = 0 /\ r.symbol.width = 0
    BY <1>4 DEF WordRow, IsWord
  <2>2. PICK w \in Tickers : w = r.symbol.word
    BY <2>1
  <2>3. c.prefix = "" /\ c.suffix \in {"", "A"}
    BY <1>3, <1>4 DEF WordRow
  <2>4. CASE c.suffix = ""
    <3>1. /\ Word(w) \in Codes /\ Word(w).word = w /\ Word(w).prefix = "" /\ Word(w).suffix = ""
          /\ Word(w).number = 0 /\ Word(w).width = 0 /\ IsUpper(Word(w))
      BY WordFields
    <3>3. c.word = w /\ c.number = 0 /\ c.width = 0 /\ c.prefix = ""
      BY <1>3, <2>1, <2>2, <2>3
    <3>4. c = Word(w)
      BY ONLY <1>3, <2>4, <3>1, <3>3, SameCode
    <3>5. c = Word(c.word)
      BY <3>3, <3>4
    <3>2. Ticker(u)
      BY <1>1, <3>3, <3>5 DEF Ticker
    <3>. QED  BY <1>1, <3>2 DEF Converged, u
  <2>5. CASE c.suffix = "A"
    <3>1. /\ MainWord(w) \in Codes /\ MainWord(w).word = w /\ MainWord(w).prefix = "" /\ MainWord(w).suffix = "A"
          /\ MainWord(w).number = 0 /\ MainWord(w).width = 0 /\ IsUpper(MainWord(w))
      BY MainFields
    <3>3. c.word = w /\ c.number = 0 /\ c.width = 0 /\ c.prefix = ""
      BY <1>3, <2>1, <2>2, <2>3
    <3>4. c = MainWord(w)
      BY ONLY <1>3, <2>5, <3>1, <3>3, SameCode
    <3>5. c = MainWord(c.word)
      BY <3>3, <3>4
    <3>2. Mainland(u)
      BY <1>1, <3>3, <3>5 DEF Mainland
    <3>. QED  BY <1>1, <3>2 DEF Converged, u
  <2>. QED  BY <2>3, <2>4, <2>5
<1>5. CASE NumberRow(r)
  <2>1. IsNumber(c)
    BY <1>3, <1>5 DEF NumberRow, IsNumber
  <2>2. c.prefix = "" /\ c.suffix = ""
    BY <1>3, <1>5 DEF NumberRow
  <2>3. Plain(u)
    BY <1>1, <2>1, <2>2 DEF Plain
  <2>. QED  BY <1>1, <2>3 DEF Converged, u
<1>. QED  BY <1>4, <1>5

\* After the first half of the migration every row is a settled one or a number under US.
LEMMA UsConverges ==
  ASSUME NEW rs, \A r \in rs : IsRow(r) /\ Acceptable(r), NEW u \in UsConverged(rs)
  PROVE  Converged(u) /\ IsRow(u) /\ \E r \in rs : r.id = u.id
<1>. DEFINE us == {r \in rs : UsMarket(r)}
<1>1. u \in rs \ us \/ \E r \in FirstOfEach(us, RankKey) : u = Undecorated(r)
  BY DEF UsConverged
<1>2. CASE u \in rs \ us
  BY <1>2 DEF Acceptable, WordRow, NumberRow, Converged
<1>3. ASSUME NEW r \in FirstOfEach(us, RankKey), u = Undecorated(r)
      PROVE  Converged(u) /\ IsRow(u) /\ \E q \in rs : q.id = u.id
  <2>1. r \in rs /\ UsMarket(r)
    BY <1>3 DEF FirstOfEach
  <2>2. ~ Listed(r)
    BY <2>1 DEF Listed, UsMarket
  <2>3. WordRow(r) \/ NumberRow(r)
    BY <2>1, <2>2 DEF Acceptable
  <2>. QED  BY <1>3, <2>1, <2>3, UndecoratedConverges
<1>. QED  BY <1>1, <1>2, <1>3

\* LPAD makes a listed code of a number of at most five digits (of the first four, if it has five).
LEMMA LpadIsListed ==
  ASSUME NEW c, IsNumber(c), c.width <= 5
  PROVE  \E n \in Nat : n # 0 /\ Lpad(c) = HKCode(n)
<1>1. c.number \in Nat /\ c.number # 0 /\ c.width \in Nat /\ c.width >= Digits(c.number)
  BY WidthOfNumber
<1>. DEFINE n == IF c.number < 10000 THEN c.number ELSE c.number \div 10
<1>2. c.number < 100000
  <2>1. ~ (6 <= 5)
    OBVIOUS
  <2>2. Digits(c.number) <= 5
    BY <1>1, DigitsRange
  <2>. QED  BY <1>1, <2>2 DEF Digits
<1>3. n \in Nat /\ n # 0 /\ n < 10000
  BY <1>1, <1>2
<1>4. Lpad(c) = Code("", NoWord, n, 4, "HK", FALSE)
  BY DEF Lpad
<1>. HIDE DEF n
<1>5. Larger(4, Digits(n)) = 4
  BY <1>3 DEF Larger, Digits
<1>6. Lpad(c) = HKCode(n)
  BY <1>4, <1>5 DEF HKCode
<1>. QED  BY <1>3, <1>6

\* After the second half every row is a settled one.
LEMMA GhostsSettle ==
  ASSUME NEW rs, \A r \in rs : IsRow(r) /\ Converged(r), NEW u \in Ghosted(rs)
  PROVE  Settled(u) /\ IsRow(u) /\ \E r \in rs : r.id = u.id
<1>. DEFINE kept == {r \in FirstOfEach(Ghosts(rs), GhostKey) : GhostKey(r) \notin HkKeys(rs)}
<1>1. u \in rs \ Ghosts(rs) \/ \E r \in kept : u = Row(r.id, Key(GhostKey(r), "HK"))
  BY DEF Ghosted
<1>2. CASE u \in rs \ Ghosts(rs)
  <2>1. IsRow(u) /\ Converged(u)
    BY <1>2
  <2>2. CASE Plain(u)
    <3>1. u.market = "US" /\ IsNumber(u.symbol) /\ u.symbol.prefix = "" /\ u.symbol.suffix = ""
      BY <2>2 DEF Plain
    <3>2. ~ IsHkTicker(u.symbol)
      BY <1>2, <3>1 DEF Ghosts, UsMarket
    <3>3. u.symbol.width \in Nat /\ u.symbol.width > 0
      BY <3>1, WidthOfNumber
    <3>4. ~ (u.symbol.width <= 5)
      BY <3>1, <3>2, <3>3, SomeDigit
    <3>5. u.symbol.width > 5
      BY ONLY <3>3, <3>4
    <3>6. TooLong(u)
      BY <3>1, <3>5 DEF TooLong
    <3>. QED  BY <1>2, <2>1, <3>6 DEF Settled
  <2>. QED  BY <1>2, <2>1, <2>2 DEF Converged, Settled
<1>3. ASSUME NEW r \in kept, u = Row(r.id, Key(GhostKey(r), "HK"))
      PROVE  Settled(u) /\ IsRow(u) /\ \E q \in rs : q.id = u.id
  <2>1. r \in rs /\ UsMarket(r) /\ IsHkTicker(r.symbol)
    BY <1>3 DEF FirstOfEach, Ghosts
  <2>2. IsDigit(r.symbol) /\ r.symbol.width <= 5 /\ r.symbol.width > 0
    BY <2>1 DEF IsHkTicker, IsDigit
  <2>3. Plain(r)
    <3>1. ASSUME Ticker(r)
          PROVE  FALSE
      <4>1. PICK w \in Tickers : r.symbol = Word(w)
        BY <3>1 DEF Ticker
      <4>2. r.symbol.width = 0
        BY <4>1, WordFields
      <4>. QED  BY ONLY <2>2, <4>2
    <3>2. ASSUME Mainland(r)
          PROVE  FALSE
      <4>1. PICK w \in Tickers : r.symbol = MainWord(w)
        BY <3>2 DEF Mainland
      <4>2. r.symbol.width = 0
        BY <4>1, MainFields
      <4>. QED  BY ONLY <2>2, <4>2
    <3>3. ~ Listed(r)
      BY <2>1 DEF Listed, UsMarket
    <3>. QED  BY <2>1, <3>1, <3>2, <3>3 DEF Converged
  <2>4. IsNumber(r.symbol) /\ r.symbol.width <= 5
    BY <2>2, <2>3 DEF Plain
  <2>5. PICK n \in Nat : n # 0 /\ Lpad(r.symbol) = HKCode(n)
    BY <2>4, LpadIsListed
  <2>6. u = Row(r.id, Key(HKCode(n), "HK"))
    BY <1>3, <2>5 DEF GhostKey
  <2>7. Settled(u) /\ IsRow(u)
    BY <2>5, <2>6, ListedRow
  <2>8. u.id = r.id
    BY <2>6, RowParts
  <2>. QED  BY <2>1, <2>7, <2>8
<1>. QED  BY <1>1, <1>2, <1>3

----------------------------------------------------------------------------
(* SymbolKeys: the watchlist's invariant                                   *)

IdsDiffer(rs) == \A q, r \in rs : q.id = r.id => q = r
KeyRows(rs) == (\A r \in rs : IsRow(r)) /\ IdsDiffer(rs) /\ IsFiniteSet(rs)

\* The rows are as a start may find them and, once it ran, as it leaves them.
KeysInvariant ==
  /\ KeyRows(rows) /\ Unique(rows)
  /\ \A r \in rows : Acceptable(r)
  /\ started => \A r \in rows : Settled(r)
  /\ edits \in 0 .. MaxKeyEdits /\ started \in BOOLEAN /\ failed \in BOOLEAN

\* Rows rewritten under their ids.
LEMMA RewrittenRows ==
  ASSUME NEW rs, KeyRows(rs), NEW gone, NEW new, IsFiniteSet(new), IdsDiffer(new),
         \A u \in new : IsRow(u) /\ \E r \in rs : r \in gone /\ r.id = u.id
  PROVE  KeyRows((rs \ gone) \cup new)
<1>1. IsFiniteSet(rs \ gone)
  <2>1. rs \ gone \in SUBSET rs
    OBVIOUS
  <2>. QED  BY <2>1, FS_Subset DEF KeyRows
<1>2. IsFiniteSet((rs \ gone) \cup new)
  BY <1>1, FS_Union
<1>3. IdsDiffer((rs \ gone) \cup new)
  BY DEF KeyRows, IdsDiffer
<1>4. \A r \in (rs \ gone) \cup new : IsRow(r)
  BY DEF KeyRows
<1>. QED  BY <1>2, <1>3, <1>4 DEF KeyRows

LEMMA UsConvergedRows ==
  ASSUME NEW rs, KeyRows(rs), \A r \in rs : Acceptable(r)
  PROVE  KeyRows(UsConverged(rs)) /\ \A r \in UsConverged(rs) : Converged(r)
<1>. DEFINE us == {r \in rs : UsMarket(r)}
            kept == FirstOfEach(us, RankKey)
            f == [r \in kept |-> Undecorated(r)]
<1>1. us \in SUBSET rs /\ kept \in SUBSET us
  BY DEF FirstOfEach
<1>2. ASSUME NEW r \in kept
      PROVE  Undecorated(r).id = r.id /\ IsRow(Undecorated(r))
  <2>1. r \in rs /\ UsMarket(r)
    BY <1>1, <1>2
  <2>2. ~ Listed(r)
    BY <2>1 DEF Listed, UsMarket
  <2>. QED  BY <2>1, <2>2, UndecoratedConverges DEF Acceptable
<1>3. UsConverged(rs) = (rs \ us) \cup {Undecorated(r) : r \in kept}
  BY DEF UsConverged
<1>. DEFINE new == {Undecorated(r) : r \in kept}
<1>4. IsFiniteSet(new)
  <2>1. f \in Surjection(kept, new)
    BY DEF Surjection
  <2>2. kept \in SUBSET rs
    BY <1>1
  <2>3. IsFiniteSet(kept)
    BY <2>2, FS_Subset DEF KeyRows
  <2>. QED  BY <2>1, <2>3, FS_Surjection
<1>5. \A u \in new : \E r \in kept : u = Undecorated(r)
  OBVIOUS
<1>. HIDE DEF us, kept, f, new
<1>6. IdsDiffer(new)
  BY <1>1, <1>2, <1>5 DEF KeyRows, IdsDiffer
<1>7. KeyRows((rs \ us) \cup new)
  BY <1>1, <1>2, <1>4, <1>5, <1>6, RewrittenRows
<1>8. \A r \in rs : IsRow(r) /\ Acceptable(r)
  BY DEF KeyRows
<1>9. \A r \in UsConverged(rs) : Converged(r)
  BY <1>8, UsConverges
<1>. QED  BY <1>3, <1>7, <1>9 DEF new

LEMMA GhostedRows ==
  ASSUME NEW rs, KeyRows(rs), \A r \in rs : Converged(r)
  PROVE  KeyRows(Ghosted(rs)) /\ \A r \in Ghosted(rs) : Settled(r)
<1>. DEFINE ghosts == Ghosts(rs)
            kept == {r \in FirstOfEach(ghosts, GhostKey) : GhostKey(r) \notin HkKeys(rs)}
            f == [r \in kept |-> Row(r.id, Key(GhostKey(r), "HK"))]
<1>1. ghosts \in SUBSET rs /\ kept \in SUBSET ghosts
  BY DEF FirstOfEach, Ghosts
<1>2. Ghosted(rs) = (rs \ ghosts) \cup {Row(r.id, Key(GhostKey(r), "HK")) : r \in kept}
  BY DEF Ghosted
<1>3. ASSUME NEW r \in kept
      PROVE  f[r] = Row(r.id, Key(GhostKey(r), "HK")) /\ f[r].id = r.id /\ IsRow(f[r])
  BY RowParts
<1>. DEFINE new == {Row(r.id, Key(GhostKey(r), "HK")) : r \in kept}
<1>4. IsFiniteSet(new)
  <2>1. f \in Surjection(kept, new)
    BY DEF Surjection
  <2>2. kept \in SUBSET rs
    BY <1>1
  <2>3. IsFiniteSet(kept)
    BY <2>2, FS_Subset DEF KeyRows
  <2>. QED  BY <2>1, <2>3, FS_Surjection
<1>5. \A u \in new : \E r \in kept : u = f[r]
  OBVIOUS
<1>. HIDE DEF ghosts, kept, f, new
<1>9. IdsDiffer(new)
  BY <1>1, <1>3, <1>5 DEF KeyRows, IdsDiffer
<1>6. KeyRows((rs \ ghosts) \cup new)
  BY <1>1, <1>3, <1>4, <1>5, <1>9, RewrittenRows
<1>7. \A r \in rs : IsRow(r) /\ Converged(r)
  BY DEF KeyRows
<1>8. \A r \in Ghosted(rs) : Settled(r)
  BY <1>7, GhostsSettle
<1>. QED  BY <1>2, <1>6, <1>8 DEF new

\* There is an id for a new row.
LEMMA SomeIdIsFree ==
  ASSUME NEW rs, IsFiniteSet(rs)
  PROVE  \E i \in 1 .. Cardinality(rs) + 1 : \A r \in rs : r.id # i
<1>. DEFINE n == Cardinality(rs)
            ids == {r.id : r \in rs}
            f == [r \in rs |-> r.id]
<1>1. SUFFICES ASSUME \A i \in 1 .. n + 1 : \E r \in rs : r.id = i
               PROVE  FALSE
  OBVIOUS
<1>2. n \in Nat
  BY FS_CardinalityType
<1>3. f \in Surjection(rs, ids)
  BY DEF Surjection
<1>4. IsFiniteSet(ids) /\ Cardinality(ids) <= n
  BY <1>3, FS_Surjection
<1>5. (1 .. n + 1) \in SUBSET ids
  BY <1>1
<1>6. Cardinality(1 .. n + 1) <= Cardinality(ids)
  BY <1>4, <1>5, FS_Subset
<1>7. Cardinality(1 .. n + 1) = n + 1
  BY <1>2, FS_Interval
<1>8. Cardinality(ids) \in Nat
  BY <1>4, FS_CardinalityType
<1>. QED  BY ONLY <1>2, <1>4, <1>6, <1>7, <1>8

\* A new row under a key that no row has.
LEMMA AddedRow ==
  ASSUME NEW rs, KeyRows(rs), Unique(rs), NEW key, key = Key(key.symbol, key.market), NEW i,
         \A r \in rs : r.id # i, ~ \E r \in rs : Key(r.symbol, r.market) = key
  PROVE  KeyRows(rs \cup {Row(i, key)}) /\ Unique(rs \cup {Row(i, key)})
<1>. DEFINE new == Row(i, key)
<1>1. new.id = i /\ new.symbol = key.symbol /\ new.market = key.market /\ IsRow(new)
  BY RowParts
<1>. HIDE DEF new
<1>2. IsFiniteSet(rs \cup {new})
  BY FS_AddElement DEF KeyRows
<1>3. KeyRows(rs \cup {new})
  BY <1>1, <1>2 DEF KeyRows, IdsDiffer
<1>4. \A r \in rs : ~ (r.symbol = new.symbol /\ r.market = new.market)
  BY <1>1
<1>5. Unique(rs \cup {new})
  BY <1>4 DEF Unique
<1>. QED  BY <1>3, <1>5 DEF new

LEMMA PartOfWatchlist ==
  ASSUME NEW rs, KeyRows(rs), Unique(rs), NEW qs \in SUBSET rs
  PROVE  KeyRows(qs) /\ Unique(qs)
<1>1. IsFiniteSet(qs)
  BY FS_Subset DEF KeyRows
<1>. QED  BY <1>1 DEF KeyRows, Unique, IdsDiffer

\* What older releases accepted.
LEMMA LegacyCodeShapes ==
  ASSUME NEW c \in LegacyCodes
  PROVE  \/ /\ IsWord(c)
            /\ \/ c.prefix = "" /\ c.suffix \in {"", "US", "A"}
               \/ c.prefix = "US" /\ c.suffix = ""
         \/ IsNumber(c) /\ c.prefix \in {"", "US"} /\ c.suffix = ""
<1>. DEFINE bare == {""}
            home == {"", "US"}
            us == {"US"}
            codes == UNION {NumberCodes(n, {""}, Digits(n) .. Larger(5, Digits(n)), {""}) : n \in Numbers}
<1>1. /\ bare \in SUBSET Affixes /\ home \in SUBSET Affixes /\ us \in SUBSET Affixes
      /\ BOOLEAN \in SUBSET BOOLEAN
  BY DEF Affixes
<1>2. LegacyCodes = Words(bare, home, BOOLEAN) \cup Words(us, bare, BOOLEAN) \cup codes
  BY DEF LegacyCodes
<1>3. /\ \A p \in bare : p = ""
      /\ \A p \in home : p \in {"", "US"}
      /\ \A p \in us : p = "US"
  OBVIOUS
<1>4. ASSUME c \in codes
      PROVE  \E n \in Numbers : c \in NumberCodes(n, bare, Digits(n) .. Larger(5, Digits(n)), bare)
  BY <1>4 DEF codes, bare
<1>. HIDE DEF bare, home, us, codes
<1>5. CASE c \in Words(bare, home, BOOLEAN)
  <2>1. IsWord(c) /\ c.prefix \in bare /\ c.suffix \in home
    BY ONLY <1>1, <1>5, WordShapes
  <2>. QED  BY <1>3, <2>1
<1>6. CASE c \in Words(us, bare, BOOLEAN)
  <2>1. IsWord(c) /\ c.prefix \in us /\ c.suffix \in bare
    BY ONLY <1>1, <1>6, WordShapes
  <2>. QED  BY <1>3, <2>1
<1>7. CASE c \in codes
  <2>1. PICK n \in Numbers : c \in NumberCodes(n, bare, Digits(n) .. Larger(5, Digits(n)), bare)
    BY <1>4, <1>7
  <2>2. n \in Nat /\ n # 0
    BY SymbolKeysAssumption
  <2>. DEFINE last == Larger(5, Digits(n))
              widths == Digits(n) .. last
  <2>3. Digits(n) \in Nat /\ last \in Nat
    BY <2>2, DigitsRange DEF Larger
  <2>4. c \in NumberCodes(n, bare, widths, bare)
    BY <2>1
  <2>. HIDE DEF last
  <2>5. \A d \in widths : d \in Nat /\ d >= Digits(n)
    BY ONLY <2>3, InRange
  <2>6. widths \in SUBSET Nat
    BY <2>5
  <2>. HIDE DEF widths
  <2>7. IsNumber(c) /\ c.prefix \in bare /\ c.suffix \in bare
    BY ONLY <1>1, <2>2, <2>4, <2>5, <2>6, NumberShapes
  <2>. QED  BY <1>3, <2>7
<1>. QED  BY <1>2, <1>5, <1>6, <1>7

LEMMA KeyOf ==
  ASSUME NEW S, NEW M, NEW key \in [symbol : S, market : M]
  PROVE  key = Key(key.symbol, key.market) /\ key.symbol \in S /\ key.market \in M
BY DEF Key

LEMMA PrefixedShapes ==
  ASSUME NEW c \in PrefixedCodes
  PROVE  IsNumber(c) /\ c.prefix = "US" /\ c.suffix = ""
<1>. DEFINE us == {"US"}
            five == {5}
            bare == {""}
<1>1. us \in SUBSET Affixes /\ bare \in SUBSET Affixes /\ five \in SUBSET Nat
  BY DEF Affixes
<1>2. /\ \A p \in us : p = "US"
      /\ \A p \in bare : p = ""
  OBVIOUS
<1>8. \A d \in five : d = 5
  OBVIOUS
<1>3. PICK n \in ShortNumbers : c \in NumberCodes(n, us, five, bare)
  BY DEF PrefixedCodes
<1>. HIDE DEF us, five, bare
<1>4. n \in Nat /\ n # 0 /\ n < 100000
  BY SymbolKeysAssumption DEF ShortNumbers
<1>5. Digits(n) <= 5
  BY ONLY <1>4 DEF Digits
<1>6. \A d \in five : d >= Digits(n)
  BY ONLY <1>5, <1>8
<1>7. IsNumber(c) /\ c.prefix \in us /\ c.suffix \in bare
  BY ONLY <1>1, <1>3, <1>4, <1>6, NumberShapes
<1>. QED  BY <1>2, <1>7

LEMMA UnmarkedNumber ==
  ASSUME NEW n \in Nat, n # 0
  PROVE  Normalize(Code("", NoWord, n, Digits(n), "", FALSE), "HK") = Key(HKCode(n), "HK")
<1>. DEFINE d == Digits(n)
            c == Code("", NoWord, n, d, "", FALSE)
<1>1. d \in Nat
  BY DigitsRange
<1>. HIDE DEF d
<1>2. c \in Codes /\ c.word = NoWord /\ c.prefix = "" /\ c.suffix = "" /\ c.number = n /\ c.width = d
  BY <1>1 DEF Code, Codes, Affixes
<1>. HIDE DEF c
<1>3. d >= Digits(n)
  BY <1>1 DEF d
<1>4. IsNumber(c)
  BY <1>2, <1>3 DEF IsNumber
<1>5. Normalize(c, "HK") = Key(HKCode(n), "HK")
  BY <1>2, <1>4, NumberInHK
<1>. QED  BY <1>5 DEF c, d

LEMMA LegacyKeyShapes ==
  ASSUME NEW key \in LegacyKeys, NEW id
  PROVE  /\ key = Key(key.symbol, key.market)
         /\ Acceptable(Row(id, key)) /\ IsRow(Row(id, key)) /\ Row(id, key).id = id
         /\ Row(id, key).symbol = key.symbol /\ Row(id, key).market = key.market
<1>. DEFINE r == Row(id, key)
            us == {"US", "us"}
            plain == {"US"}
<1>1. r.id = id /\ r.symbol = key.symbol /\ r.market = key.market /\ IsRow(r)
  BY DEF Row, IsRow
<1>2. \/ key \in [symbol : LegacyCodes, market : us]
      \/ key \in [symbol : PrefixedCodes, market : plain]
      \/ \E n \in ShortNumbers : key = Normalize(Code("", NoWord, n, Digits(n), "", FALSE), "HK")
  BY DEF LegacyKeys
<1>3. \A m \in us : m \in {"US", "us"}
  OBVIOUS
<1>4. \A m \in plain : m = "US"
  OBVIOUS
<1>. HIDE DEF r, us, plain
<1>5. CASE key \in [symbol : LegacyCodes, market : us]
  <2>1. key = Key(key.symbol, key.market) /\ key.symbol \in LegacyCodes /\ key.market \in us
    BY ONLY <1>5, KeyOf
  <2>2. WordRow(r) \/ NumberRow(r)
    BY <1>1, <1>3, <2>1, LegacyCodeShapes DEF WordRow, NumberRow, UsMarket
  <2>. QED  BY <1>1, <2>1, <2>2 DEF Acceptable, r
<1>6. CASE key \in [symbol : PrefixedCodes, market : plain]
  <2>1. key = Key(key.symbol, key.market) /\ key.symbol \in PrefixedCodes /\ key.market \in plain
    BY ONLY <1>6, KeyOf
  <2>2. NumberRow(r)
    BY <1>1, <1>4, <2>1, PrefixedShapes DEF NumberRow, UsMarket
  <2>. QED  BY <1>1, <2>1, <2>2 DEF Acceptable, r
<1>7. ASSUME NEW n \in ShortNumbers, key = Normalize(Code("", NoWord, n, Digits(n), "", FALSE), "HK")
      PROVE  key = Key(key.symbol, key.market) /\ Acceptable(r)
  <2>1. n \in Nat /\ n # 0
    BY SymbolKeysAssumption DEF ShortNumbers
  <2>2. key = Key(HKCode(n), "HK")
    BY <1>7, <2>1, UnmarkedNumber
  <2>3. Listed(r)
    BY <2>1, <2>2, ListedRow DEF r
  <2>4. key = Key(key.symbol, key.market)
    BY <2>2 DEF Key
  <2>. QED  BY <2>3, <2>4 DEF Acceptable
<1>. QED  BY <1>1, <1>2, <1>5, <1>6, <1>7 DEF r

LEMMA KeysStart == KeysInit => KeysInvariant
<1>1. SUFFICES ASSUME KeysInit
               PROVE  KeysInvariant
  OBVIOUS
<1>2. PICK a, b, c \in LegacyKeys :
        rows = {Row(1, a)} \cup {Row(2, b) : x \in {b} \ {a}} \cup {Row(3, c) : x \in {c} \ {a, b}}
  BY <1>1 DEF KeysInit
<1>3. \A r \in rows : \/ r = Row(1, a)
                      \/ r = Row(2, b) /\ b # a
                      \/ r = Row(3, c) /\ c # a /\ c # b
  BY <1>2
<1>4. rows \in SUBSET {Row(1, a), Row(2, b), Row(3, c)}
  BY <1>3
<1>5. IsFiniteSet(rows)
  <2>1. IsFiniteSet({Row(1, a)} \cup {Row(2, b)} \cup {Row(3, c)})
    BY FS_Singleton, FS_Union
  <2>2. rows \in SUBSET ({Row(1, a)} \cup {Row(2, b)} \cup {Row(3, c)})
    BY <1>4
  <2>. QED  BY <2>1, <2>2, FS_Subset
<1>6. \A r \in rows : IsRow(r) /\ Acceptable(r)
  BY <1>3, LegacyKeyShapes
<1>7. /\ Row(1, a).id = 1 /\ Row(1, a).symbol = a.symbol /\ Row(1, a).market = a.market
      /\ Row(2, b).id = 2 /\ Row(2, b).symbol = b.symbol /\ Row(2, b).market = b.market
      /\ Row(3, c).id = 3 /\ Row(3, c).symbol = c.symbol /\ Row(3, c).market = c.market
      /\ a = Key(a.symbol, a.market) /\ b = Key(b.symbol, b.market) /\ c = Key(c.symbol, c.market)
  BY LegacyKeyShapes
<1>8. IdsDiffer(rows)
  BY <1>3, <1>7 DEF IdsDiffer
<1>9. Unique(rows)
  <2>1. SUFFICES ASSUME NEW q \in rows, NEW r \in rows, q.symbol = r.symbol, q.market = r.market
                 PROVE  q.id = r.id
    BY DEF Unique
  <2>2. Key(q.symbol, q.market) = Key(r.symbol, r.market)
    BY <2>1
  <2>3. /\ q = Row(1, a) => Key(q.symbol, q.market) = a
        /\ q = Row(2, b) => Key(q.symbol, q.market) = b
        /\ q = Row(3, c) => Key(q.symbol, q.market) = c
        /\ r = Row(1, a) => Key(r.symbol, r.market) = a
        /\ r = Row(2, b) => Key(r.symbol, r.market) = b
        /\ r = Row(3, c) => Key(r.symbol, r.market) = c
    BY <1>7
  <2>. QED  BY <1>3, <2>2, <2>3
<1>10. started = FALSE /\ failed = FALSE /\ edits \in 0 .. MaxKeyEdits
  BY <1>1, SymbolKeysAssumption DEF KeysInit
<1>. QED  BY <1>5, <1>6, <1>8, <1>9, <1>10 DEF KeysInvariant, KeyRows

LEMMA KeysStep == KeysInvariant /\ [KeysNext]_keyVars => KeysInvariant'
<1>1. SUFFICES ASSUME KeysInvariant, [KeysNext]_keyVars
               PROVE  KeysInvariant'
  OBVIOUS
<1>2. KeyRows(rows) /\ Unique(rows) /\ (\A r \in rows : Acceptable(r))
      /\ (started => \A r \in rows : Settled(r))
  BY <1>1 DEF KeysInvariant
<1>3. CASE UNCHANGED keyVars
  BY <1>1, <1>3 DEF KeysInvariant, keyVars
<1>4. CASE Start
  <2>. DEFINE us == UsConverged(rows)
              all == Ghosted(us)
  <2>1. CASE Unique(us) /\ Unique(all)
    <3>1. rows' = all /\ started' = TRUE /\ failed' = failed /\ edits' = edits
      BY <1>4, <2>1 DEF Start
    <3>2. KeyRows(us) /\ \A r \in us : Converged(r)
      BY <1>2, UsConvergedRows
    <3>. HIDE DEF us
    <3>3. KeyRows(all) /\ \A r \in all : Settled(r)
      BY <3>2, GhostedRows
    <3>. HIDE DEF all
    <3>4. \A r \in all : Acceptable(r)
      BY <3>3, SettledIsAcceptable
    <3>. QED  BY <1>1, <2>1, <3>1, <3>3, <3>4 DEF KeysInvariant
  <2>2. CASE ~ (Unique(us) /\ Unique(all))
    <3>1. rows' = rows /\ started' = started /\ failed' = TRUE /\ edits' = edits
      BY <1>4, <2>2 DEF Start
    <3>. QED  BY <1>1, <3>1 DEF KeysInvariant
  <2>. QED  BY <2>1, <2>2
<1>5. CASE Add
  <2>1. PICK c \in Typed : \E m \in {"US", "HK"} :
          LET key == Written(c, m) IN
          rows' = IF key = Refused \/ \E r \in rows : Key(r.symbol, r.market) = key THEN rows
                  ELSE rows \cup {Row(CHOOSE i \in 1 .. Cardinality(rows) + 1 : \A r \in rows : r.id # i, key)}
    BY <1>5 DEF Add
  <2>2. PICK m \in {"US", "HK"} :
          LET key == Written(c, m) IN
          rows' = IF key = Refused \/ \E r \in rows : Key(r.symbol, r.market) = key THEN rows
                  ELSE rows \cup {Row(CHOOSE i \in 1 .. Cardinality(rows) + 1 : \A r \in rows : r.id # i, key)}
    BY <2>1
  <2>3. started /\ started' = started /\ failed' = failed /\ edits < MaxKeyEdits /\ edits' = edits + 1
    BY <1>5 DEF Add
  <2>4. edits' \in 0 .. MaxKeyEdits
    BY <1>1, <2>3, SymbolKeysAssumption DEF KeysInvariant
  <2>. DEFINE key == Written(c, m)
              i == CHOOSE j \in 1 .. Cardinality(rows) + 1 : \A r \in rows : r.id # j
  <2>5. CASE key = Refused \/ \E r \in rows : Key(r.symbol, r.market) = key
    <3>1. rows' = rows
      BY <2>2, <2>5
    <3>. QED  BY <1>1, <2>3, <2>4, <3>1 DEF KeysInvariant
  <2>6. CASE ~ (key = Refused \/ \E r \in rows : Key(r.symbol, r.market) = key)
    <3>1. rows' = rows \cup {Row(i, key)}
      BY <2>2, <2>6
    <3>2. \A r \in rows : r.id # i
      BY <1>2, SomeIdIsFree DEF KeyRows
    <3>. HIDE DEF i
    <3>3. Settled(Row(i, key)) /\ IsRow(Row(i, key))
      BY <2>6, TypedSettles
    <3>4. key = Key(key.symbol, key.market)
      BY <2>6 DEF Written, Normalize, Key
    <3>. HIDE DEF key
    <3>5. KeyRows(rows') /\ Unique(rows')
      BY <1>2, <2>6, <3>1, <3>2, <3>4, AddedRow
    <3>6. \A r \in rows' : Settled(r)
      BY <1>2, <2>3, <3>1, <3>3
    <3>7. \A r \in rows' : Acceptable(r)
      BY <3>6, SettledIsAcceptable
    <3>. QED  BY <1>1, <2>3, <2>4, <3>5, <3>6, <3>7 DEF KeysInvariant
  <2>. QED  BY <2>5, <2>6
<1>6. CASE RemoveKey
  <2>1. rows' \in SUBSET rows
    BY <1>6 DEF RemoveKey
  <2>2. started /\ started' = started /\ failed' = failed /\ edits < MaxKeyEdits /\ edits' = edits + 1
    BY <1>6 DEF RemoveKey
  <2>3. edits' \in 0 .. MaxKeyEdits
    BY <1>1, <2>2, SymbolKeysAssumption DEF KeysInvariant
  <2>4. KeyRows(rows') /\ Unique(rows')
    BY <1>2, <2>1, PartOfWatchlist
  <2>. QED  BY <1>1, <1>2, <2>1, <2>2, <2>3, <2>4 DEF KeysInvariant
<1>. QED  BY <1>1, <1>3, <1>4, <1>5, <1>6 DEF KeysNext

\* The invariant is inductive: what a start may find stays so until it ran, and what it leaves is
\* kept by every edit and by every later start.
THEOREM KeysInvariance == KeysSpec => []KeysInvariant
<1>. QED  BY KeysStart, KeysStep, PTL DEF KeysSpec

\* Types, and a watchlist whose ids and keys are unique before, during and after the migration.
THEOREM KeysTypes == KeysSpec => []KeysTypeOK
<1>1. KeysInvariant => KeysTypeOK
  BY DEF KeysInvariant, KeysTypeOK, KeyRows, IdsDiffer
<1>. QED  BY <1>1, KeysInvariance, PTL

\* After a start, and whatever is added and removed since, every row is stored under the key it is
\* served by, a company is there once, and its row meets its figures (init_db, symbol.py), for every
\* set of words and codes and any number of edits.
THEOREM KeysConverge == KeysSpec => []StartConverges
<1>1. ASSUME KeysInvariant
      PROVE  StartConverges
  <2>1. SUFFICES ASSUME started
                 PROVE  OneRowEach /\ \A r \in rows : StoredAsServed(r) /\ MeetsTheCalendar(r)
    BY DEF StartConverges
  <2>2. Unique(rows) /\ \A r \in rows : IsRow(r) /\ Settled(r)
    BY <1>1, <2>1 DEF KeysInvariant, KeyRows
  <2>3. OneRowEach
    BY <2>2, SettledOnce DEF OneRowEach
  <2>. QED  BY <2>2, <2>3, SettledIsServed, SettledMeets
<1>. QED  BY <1>1, KeysInvariance, PTL

==============================================================================
