-------------------------------- MODULE Feeds --------------------------------
(***************************************************************************)
(* One subscriber's calendar feed (app/routers/ical.py): the cache of      *)
(* token resolutions, the cache of feed bodies, the singleflight that      *)
(* generates a missing body, the subscriber's watchlist with the           *)
(* invalidation that follows a change of it, and token rotations, inside   *)
(* the serving process or from a script.  A body is the version of the     *)
(* watchlist it was generated from, a token the number of its issue.       *)
(***************************************************************************)
EXTENDS Integers

CONSTANTS
  Requests,      \* requests for the feed
  NoLeader,      \* nobody generates the feed
  TokenTTL,      \* ICAL_TOKEN_CACHE_TTL_SECONDS, in ticks
  MaxPolls,      \* bound: requests answered
  MaxEdits,      \* bound: changes of the watchlist
  MaxTokens      \* bound: tokens issued

ASSUME FeedsAssumption ==
  /\ NoLeader \notin Requests
  /\ TokenTTL \in Nat \ {0} /\ MaxTokens \in Nat \ {0}
  /\ MaxPolls \in Nat /\ MaxEdits \in Nat

VARIABLES
  watchlist,   \* version of the subscriber's watchlist
  issued,      \* the token in users.ical_token
  tokens,      \* _token_cache: ticks a resolution has left, 0 when there is none
  feed,        \* _ical_cache
  flight,      \* the registered flight: its leader, and its result once it has one
  request,     \* what each request is doing, with which token and body
  editor,      \* a change of the watchlist before its invalidation
  rotator,     \* an administrator's rotation before it drops what is cached
  calm,        \* when the last change was announced nothing older was under way
  revoked,     \* for each token, ticks since it was replaced, capped; -1 while it is valid
  forgotten,   \* tokens dropped by the process that serves
  late,        \* tokens some request had looked up, not yet cached, when they were replaced
  polls

feedVars == <<watchlist, issued, tokens, feed, flight, request, editor, rotator, calm, revoked,
              forgotten, late, polls>>

Tokens == 1 .. MaxTokens
Nothing == -1
Failed == MaxEdits + 1
NoFlight == [leader |-> NoLeader, result |-> Nothing]
Away == [at |-> "away", token |-> 1, body |-> Nothing]

FeedsInit ==
  /\ watchlist = 0 /\ issued = 1
  /\ tokens = [t \in Tokens |-> 0] /\ feed = Nothing /\ flight = NoFlight
  /\ request = [r \in Requests |-> Away]
  /\ editor = "idle" /\ rotator = 0 /\ calm = TRUE
  /\ revoked = [t \in Tokens |-> Nothing] /\ forgotten = {} /\ late = {}
  /\ polls = 0

Becomes(r, doing) == request' = [request EXCEPT ![r] = doing]
Answered(r) == Becomes(r, Away) /\ polls' = polls + 1

----------------------------------------------------------------------------
(* A request                                                               *)

\* A cached resolution answers, otherwise the row does; only a token that is found goes on.
LookUpToken(r) ==
  /\ request[r].at = "away" /\ polls < MaxPolls
  /\ \E t \in 1 .. issued :
       IF tokens[t] > 0 THEN Becomes(r, [Away EXCEPT !.at = "known", !.token = t]) /\ UNCHANGED polls
       ELSE IF t = issued THEN Becomes(r, [Away EXCEPT !.at = "found", !.token = t]) /\ UNCHANGED polls
       ELSE polls' = polls + 1 /\ UNCHANGED request
  /\ UNCHANGED <<watchlist, issued, tokens, feed, flight, editor, rotator, calm, revoked, forgotten, late>>

CacheToken(r) ==
  /\ request[r].at = "found"
  /\ tokens' = [tokens EXCEPT ![request[r].token] = TokenTTL]
  /\ Becomes(r, [request[r] EXCEPT !.at = "known"])
  /\ UNCHANGED <<watchlist, issued, feed, flight, editor, rotator, calm, revoked, forgotten, late, polls>>

ServeCached(r) ==
  /\ request[r].at = "known" /\ feed # Nothing
  /\ Answered(r)
  /\ UNCHANGED <<watchlist, issued, tokens, feed, flight, editor, rotator, calm, revoked, forgotten, late>>

\* The watchlist is read by the request, before it is known who generates.
ReadWatchlist(r) ==
  /\ request[r].at = "known" /\ feed = Nothing
  /\ Becomes(r, [request[r] EXCEPT !.at = "read", !.body = watchlist])
  /\ UNCHANGED <<watchlist, issued, tokens, feed, flight, editor, rotator, calm, revoked, forgotten,
                 late, polls>>

\* Singleflight.do: lead, wait for the leader, or take the outcome of a flight not yet removed.
JoinFlight(r) ==
  /\ request[r].at = "read"
  /\ \/ /\ flight.leader = NoLeader
        /\ flight' = [leader |-> r, result |-> Nothing]
        /\ Becomes(r, [request[r] EXCEPT !.at = "leading"]) /\ UNCHANGED polls
     \/ /\ flight.leader # NoLeader /\ flight.result = Nothing
        /\ Becomes(r, [request[r] EXCEPT !.at = "waiting"]) /\ UNCHANGED <<flight, polls>>
     \/ /\ flight.result \notin {Nothing, Failed}
        /\ Becomes(r, [request[r] EXCEPT !.at = "made", !.body = flight.result])
        /\ UNCHANGED <<flight, polls>>
     \/ flight.result = Failed /\ Answered(r) /\ UNCHANGED flight
  /\ UNCHANGED <<watchlist, issued, tokens, feed, editor, rotator, calm, revoked, forgotten, late>>

\* The leader's body is everybody's; the flight stays registered until its cleanup ran.
Generate(r) ==
  /\ request[r].at = "leading"
  /\ flight' = [flight EXCEPT !.result = request[r].body]
  /\ request' = [q \in Requests |->
       IF q = r \/ request[q].at = "waiting"
         THEN [request[q] EXCEPT !.at = "made", !.body = request[r].body] ELSE request[q]]
  /\ UNCHANGED <<watchlist, issued, tokens, feed, editor, rotator, calm, revoked, forgotten, late, polls>>

\* The leader's error is everybody's too.
GenerateFails(r) ==
  /\ request[r].at = "leading"
  /\ flight' = [flight EXCEPT !.result = Failed]
  /\ request' = [q \in Requests |-> IF q = r \/ request[q].at = "waiting" THEN Away ELSE request[q]]
  /\ polls' = polls + 1
  /\ UNCHANGED <<watchlist, issued, tokens, feed, editor, rotator, calm, revoked, forgotten, late>>

\* Mutant of WaitTimesOut: the waiter removes the flight so that the next one starts afresh.
WaitEndsFlight(r) ==
  /\ request[r].at = "waiting"
  /\ Answered(r) /\ flight' = NoFlight
  /\ UNCHANGED <<watchlist, issued, tokens, feed, editor, rotator, calm, revoked, forgotten, late>>

\* 503, retry later.
WaitTimesOut(r) ==
  /\ request[r].at = "waiting"
  /\ Answered(r)
  /\ UNCHANGED <<watchlist, issued, tokens, feed, flight, editor, rotator, calm, revoked, forgotten, late>>

\* A conditional request that still matches is answered without storing; a body that is too large
\* is served and not kept.
Reply(r, stores) ==
  /\ request[r].at = "made"
  /\ feed' = IF stores THEN request[r].body ELSE feed
  /\ Answered(r)
  /\ UNCHANGED <<watchlist, issued, tokens, flight, editor, rotator, calm, revoked, forgotten, late>>

\* The thread that removes a resolved flight.
CleanUp ==
  /\ flight.result # Nothing /\ flight' = NoFlight
  /\ UNCHANGED <<watchlist, issued, tokens, feed, request, editor, rotator, calm, revoked, forgotten,
                 late, polls>>

\* Expiry, or eviction for room.
FeedGoes ==
  /\ feed # Nothing /\ feed' = Nothing
  /\ UNCHANGED <<watchlist, issued, tokens, flight, request, editor, rotator, calm, revoked, forgotten,
                 late, polls>>
----------------------------------------------------------------------------
(* Changes, rotations and time                                             *)

EditWatchlist ==
  /\ editor = "idle" /\ watchlist < MaxEdits
  /\ watchlist' = watchlist + 1 /\ editor' = "written" /\ calm' = FALSE
  /\ UNCHANGED <<issued, tokens, feed, flight, request, rotator, revoked, forgotten, late, polls>>

\* Nothing read before the change can still be stored.
NothingOlder ==
  /\ \A r \in Requests : request[r].at \in {"read", "leading", "waiting", "made"} =>
                            request[r].body = watchlist
  /\ flight.result \in {Nothing, Failed, watchlist}

\* Mutant of AnnounceEdit: only the calendar caches are invalidated.
AnnounceToCalendarOnly ==
  /\ editor = "written" /\ editor' = "idle"
  /\ calm' = NothingOlder
  /\ UNCHANGED <<watchlist, issued, tokens, feed, flight, request, rotator, revoked, forgotten, late, polls>>

AnnounceEdit ==
  /\ editor = "written" /\ editor' = "idle"
  /\ feed' = Nothing /\ calm' = NothingOlder
  /\ UNCHANGED <<watchlist, issued, tokens, flight, request, rotator, revoked, forgotten, late, polls>>

\* A new token replaces the one that was valid; who has looked that one up may still cache it.
Replace ==
  /\ issued < MaxTokens /\ issued' = issued + 1
  /\ revoked' = [revoked EXCEPT ![issued] = 0]
  /\ late' = IF \E r \in Requests : request[r].at = "found" /\ request[r].token = issued
               THEN late \cup {issued} ELSE late

RotateInService ==
  /\ rotator = 0 /\ Replace /\ rotator' = issued
  /\ UNCHANGED <<watchlist, tokens, feed, flight, request, editor, calm, forgotten, polls>>

\* Mutant of ForgetTokens: only the feed is dropped, as before tokens were cached.
ForgetFeed ==
  /\ rotator # 0 /\ rotator' = 0
  /\ feed' = Nothing /\ forgotten' = forgotten \cup {rotator}
  /\ UNCHANGED <<watchlist, issued, tokens, flight, request, editor, calm, revoked, late, polls>>

\* invalidate_feed_cache: the subscriber's feed, and what the old and the new token resolved to.
ForgetTokens ==
  /\ rotator # 0 /\ rotator' = 0
  /\ feed' = Nothing /\ forgotten' = forgotten \cup {rotator}
  /\ tokens' = [t \in Tokens |-> IF t \in {rotator, rotator + 1} THEN 0 ELSE tokens[t]]
  /\ UNCHANGED <<watchlist, issued, flight, request, editor, calm, revoked, late, polls>>

\* rotate_ical_tokens.py runs in a process of its own and reaches no cache of the service.
RotateByScript ==
  /\ Replace
  /\ UNCHANGED <<watchlist, tokens, feed, flight, request, editor, rotator, calm, forgotten, polls>>

\* A tick of the clock.
Elapse ==
  /\ \E t \in Tokens : tokens[t] > 0 \/ revoked[t] \in 0 .. TokenTTL - 1
  /\ tokens' = [t \in Tokens |-> IF tokens[t] > 0 THEN tokens[t] - 1 ELSE 0]
  /\ revoked' = [t \in Tokens |-> IF revoked[t] \in 0 .. TokenTTL - 1 THEN revoked[t] + 1 ELSE revoked[t]]
  /\ UNCHANGED <<watchlist, issued, feed, flight, request, editor, rotator, calm, forgotten, late, polls>>

----------------------------------------------------------------------------
Poll(r) ==
  \/ LookUpToken(r) \/ CacheToken(r) \/ ServeCached(r) \/ ReadWatchlist(r) \/ JoinFlight(r)
  \/ Generate(r) \/ GenerateFails(r) \/ WaitTimesOut(r)
  \/ \E stores \in BOOLEAN : Reply(r, stores)

FeedsNext ==
  \/ \E r \in Requests : Poll(r)
  \/ CleanUp \/ FeedGoes \/ EditWatchlist \/ AnnounceEdit
  \/ RotateInService \/ ForgetTokens \/ RotateByScript \/ Elapse

FeedsSpec == FeedsInit /\ [][FeedsNext]_feedVars

----------------------------------------------------------------------------
(* Properties                                                              *)

\* Types; one request at most generates, the leader of the one flight, and whoever waits waits for
\* a flight that is still registered.
FeedsTypeOK ==
  /\ watchlist \in 0 .. MaxEdits /\ issued \in Tokens /\ polls \in Nat
  /\ tokens \in [Tokens -> 0 .. TokenTTL] /\ feed \in Nothing .. MaxEdits
  /\ flight \in [leader : Requests \cup {NoLeader}, result : Nothing .. Failed]
  /\ request \in [Requests -> [at : {"away", "found", "known", "read", "leading", "waiting", "made"},
                               token : Tokens, body : Nothing .. MaxEdits]]
  /\ editor \in {"idle", "written"} /\ rotator \in 0 .. MaxTokens /\ calm \in BOOLEAN
  /\ revoked \in [Tokens -> Nothing .. TokenTTL] /\ forgotten \subseteq Tokens /\ late \subseteq Tokens
  /\ \A r \in Requests :
       /\ request[r].at = "leading" <=> flight = [leader |-> r, result |-> Nothing]
       /\ request[r].at = "waiting" => flight.leader # NoLeader /\ flight.result = Nothing

\* A change of the watchlist that met nothing read before it is in every body the cache serves,
\* whatever flights, failures and rotations follow.
CalmEditIsServed == calm => feed \in {Nothing, watchlist}

\* A replaced token stops resolving: at once when the service replaced it, within a time to live
\* when a script did; unless a request had looked it up just then and caches it afterwards.
RevokedTokenStops ==
  \A t \in Tokens \ late :
    revoked[t] # Nothing /\ (t \in forgotten \/ revoked[t] = TokenTTL) => tokens[t] = 0
==============================================================================
