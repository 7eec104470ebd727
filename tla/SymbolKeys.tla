------------------------------ MODULE SymbolKeys ------------------------------
(***************************************************************************)
(* How a company is keyed (app/symbol.py): the spellings that users, lists *)
(* and providers use, the canonical key each entry point derives from      *)
(* them, and one user's watchlist under the endpoints that write it and    *)
(* the migration that every start runs over rows of older releases.        *)
(***************************************************************************)
EXTENDS Integers, FiniteSets

CONSTANTS
  Tickers,     \* words a US listing is known by
  Numbers,     \* HKEX codes
  NoWord,      \* the word of a numeric code
  MaxKeyEdits     \* bound: requests that change the watchlist

ASSUME SymbolKeysAssumption ==
  NoWord \notin Tickers /\ Numbers \subseteq Nat \ {0} /\ MaxKeyEdits \in Nat

\* A spelling: a word, or a number written with a number of digits, with a market before or behind
\* it, in capitals or not.
Code(prefix, word, number, width, suffix, lower) ==
  [prefix |-> prefix, word |-> word, number |-> number, width |-> width, suffix |-> suffix, lower |-> lower]

\* Spellings of words, and of one number.
Words(prefixes, suffixes, lowers) ==
  [prefix : prefixes, word : Tickers, number : {0}, width : {0}, suffix : suffixes, lower : lowers]
NumberCodes(n, prefixes, widths, suffixes) ==
  [prefix : prefixes, word : {NoWord}, number : {n}, width : widths, suffix : suffixes, lower : {FALSE}]

Digits(n) == IF n < 10 THEN 1 ELSE IF n < 100 THEN 2 ELSE IF n < 1000 THEN 3
             ELSE IF n < 10000 THEN 4 ELSE IF n < 100000 THEN 5 ELSE 6
Larger(a, b) == IF a > b THEN a ELSE b

Upper(c) == [c EXCEPT !.lower = FALSE]
IsDigit(c) == c.width > 0 /\ c.prefix = "" /\ c.suffix = ""
Refused == [symbol |-> "refused"]
Key(c, market) == [symbol |-> c, market |-> market]

----------------------------------------------------------------------------
(* symbol.py                                                               *)

Padded(c) == [c EXCEPT !.width = Larger(4, Digits(c.number))]

\* Mutant of NormalizeHK: a provider's zeros in front of a number are kept.
NormalizeHKZeros(c) ==
  LET s == [Upper(c) EXCEPT !.suffix = IF @ = "HK" THEN "" ELSE @] IN
  [(IF IsDigit(s) THEN [s EXCEPT !.width = Larger(4, @)] ELSE s) EXCEPT !.suffix = "HK"]

NormalizeHK(c) ==
  LET s == [Upper(c) EXCEPT !.suffix = IF @ = "HK" THEN "" ELSE @] IN
  [(IF IsDigit(s) THEN Padded(s) ELSE s) EXCEPT !.suffix = "HK"]

NormalizeUS(c) ==
  LET s == [Upper(c) EXCEPT !.prefix = IF @ = "US" THEN "" ELSE @,
                            !.suffix = IF @ = "US" THEN "" ELSE @] IN
  IF IsDigit(s) THEN Refused ELSE s

\* A bare number is never a US ticker: that is refused, ValueError.
Normalize(c, market) ==
  LET s == IF market = "HK" THEN NormalizeHK(c) ELSE NormalizeUS(c) IN
  IF s = Refused THEN Refused ELSE Key(s, market)

IsHkTicker(c) == IsDigit(c) /\ c.width <= 5

MarketOf(c) ==
  IF c.prefix # "" THEN c.prefix
  ELSE IF c.suffix = "" THEN (IF IsDigit(c) THEN (IF IsHkTicker(c) THEN "HK" ELSE "none") ELSE "US")
  ELSE IF c.suffix \in {"US", "HK"} THEN c.suffix
  ELSE IF c.suffix = "A" THEN "US" ELSE "none"

Bare(c) ==
  [Upper(c) EXCEPT !.prefix = "", !.suffix = IF @ \in {"US", "HK"} THEN "" ELSE @]

MarketMismatch(c, market) ==
  IF market = "HK" THEN ~ (c.suffix = "HK" \/ (c.prefix = "" /\ c.suffix = "" /\ IsHkTicker(c)))
  ELSE MarketOf(c) # "US"

\* A stored row is served under its canonical key or skipped; reading it never raises.
ResolveStored(row) ==
  LET market == IF row.market = "us" THEN "US" ELSE row.market IN
  IF MarketMismatch(row.symbol, market) THEN Refused ELSE Normalize(row.symbol, market)

\* A provider's calendar event, by its symbol or by its older counter id.
FromCalendar(c, market) ==
  IF c.suffix \in {"US", "HK"} THEN Normalize(c, c.suffix) ELSE Normalize(c, market)

FromCounter(c, market) ==
  IF market = "HK" THEN Key([(IF IsDigit(c) THEN Padded(c) ELSE c) EXCEPT !.suffix = "HK"], "HK")
  ELSE Key(Upper(c), market)

\* The universe (group_symbols_by_market) and the Futu sync, over the codes of a watchlist source.
Grouped(c) ==
  CASE MarketOf(c) = "HK" -> Normalize(Bare(c), "HK")
    [] MarketOf(c) = "US" -> Key(Bare(c), "US")
    [] OTHER -> Refused

FutuSymbol(c) ==
  CASE MarketOf(c) = "HK" -> Normalize(Bare(c), "HK")
    [] MarketOf(c) = "US" /\ c.prefix = "" /\ c.suffix \in {"US", ""} -> Key(Bare(c), "US")
    [] OTHER -> Refused

\* A write names a row by what the user typed (the watchlist and the managed list).
Written(c, market) == IF MarketMismatch(c, market) THEN Refused ELSE Normalize(c, market)

----------------------------------------------------------------------------
(* One user's rows                                                         *)

VARIABLES
  rows,       \* watchlist: id, symbol, market
  started,    \* this release has migrated the rows
  failed,     \* init_db was aborted
  edits

keyVars == <<rows, started, failed, edits>>

UsMarket(r) == r.market \in {"US", "us"}
HkKeys(rs) == { r.symbol : r \in { q \in rs : q.market = "HK" } }

\* Rows that older releases accepted: as typed, under the market of the form.
LegacyCodes ==
  Words({""}, {"", "US"}, BOOLEAN) \cup Words({"US"}, {""}, BOOLEAN)
  \cup UNION { NumberCodes(n, {""}, Digits(n) .. Larger(5, Digits(n)), {""}) : n \in Numbers }
ShortNumbers == { n \in Numbers : n < 100000 }
PrefixedCodes == UNION { NumberCodes(n, {"US"}, {5}, {""}) : n \in ShortNumbers }
LegacyKeys ==
  [symbol : LegacyCodes, market : {"US", "us"}] \cup [symbol : PrefixedCodes, market : {"US"}]
  \cup { Normalize(Code("", NoWord, n, Digits(n), "", FALSE), "HK") : n \in ShortNumbers }

Row(id, key) == [id |-> id, symbol |-> key.symbol, market |-> key.market]

KeysInit ==
  /\ \E a, b, c \in LegacyKeys : rows = { Row(1, a) } \cup { Row(2, b) : x \in {b} \ {a} }
                                       \cup { Row(3, c) : x \in {c} \ {a, b} }
  /\ started = FALSE /\ failed = FALSE /\ edits = 0

\* The keys by which the first DELETE compares: a decorated symbol is compared as it is written.
RankKey(r) ==
  CASE r.symbol.prefix = "US" -> [r.symbol EXCEPT !.prefix = ""]
    [] r.symbol.prefix # "US" /\ r.symbol.suffix = "US" -> [r.symbol EXCEPT !.suffix = ""]
    [] OTHER -> Upper(r.symbol)

FirstOfEach(rs, key(_)) == { r \in rs : \A q \in rs : key(q) = key(r) => q.id >= r.id }

Undecorated(r) ==
  Row(r.id, Key(Upper(RankKey(r)), "US"))

\* LPAD(n, 4, '0') cuts a longer number to its first four digits.
Lpad(c) ==
  LET n == IF c.number < 10000 THEN c.number ELSE c.number \div 10 IN
  Code("", NoWord, n, 4, "HK", FALSE)
GhostKey(r) == Lpad(r.symbol)
Ghosts(rs) == { r \in rs : UsMarket(r) /\ IsHkTicker(r.symbol) }

\* A number stored as a US symbol becomes the HK row it means, or goes when there is one.
Ghosted(rs) ==
  LET kept == { r \in FirstOfEach(Ghosts(rs), GhostKey) : GhostKey(r) \notin HkKeys(rs) } IN
  (rs \ Ghosts(rs)) \cup { Row(r.id, Key(GhostKey(r), "HK")) : r \in kept }

UsConverged(rs) ==
  LET us == { r \in rs : UsMarket(r) } IN
  (rs \ us) \cup { Undecorated(r) : r \in FirstOfEach(us, RankKey) }

\* UNIQUE(user_id, symbol, market).
Unique(rs) == \A q, r \in rs : q.symbol = r.symbol /\ q.market = r.market => q.id = r.id

\* init_db: one transaction, which a collision aborts.
Start ==
  /\ ~ failed /\ UNCHANGED edits
  /\ LET us == UsConverged(rows)  all == Ghosted(us) IN
     IF Unique(us) /\ Unique(all)
       THEN rows' = all /\ started' = TRUE /\ UNCHANGED failed
       ELSE failed' = TRUE /\ UNCHANGED <<rows, started>>

\* The spellings a user may type for a company; the market is the form's choice.
Typed ==
  Words({""}, {"", "US", "A"}, {FALSE}) \cup Words({"US"}, {""}, {FALSE})
  \cup UNION { NumberCodes(n, {""}, Digits(n) .. 6, {"", "HK", "SZ"})
               \cup NumberCodes(n, {"US", "HK"}, {5}, {""}) : n \in Numbers }

\* Mutant of Add: the row is looked for by its key and written as it was typed.
AddAsTyped ==
  /\ started /\ edits < MaxKeyEdits /\ edits' = edits + 1
  /\ \E c \in Typed, m \in {"US", "HK"} :
       LET key == Written(c, m) IN
       rows' = IF key = Refused \/ \E r \in rows : Key(r.symbol, r.market) = key THEN rows
               ELSE rows \cup { Row(CHOOSE i \in 1 .. Cardinality(rows) + 1 : \A r \in rows : r.id # i, Key(c, m)) }
  /\ UNCHANGED <<started, failed>>

\* 400 for a mismatch and 500 for a ValueError change nothing.
Add ==
  /\ started /\ edits < MaxKeyEdits /\ edits' = edits + 1
  /\ \E c \in Typed, m \in {"US", "HK"} :
       LET key == Written(c, m) IN
       rows' = IF key = Refused \/ \E r \in rows : Key(r.symbol, r.market) = key THEN rows
               ELSE rows \cup { Row(CHOOSE i \in 1 .. Cardinality(rows) + 1 : \A r \in rows : r.id # i, key) }
  /\ UNCHANGED <<started, failed>>

RemoveKey ==
  /\ started /\ edits < MaxKeyEdits /\ edits' = edits + 1
  /\ \E r \in rows : LET key == Written(r.symbol, r.market) IN
       key # Refused /\ rows' = { q \in rows : Key(q.symbol, q.market) # key }
  /\ UNCHANGED <<started, failed>>

KeysNext == Start \/ Add \/ RemoveKey

KeysSpec == KeysInit /\ [][KeysNext]_keyVars

----------------------------------------------------------------------------
(* Properties                                                              *)

\* What a spelling means: a number is an HKEX code wherever it stands.
Meant(c) == <<c.word, c.number>>

\* Ids and keys are unique, in the rows a migration has left as in those it has not seen.
KeysTypeOK ==
  /\ \A q, r \in rows : q.id = r.id => q = r
  /\ Unique(rows) /\ edits \in 0 .. MaxKeyEdits /\ started \in BOOLEAN /\ failed \in BOOLEAN

\* The row is stored under the key it is served by, so the endpoints find and remove it, or is a
\* number too long for any market.
StoredAsServed(r) ==
  ResolveStored(r) = Key(r.symbol, r.market)
  \/ (ResolveStored(r) = Refused /\ IsDigit(r.symbol) /\ r.symbol.width > 5)

\* Keys that are no market's stay apart from the company's own.
Foreign(r) == r.symbol.suffix = "A" \/ r.symbol.width > 5
OneRowEach == \A q, r \in rows : Meant(q.symbol) = Meant(r.symbol) /\ q # r => Foreign(q) \/ Foreign(r)

\* A served row meets its company in the calendar and no other: what a provider, a list and the
\* Futu sync spell differently is keyed one way, and that is the row's key.
Spelled ==
  Words({""}, {"", "US"}, BOOLEAN)
  \cup UNION { NumberCodes(n, {""}, Digits(n) .. 5, {"", "HK"}) : n \in Numbers }
HomeMarket(c) == IF c.width > 0 THEN "HK" ELSE "US"
KeysOf(c) ==
  { Grouped(c), FutuSymbol(c), FromCalendar(c, HomeMarket(c)), Written(c, HomeMarket(c)),
    FromCounter(Bare(c), HomeMarket(c)) }
Shown(r) == ResolveStored(r) # Refused /\ r.symbol.suffix # "A"
MeetsTheCalendar(r) ==
  Shown(r) => \A c \in Spelled :
    IF Meant(c) = Meant(r.symbol) THEN KeysOf(c) = { Key(r.symbol, r.market) }
    ELSE Key(r.symbol, r.market) \notin KeysOf(c)

\* After a start (init_db), and whatever is added and removed since, every row is stored under the
\* key it is served by, a company is there once, and its row meets its figures.
StartConverges ==
  started => OneRowEach /\ \A r \in rows : StoredAsServed(r) /\ MeetsTheCalendar(r)

=============================================================================
