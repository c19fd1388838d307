---------------------------- MODULE Middleware ----------------------------
(***************************************************************************)
(* The middleware of the common crate: the limit on the requests of a      *)
(* client, and the list of tokens whose users logged out.                  *)
(***************************************************************************)
EXTENDS Naturals, FiniteSets, Functions

(***************************************************************************)
(* The fixed window limiters: snipebot/src/rate_limit.rs and               *)
(* common/src/middleware/rate_limit.rs, for one key.  They count alike and *)
(* differ in how old windows are dropped and in what a busy store means.   *)
(***************************************************************************)
CONSTANTS Limit, Window, Expiry, CleanupInterval, LastTime

VARIABLES rl_now,
          rl_data,      \* count and window_start of the key, or NoData
          rl_busy,      \* the store of the bot is locked by another thread
          rl_cleaned,   \* last_cleanup of RateLimiter
          rl_allowed    \* requests counted and allowed, by time

limiterVars == <<rl_now, rl_data, rl_busy, rl_cleaned, rl_allowed>>

NoData == [count |-> 0, window_start |-> LastTime + 1]
Times == 0..LastTime

limiterTypeOK ==
  /\ rl_now \in Times /\ rl_data.count \in Nat /\ rl_data.window_start \in Nat
  /\ rl_busy \in BOOLEAN /\ rl_cleaned \in Times /\ rl_allowed \in [Times -> Nat]

limiterInit ==
  /\ rl_now = 0 /\ rl_data = NoData /\ rl_busy = FALSE
  /\ rl_cleaned = 0 /\ rl_allowed = [t \in Times |-> 0]

begun == [count |-> 1, window_start |-> rl_now]
over(size) == rl_now - rl_data.window_start >= size

\* What check_rate_limit makes of the data, and whether it allows the request.
counted(data) == IF data = NoData \/ over(Window) THEN begun ELSE [data EXCEPT !.count = @ + 1]

allows(data) == data = NoData \/ over(Window) \/ data.count < Limit

check_rate_limit ==
  /\ ~rl_busy /\ allows(rl_data)
  /\ rl_data' = counted(rl_data) /\ rl_allowed' = [rl_allowed EXCEPT ![rl_now] = @ + 1]
  /\ UNCHANGED <<rl_now, rl_busy, rl_cleaned>>

refuses == ~rl_busy /\ ~allows(rl_data) /\ UNCHANGED limiterVars

\* The store of the bot is only tried: when it is busy, or the clock fails, the
\* request is allowed and not counted.
allowed_uncounted == rl_busy /\ UNCHANGED limiterVars

\* The windows a cleanup drops: RateLimiter those that are over, the bot those
\* that began an hour ago.
expired == rl_data # NoData /\ (over(Window) \/ over(Expiry))

\* RateLimiter::check_limit: the check, and a cleanup when the last was long ago.
\* The window the check has just used is never one of those it drops.
check_limit ==
  /\ ~rl_busy /\ allows(rl_data) /\ rl_now - rl_cleaned > CleanupInterval
  /\ rl_data' = counted(rl_data) /\ rl_allowed' = [rl_allowed EXCEPT ![rl_now] = @ + 1]
  /\ rl_cleaned' = rl_now /\ UNCHANGED <<rl_now, rl_busy>>

cleanup == ~rl_busy /\ expired /\ rl_data' = NoData /\ UNCHANGED <<rl_now, rl_busy, rl_cleaned, rl_allowed>>

locked == rl_busy' = ~rl_busy /\ UNCHANGED <<rl_now, rl_data, rl_cleaned, rl_allowed>>
tick == rl_now < LastTime /\ rl_now' = rl_now + 1 /\ UNCHANGED <<rl_data, rl_busy, rl_cleaned, rl_allowed>>

limiterNext == check_rate_limit \/ refuses \/ allowed_uncounted \/ check_limit \/ cleanup \/ locked \/ tick

counted_in(t) == FoldFunctionOnSet(+, 0, rl_allowed, {s \in Times : t <= s /\ s < t + Window})

\* Whatever stretch of time as long as a window one looks at, across the edge
\* of two windows and around cleanups, at most twice the limit was counted and
\* allowed in it.
BurstBounded == \A t \in Times : counted_in(t) <= 2 * Limit

(***************************************************************************)
(* common/middleware/auth.rs: tokens that run out, and the list of those   *)
(* whose users logged out before.  The list forgets tokens that have run   *)
(* out, at a logout more than an hour after it last did.  Time is in       *)
(* units of half an hour; a token is still read for a unit after it has    *)
(* run out, the leeway of the library that reads it.                       *)
(***************************************************************************)
CONSTANTS Jtis, LastHalfHour, Lifetimes, Leeway

VARIABLES bl_now,
          bl_expires,   \* when each token runs out, 0 before it is made
          bl_listed,    \* the list: tokens with the time they run out
          bl_cleaned,   \* when the list was last cleaned
          bl_out        \* ghost: tokens whose logout was a success

blacklistVars == <<bl_now, bl_expires, bl_listed, bl_cleaned, bl_out>>
Hour == 2

blacklistTypeOK ==
  /\ bl_now \in 0 .. LastHalfHour /\ bl_expires \in [Jtis -> Nat] /\ bl_cleaned \in 0 .. bl_now
  /\ bl_listed \subseteq Jtis /\ bl_out \subseteq Jtis

blacklistInit == bl_now = 0 /\ bl_expires = [t \in Jtis |-> 0] /\ bl_listed = {} /\ bl_cleaned = 0 /\ bl_out = {}

blacklist_tick == bl_now < LastHalfHour /\ bl_now' = bl_now + 1 /\ UNCHANGED <<bl_expires, bl_listed, bl_cleaned, bl_out>>

\* A token is made for a number of units; its identifier is new.
create_jwt_token(t, lifetime) ==
  /\ bl_expires[t] = 0 /\ bl_expires' = [bl_expires EXCEPT ![t] = bl_now + lifetime]
  /\ UNCHANGED <<bl_now, bl_listed, bl_cleaned, bl_out>>

\* What the library reads: a token that has not run out, give or take.
decode_jwt_token(t) == bl_expires[t] > 0 /\ bl_now <= bl_expires[t] + Leeway

\* What is left of the list.
cleanup_blacklist(tokens) == {t \in tokens : bl_expires[t] > bl_now}

due == bl_now - bl_cleaned > Hour

\* logout: the token is listed, and the list cleaned when that is due.
logout(t) ==
  /\ decode_jwt_token(t) /\ bl_out' = bl_out \cup {t}
  /\ IF due
     THEN bl_listed' = cleanup_blacklist(bl_listed \cup {t}) /\ bl_cleaned' = bl_now
     ELSE bl_listed' = bl_listed \cup {t} /\ UNCHANGED bl_cleaned
  /\ UNCHANGED <<bl_now, bl_expires>>

\* A token that cannot be read: an error, and nothing is listed.
logout_invalid(t) == ~decode_jwt_token(t) /\ UNCHANGED blacklistVars

is_blacklisted(t) == t \in bl_listed /\ UNCHANGED blacklistVars
is_allowed(t) == t \notin bl_listed /\ UNCHANGED blacklistVars

blacklistNext == blacklist_tick \/ \E t \in Jtis : logout(t) \/ logout_invalid(t) \/ is_blacklisted(t) \/ is_allowed(t) \/ \E n \in Lifetimes : create_jwt_token(t, n)

\* A token whose user logged out is listed for as long as it has not run out.
OutIsListed == \A t \in bl_out : bl_expires[t] > bl_now => t \in bl_listed

\* The list holds no token that had run out, give or take the leeway, when it was
\* cleaned last.
ListIsShort == \A t \in bl_listed : bl_expires[t] + Leeway >= bl_cleaned
=============================================================================
