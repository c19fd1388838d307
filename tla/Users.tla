------------------------------ MODULE Users -------------------------------
(***************************************************************************)
(* The users: their accounts in memory and in a file, and the days of      *)
(* their subscriptions.                                                    *)
(***************************************************************************)
EXTENDS FiniteSets, Integers

(***************************************************************************)
(* The users of common/src/user.rs and the file that keeps them.  The      *)
(* manager is used through &mut self, so its calls follow one another; a   *)
(* call changes the memory, then saves: the file is created anew, which    *)
(* empties it, and the text is handed to a background write that save does *)
(* not wait for.  A user is what he logs in with: a bcrypt hash from his   *)
(* creation, an Argon2 hash after any change of password.                  *)
(***************************************************************************)
CONSTANTS Users, Admin, MaxWrites

VARIABLES us_up,        \* the process runs, with its users loaded
          us_mem,       \* the map of the manager
          us_file,      \* what the file holds: a map, Torn, or Absent
          us_step,      \* where the call under way stands
          us_writes,    \* the texts handed to a background write
          us_over,      \* the last save began while an earlier write was under way
          us_failed     \* ghost: the last save failed, or a write since

accountsVars == <<us_up, us_mem, us_file, us_step, us_writes, us_over, us_failed>>

Hashes == {"none", "bcrypt", "argon2"}
Maps == [Users -> Hashes]
Torn == [u \in Users |-> "torn"]
Absent == [u \in Users |-> "absent"]
nobody == [u \in Users |-> "none"]

accountsTypeOK ==
  /\ us_up \in BOOLEAN /\ us_over \in BOOLEAN /\ us_failed \in BOOLEAN
  /\ us_mem \in Maps /\ us_file \in Maps \cup {Torn, Absent}
  /\ us_step \in {"idle", "starting", "create", "write"}
  /\ us_writes \subseteq Maps

accountsInit ==
  /\ us_up = FALSE /\ us_mem = nobody /\ us_file = Absent /\ us_step = "idle"
  /\ us_writes = {} /\ us_over = FALSE /\ us_failed = FALSE

\* User::new, and the default administrator, hash with bcrypt.
new_user == "bcrypt"

\* UserManager::new: a file there is loaded, one that is not is written with the
\* default administrator.  A file that does not parse is an error, and no start.
new ==
  /\ ~us_up /\ us_step = "idle"
  /\ \/ us_file \in Maps /\ us_mem' = us_file /\ us_up' = TRUE /\ UNCHANGED us_step
     \/ us_file = Absent /\ us_mem' = [nobody EXCEPT ![Admin] = new_user] /\ us_step' = "starting" /\ UNCHANGED us_up
  /\ us_over' = FALSE /\ us_failed' = FALSE /\ UNCHANGED <<us_file, us_writes>>

load_fails == ~us_up /\ us_file = Torn /\ us_step = "idle" /\ UNCHANGED accountsVars

idle == us_up /\ us_step = "idle"
stays == UNCHANGED <<us_up, us_file, us_writes, us_over, us_failed>>

\* A plausible slip: a change of a password is left to the next save.
set_unsaved(u) == us_mem' = [us_mem EXCEPT ![u] = "argon2"] /\ UNCHANGED <<us_step, us_up, us_file, us_writes, us_over, us_failed>>

\* Every call that changes the users goes on to save.
save(mem) == us_mem' = mem /\ us_step' = "create"

\* add_user is refused when the name or the mail is taken.
add_user(u) == idle /\ us_mem[u] = "none" /\ save([us_mem EXCEPT ![u] = new_user]) /\ stays

\* The time of the login, the key, the wallets and the subscription of a user are
\* not seen in his hash.
other_fields == us_mem

verify_password(u) == us_mem[u] = "bcrypt"

\* authenticate verifies with bcrypt, whatever the hash is.
authenticate(u) == idle /\ verify_password(u) /\ save(other_fields) /\ stays

update_user(u) == idle /\ us_mem[u] # "none" /\ save(other_fields) /\ stays
assign_wallet(u) == update_user(u)
unassign_wallet(u) == update_user(u)
update_user_subscription(u) == update_user(u)

delete_user(u) == idle /\ us_mem[u] # "none" /\ save([us_mem EXCEPT ![u] = "none"]) /\ stays

\* set_password, whose hash is Argon2's.
set_password(u) == save([us_mem EXCEPT ![u] = "argon2"]) /\ stays
change_password(u) == idle /\ verify_password(u) /\ set_password(u)
reset_password(u) == idle /\ us_mem[u] # "none" /\ set_password(u)

\* The calls that only read, and those refused.
reads == idle /\ UNCHANGED accountsVars
refused(u) == idle /\ ~verify_password(u) /\ UNCHANGED accountsVars

\* save, first part: File::create empties the file, or fails and leaves it.
save_create ==
  /\ us_step \in {"create", "starting"}
  /\ \/ us_file' = Torn /\ us_step' = "write" /\ us_over' = (us_writes # {}) /\ us_failed' = FALSE
     \/ us_step' = "idle" /\ us_failed' = TRUE /\ UNCHANGED <<us_file, us_over>>
  /\ UNCHANGED <<us_up, us_mem, us_writes>>

\* save, second part: write_all hands the text over and returns.
save_write ==
  /\ us_step = "write" /\ Cardinality(us_writes) < MaxWrites
  /\ us_writes' = us_writes \cup {us_mem} /\ us_step' = "idle" /\ us_up' = TRUE
  /\ UNCHANGED <<us_mem, us_file, us_over, us_failed>>

\* The background write: the text lands, alone in its file or over what another
\* save has put there, or fails unseen.
write_lands(m) ==
  /\ us_writes' = us_writes \ {m}
  /\ \/ us_file' \in (IF us_over THEN {m, Torn} ELSE {m}) /\ UNCHANGED us_failed
     \/ us_file' = Torn /\ us_failed' = TRUE
  /\ UNCHANGED <<us_up, us_mem, us_step, us_over>>

\* The process dies, with the writes that have not landed.
crash ==
  /\ (us_up \/ us_step # "idle") /\ us_up' = FALSE /\ us_step' = "idle" /\ us_writes' = {}
  /\ us_mem' = nobody /\ UNCHANGED <<us_file, us_over, us_failed>>

\* The operator removes a file that cannot be loaded.
repaired == ~us_up /\ us_file = Torn /\ us_step = "idle" /\ us_file' = Absent /\ UNCHANGED <<us_up, us_mem, us_step, us_writes, us_over, us_failed>>

accountsNext ==
  \/ new \/ load_fails \/ reads \/ save_create \/ save_write \/ crash \/ repaired
  \/ \E u \in Users : add_user(u) \/ authenticate(u) \/ update_user(u) \/ assign_wallet(u)
                     \/ unassign_wallet(u) \/ update_user_subscription(u) \/ delete_user(u)
                     \/ change_password(u) \/ reset_password(u) \/ refused(u)
  \/ \E m \in us_writes : write_lands(m)

\* Whatever calls, restarts and crashes came before: once the call under way and
\* its write are done, the file holds exactly what the memory holds, unless the
\* last save failed or began while the write of an earlier one was under way.
SettledFileIsMemory == us_up /\ us_step = "idle" /\ us_writes = {} /\ ~us_over /\ ~us_failed => us_file = us_mem

(***************************************************************************)
(* What a user has paid for: Subscription of common/src/user.rs (su_) and  *)
(* the SubscriptionManager of common/src/subscription.rs (sm_), one user   *)
(* each.  The two differ: the first starts a new stretch when the old one  *)
(* is over, the second adds days to an end that may lie in the past.  The  *)
(* clock goes by days.                                                     *)
(***************************************************************************)
CONSTANTS Durations, FirstDays, LastDay, MaxGrants

VARIABLES su_now,
          su_sub,     \* expiry_date, active
          su_bought, su_served, su_lost,     \* ghosts, in days
          sm_sub,     \* level, end_date, or NoSub
          sm_granted, sm_served, sm_stretches

daysVars == <<su_now, su_sub, su_bought, su_served, su_lost, sm_sub, sm_granted, sm_served, sm_stretches>>
su == <<su_sub, su_bought, su_served, su_lost>>
sm == <<sm_sub, sm_granted, sm_served, sm_stretches>>

Levels == {"Free", "Premium"}
NoSub == [level |-> "Free", end |-> -1]

daysTypeOK ==
  /\ su_now \in 0..LastDay /\ su_sub \in [expiry : Nat, active : BOOLEAN]
  /\ {su_bought, su_served, su_lost, sm_granted, sm_served, sm_stretches} \subseteq Nat
  /\ sm_sub \in [level : Levels, end : Nat] \cup {NoSub}

\* User::new: a free subscription to begin with.
daysInit ==
  /\ su_now = 0 /\ su_sub = [expiry |-> FirstDays, active |-> TRUE]
  /\ su_bought = FirstDays /\ su_served = 0 /\ su_lost = 0
  /\ sm_sub = NoSub /\ sm_granted = 0 /\ sm_served = 0 /\ sm_stretches = 0

left(expiry) == IF expiry > su_now THEN expiry - su_now ELSE 0
buys(days) == su_bought + days <= MaxGrants /\ su_bought' = su_bought + days

is_active == su_sub.active /\ su_now < su_sub.expiry

\* Subscription::extend.
extended(days) ==
  [expiry |-> days + (IF su_now > su_sub.expiry THEN su_now ELSE su_sub.expiry), active |-> TRUE]

extend(days) ==
  /\ buys(days) /\ su_sub' = extended(days) /\ UNCHANGED <<su_now, su_served, su_lost>> /\ UNCHANGED sm

\* User::update_subscription: one that is not active is replaced, and what a
\* deactivated one had left goes with it.
update_subscription(days) ==
  /\ buys(days) /\ UNCHANGED <<su_now, su_served>> /\ UNCHANGED sm
  /\ \/ is_active /\ su_sub' = extended(days) /\ UNCHANGED su_lost
     \/ ~is_active /\ su_sub' = [expiry |-> su_now + days, active |-> TRUE]
        /\ su_lost' = su_lost + left(su_sub.expiry)

\* The handler of the API asks for it once the level is one there is.
update_subscription_handler == (\E d \in Durations : update_subscription(d)) \/ UNCHANGED daysVars

deactivate == su_sub' = [su_sub EXCEPT !.active = FALSE] /\ UNCHANGED <<su_now, su_bought, su_served, su_lost>> /\ UNCHANGED sm
reactivate == su_sub' = [su_sub EXCEPT !.active = TRUE] /\ UNCHANGED <<su_now, su_bought, su_served, su_lost>> /\ UNCHANGED sm

grants(days) == sm_granted + days <= MaxGrants /\ sm_granted' = sm_granted + days

\* update_user_level: days for a user who has none, only the level for others.
update_user_level(level) ==
  /\ \/ sm_sub # NoSub /\ sm_sub' = [sm_sub EXCEPT !.level = level] /\ UNCHANGED <<sm_granted, sm_stretches>>
     \/ sm_sub = NoSub /\ grants(FirstDays) /\ sm_stretches' = sm_stretches + 1
        /\ sm_sub' = [level |-> level, end |-> su_now + FirstDays]
  /\ UNCHANGED <<su_now, sm_served>> /\ UNCHANGED su

extend_subscription(days) ==
  /\ sm_sub # NoSub /\ grants(days) /\ sm_sub' = [sm_sub EXCEPT !.end = @ + days]
  /\ UNCHANGED <<su_now, sm_served, sm_stretches>> /\ UNCHANGED su

\* check_subscription_limits for a trade that the level allows: the end is included.
allows == sm_sub # NoSub /\ su_now <= sm_sub.end

cleanup_expired_subscriptions ==
  /\ sm_sub # NoSub /\ sm_sub.end < su_now /\ sm_sub' = NoSub
  /\ UNCHANGED <<su_now, sm_granted, sm_served, sm_stretches>> /\ UNCHANGED su

\* A day goes by: it was served if it could be traded on.
tick ==
  /\ su_now < LastDay /\ su_now' = su_now + 1
  /\ su_served' = su_served + (IF is_active THEN 1 ELSE 0)
  /\ su_lost' = su_lost + (IF ~su_sub.active /\ su_now < su_sub.expiry THEN 1 ELSE 0)
  /\ sm_served' = sm_served + (IF allows THEN 1 ELSE 0)
  /\ UNCHANGED <<su_sub, su_bought, sm_sub, sm_granted, sm_stretches>>

daysNext ==
  \/ update_subscription_handler \/ deactivate \/ reactivate \/ cleanup_expired_subscriptions \/ tick
  \/ \E d \in Durations : extend(d) \/ extend_subscription(d)
  \/ \E l \in Levels : update_user_level(l)

\* Every day that was bought has been served, is still to come, or was lost to a
\* deactivation: a renewal, early or late, gives exactly its days.
DaysAddUp == su_bought = su_served + su_lost + left(su_sub.expiry)

\* The manager never lets a user trade on more days than were granted, but for the
\* day an end falls on: days added to an end that has passed serve no purpose.
TradesWithinGrants == sm_served <= sm_granted + sm_stretches
=============================================================================
