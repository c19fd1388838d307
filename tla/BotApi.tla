-------------------------------- MODULE BotApi --------------------------------
(***************************************************************************)
(* api.rs: the handlers that change users.  Both take the mutex of the     *)
(* user manager, change a user in memory and save all users before they    *)
(* answer, with the mutex held; a save that fails is answered with an      *)
(* error and what was changed in memory stays.  The server reads the file  *)
(* when it starts again.                                                   *)
(***************************************************************************)
EXTENDS Naturals, FiniteSets

CONSTANTS ApiRequests, Names, Nobody, MaxStops

VARIABLES ba_step,     \* new, waiting, changed, ok, bad, failed, dropped
          ba_kind, ba_name, ba_level,  \* what each request asks: register or subscribe, and for whom
          ba_lock,     \* the request that has the user manager
          ba_memory, ba_file,   \* the level of each user, or absent
          ba_told,     \* ghost: the last level a request for the user was told of
          ba_unsure,   \* ghost: users changed since by a request that was told of a failure, or of nothing
          ba_stops

vars == <<ba_step, ba_kind, ba_name, ba_level, ba_lock, ba_memory, ba_file, ba_told, ba_unsure, ba_stops>>
asked == <<ba_kind, ba_name, ba_level>>
Levels == {"absent", "free", "premium"}
Steps == {"new", "waiting", "changed", "ok", "bad", "failed", "dropped"}

TypeOK ==
  /\ ba_step \in [ApiRequests -> Steps] /\ ba_kind \in [ApiRequests -> {"register", "subscribe"}] /\ ba_name \in [ApiRequests -> Names]
  /\ ba_level \in [ApiRequests -> Levels] /\ ba_lock \in ApiRequests \cup {Nobody} /\ ba_memory \in [Names -> Levels]
  /\ ba_file \in [Names -> Levels] /\ ba_told \in [Names -> Levels] /\ ba_unsure \subseteq Names /\ ba_stops \in 0 .. MaxStops

Init ==
  /\ ba_step = [r \in ApiRequests |-> "new"] /\ ba_kind = [r \in ApiRequests |-> "register"] /\ ba_level = [r \in ApiRequests |-> "free"]
  /\ \E n \in Names : ba_name = [r \in ApiRequests |-> n]
  /\ ba_lock = Nobody /\ ba_memory = [n \in Names |-> "absent"] /\ ba_file = ba_memory /\ ba_told = ba_memory
  /\ ba_unsure = {} /\ ba_stops = 0

\* A request comes in, with a level the code knows or takes for free.
arrives(r, kind, n, level) ==
  /\ ba_step[r] = "new" /\ ba_step' = [ba_step EXCEPT ![r] = "waiting"]
  /\ kind = "register" => level = "free"
  /\ ba_kind' = [ba_kind EXCEPT ![r] = kind] /\ ba_name' = [ba_name EXCEPT ![r] = n] /\ ba_level' = [ba_level EXCEPT ![r] = level]
  /\ UNCHANGED <<ba_lock, ba_memory, ba_file, ba_told, ba_unsure, ba_stops>>

\* It has the mutex.
has(r) == ba_step[r] = "waiting" /\ ba_lock = Nobody /\ UNCHANGED <<asked, ba_file, ba_told, ba_unsure, ba_stops>>
becomes(r, step) == ba_step' = [ba_step EXCEPT ![r] = step]

\* register: an empty field, an address without @ or a short password.
register_bad(r) == has(r) /\ ba_kind[r] = "register" /\ becomes(r, "bad") /\ UNCHANGED <<ba_lock, ba_memory>>

register_taken(r) ==
  /\ has(r) /\ ba_kind[r] = "register" /\ ba_memory[ba_name[r]] # "absent" /\ becomes(r, "bad")
  /\ UNCHANGED <<ba_lock, ba_memory>>

register(r) ==
  /\ has(r) /\ ba_kind[r] = "register" /\ ba_memory[ba_name[r]] = "absent" /\ becomes(r, "changed") /\ ba_lock' = r
  /\ ba_memory' = [ba_memory EXCEPT ![ba_name[r]] = "free"]

\* update_subscription_handler: the level replaces what the user had.
subscribe_unknown(r) ==
  /\ has(r) /\ ba_kind[r] = "subscribe" /\ ba_memory[ba_name[r]] = "absent" /\ becomes(r, "bad")
  /\ UNCHANGED <<ba_lock, ba_memory>>

update_subscription_handler(r) ==
  /\ has(r) /\ ba_kind[r] = "subscribe" /\ ba_memory[ba_name[r]] # "absent" /\ becomes(r, "changed") /\ ba_lock' = r
  /\ ba_memory' = [ba_memory EXCEPT ![ba_name[r]] = ba_level[r]]

told(r) == ba_told' = [ba_told EXCEPT ![ba_name[r]] = ba_memory[ba_name[r]]] /\ ba_unsure' = ba_unsure \ {ba_name[r]}
untold(r) == ba_unsure' = ba_unsure \cup {ba_name[r]} /\ UNCHANGED ba_told

\* save_users, with the mutex held, and the answer.
save_ok(r) ==
  /\ ba_step[r] = "changed" /\ becomes(r, "ok") /\ ba_file' = ba_memory /\ told(r) /\ ba_lock' = Nobody
  /\ UNCHANGED <<asked, ba_memory, ba_stops>>

\* A plausible slip: a save that fails is a line in the log.
save_fails_logged(r) ==
  /\ ba_step[r] = "changed" /\ becomes(r, "ok") /\ told(r) /\ ba_lock' = Nobody
  /\ UNCHANGED <<asked, ba_memory, ba_file, ba_stops>>

save_fails(r) ==
  /\ ba_step[r] = "changed" /\ becomes(r, "failed") /\ untold(r) /\ ba_lock' = Nobody
  /\ UNCHANGED <<asked, ba_memory, ba_file, ba_stops>>

\* The client goes away: its handler is dropped where it waits, and the mutex with it.
\* What it was writing by then is in the file, or is not.
client_gone(r) ==
  /\ ba_step[r] \in {"waiting", "changed"} /\ becomes(r, "dropped")
  /\ IF ba_step[r] = "changed"
     THEN untold(r) /\ ba_lock' = Nobody /\ ba_file' \in {ba_file, ba_memory}
     ELSE UNCHANGED <<ba_told, ba_unsure, ba_lock, ba_file>>
  /\ UNCHANGED <<asked, ba_memory, ba_stops>>

\* The process stops, and starts again with the users of the file.
stops ==
  /\ ba_stops < MaxStops /\ ba_stops' = ba_stops + 1 /\ ba_memory' = ba_file /\ ba_lock' = Nobody
  /\ ba_step' = [r \in ApiRequests |-> IF ba_step[r] \in {"waiting", "changed"} THEN "dropped" ELSE ba_step[r]]
  /\ ba_unsure' = ba_unsure \cup {ba_name[r] : r \in {q \in ApiRequests : ba_step[q] = "changed"}}
  /\ UNCHANGED <<asked, ba_file, ba_told>>

\* The handlers that read the users wait for the mutex.
get_admin_stats == ba_lock = Nobody /\ UNCHANGED vars
health_check == UNCHANGED vars

answers(r) == register_bad(r) \/ register_taken(r) \/ subscribe_unknown(r)
changes(r) == register(r) \/ update_subscription_handler(r)
saves(r) == save_ok(r) \/ save_fails(r)

Next ==
  \/ stops \/ get_admin_stats \/ health_check
  \/ \E r \in ApiRequests : answers(r) \/ changes(r) \/ saves(r) \/ client_gone(r)
  \/ \E r \in ApiRequests, n \in Names, kind \in {"register", "subscribe"}, level \in Levels \ {"absent"} : arrives(r, kind, n, level)

\* The mutex is handed on, with as many requests as there are in turn, and a save ends.
Fairness == \A r \in ApiRequests : WF_vars(answers(r) \/ changes(r)) /\ WF_vars(saves(r))

Spec == Init /\ [][Next]_vars /\ Fairness

(***************************************************************************)
(* Properties.                                                             *)
(***************************************************************************)

\* What a client was told of is in the file, unless a later request for the same
\* user changed it without a word of success.
ToldIsSaved == \A n \in Names : n \notin ba_unsure => ba_file[n] = ba_told[n]

registered == {r \in ApiRequests : ba_kind[r] = "register" /\ ba_step[r] = "ok"}

\* At most one registration of a name is ever a success, over saves that fail and
\* restarts that forget.
OneRegistration == \A r, q \in registered : ba_name[r] = ba_name[q] => r = q

\* Whoever waits for the users gets an answer, or goes away, whatever happens to the
\* requests before it.
WaitersAnswered == \A r \in ApiRequests : ba_step[r] = "waiting" ~> ba_step[r] \in {"ok", "bad", "failed", "dropped"}
=============================================================================
