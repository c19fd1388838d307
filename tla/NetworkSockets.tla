-------------------------- MODULE NetworkSockets --------------------------
(***************************************************************************)
(* The two ends of a websocket in the network crate: the server and its    *)
(* clients' handlers, and the client that connects again.                  *)
(***************************************************************************)
EXTENDS Naturals, FiniteSets, Sequences, SequencesExt

(***************************************************************************)
(* network/websocket_server.rs: for each socket a handler with two tasks,  *)
(* one that writes what a bounded channel holds to the socket, one that    *)
(* reads the socket and, when that ends, takes the client out of the three *)
(* maps.  When one of the tasks has ended the other is aborted.  A         *)
(* broadcast keeps the mutex of the clients while it waits for room in     *)
(* every channel, and a message for one client does so for its channel.    *)
(***************************************************************************)
CONSTANTS Clients, ChannelRoom, MaxBroadcasts

VARIABLES ws_phase,     \* the handler: new, checked, open, over
          ws_clients,   \* the map of channels
          ws_auth,      \* the authenticated clients
          ws_limits,    \* the clients with a message window
          ws_channel,   \* messages in each channel
          ws_send, ws_recv,  \* the tasks: none, run, cleaning, cleaned, ended, aborted
          ws_cast,      \* the clients the broadcast has yet to serve, none when there is none
          ws_served,    \* ghost: the clients it reached, or whose channel is closed
          ws_broadcasts

serverVars == <<ws_phase, ws_clients, ws_auth, ws_limits, ws_channel, ws_send, ws_recv, ws_cast, ws_served,
                ws_broadcasts>>
maps == <<ws_clients, ws_auth, ws_limits>>
casts == <<ws_cast, ws_served, ws_broadcasts>>
idle == Clients \cup {"none"}
SocketTasks == {"none", "run", "cleaning", "cleaned", "ended", "aborted"}

serverTypeOK ==
  /\ ws_phase \in [Clients -> {"new", "checked", "open", "over"}] /\ ws_clients \cup ws_auth \cup ws_limits \subseteq Clients
  /\ ws_channel \in [Clients -> 0 .. ChannelRoom] /\ ws_send \in [Clients -> SocketTasks] /\ ws_recv \in [Clients -> SocketTasks]
  /\ ws_cast \subseteq idle /\ ws_served \subseteq Clients /\ ws_broadcasts \in 0 .. MaxBroadcasts

serverInit ==
  /\ ws_phase = [c \in Clients |-> "new"] /\ ws_clients = {} /\ ws_auth = {} /\ ws_limits = {}
  /\ ws_channel = [c \in Clients |-> 0] /\ ws_send = [c \in Clients |-> "none"] /\ ws_recv = [c \in Clients |-> "none"]
  /\ ws_cast = {"none"} /\ ws_served = {} /\ ws_broadcasts = 0

unlocked == ws_cast = {"none"}
closed(c) == ws_send[c] \in {"ended", "aborted"}

(***************************************************************************)
(* handle_socket.                                                          *)
(***************************************************************************)
\* The token, when there is one: a wrong one ends the handler.
token_ok(c) ==
  /\ ws_phase[c] = "new" /\ ws_phase' = [ws_phase EXCEPT ![c] = "checked"]
  /\ \/ ws_auth' = ws_auth \cup {c}
     \/ ws_auth' = ws_auth
  /\ UNCHANGED <<ws_clients, ws_limits, ws_channel, ws_send, ws_recv, casts>>

token_wrong(c) ==
  /\ ws_phase[c] = "new" /\ ws_phase' = [ws_phase EXCEPT ![c] = "over"]
  /\ UNCHANGED <<maps, ws_channel, ws_send, ws_recv, casts>>

handle_socket(c) ==
  /\ ws_phase[c] = "checked" /\ unlocked /\ ws_phase' = [ws_phase EXCEPT ![c] = "open"] /\ ws_clients' = ws_clients \cup {c}
  /\ ws_send' = [ws_send EXCEPT ![c] = "run"] /\ ws_recv' = [ws_recv EXCEPT ![c] = "run"]
  /\ UNCHANGED <<ws_auth, ws_limits, ws_channel, casts>>

\* The send task: a message is written, or the socket is broken and the task ends,
\* and with it the receiver of the channel.
writes(c) ==
  /\ ws_send[c] = "run" /\ ws_channel[c] > 0 /\ ws_channel' = [ws_channel EXCEPT ![c] = @ - 1]
  /\ UNCHANGED <<ws_phase, maps, ws_send, ws_recv, casts>>

write_fails(c) ==
  /\ ws_send[c] = "run" /\ ws_channel[c] > 0 /\ ws_send' = [ws_send EXCEPT ![c] = "ended"]
  /\ UNCHANGED <<ws_phase, maps, ws_channel, ws_recv, casts>>

\* A text opens or counts in the window of its client.  No text is answered: ping
\* is not JSON, and what is not JSON is passed over.
check_rate_limit(c) ==
  /\ ws_recv[c] = "run" /\ c \notin ws_limits /\ ws_limits' = ws_limits \cup {c}
  /\ UNCHANGED <<ws_phase, ws_clients, ws_auth, ws_channel, ws_send, ws_recv, casts>>

\* The socket is closed: the task goes on to the maps.
closes(c) ==
  /\ ws_recv[c] = "run" /\ ws_recv' = [ws_recv EXCEPT ![c] = "cleaning"]
  /\ UNCHANGED <<ws_phase, maps, ws_channel, ws_send, casts>>

\* Once the channel is out of the map it has no sender left.
remove_client(c) ==
  /\ ws_recv[c] = "cleaning" /\ unlocked /\ ws_clients' = ws_clients \ {c} /\ ws_recv' = [ws_recv EXCEPT ![c] = "cleaned"]
  /\ UNCHANGED <<ws_phase, ws_auth, ws_limits, ws_channel, ws_send, casts>>

remove_rest(c) ==
  /\ ws_recv[c] = "cleaned" /\ ws_auth' = ws_auth \ {c} /\ ws_limits' = ws_limits \ {c}
  /\ ws_recv' = [ws_recv EXCEPT ![c] = "ended"] /\ UNCHANGED <<ws_phase, ws_clients, ws_channel, ws_send, casts>>

no_sender(c) ==
  /\ ws_send[c] = "run" /\ ws_channel[c] = 0 /\ ws_phase[c] = "open" /\ c \notin ws_clients
  /\ ws_send' = [ws_send EXCEPT ![c] = "ended"] /\ UNCHANGED <<ws_phase, maps, ws_channel, ws_recv, casts>>

\* select: the task that still runs is aborted, wherever it waits.
aborts(c) ==
  /\ ws_phase[c] = "open" /\ "ended" \in {ws_send[c], ws_recv[c]} /\ ws_phase' = [ws_phase EXCEPT ![c] = "over"]
  /\ ws_send' = [ws_send EXCEPT ![c] = IF @ = "ended" THEN @ ELSE "aborted"]
  /\ ws_recv' = [ws_recv EXCEPT ![c] = IF @ = "ended" THEN @ ELSE "aborted"]
  /\ UNCHANGED <<maps, ws_channel, casts>>

(***************************************************************************)
(* broadcast.                                                              *)
(***************************************************************************)
broadcast ==
  /\ unlocked /\ ws_broadcasts < MaxBroadcasts /\ ws_broadcasts' = ws_broadcasts + 1
  /\ ws_cast' = ws_clients /\ ws_served' = {} /\ UNCHANGED <<ws_phase, maps, ws_channel, ws_send, ws_recv>>

\* A message for one client: nobody else is waited for.
send_to_client(c) ==
  /\ unlocked /\ c \in ws_clients /\ ws_broadcasts < MaxBroadcasts /\ ws_broadcasts' = ws_broadcasts + 1
  /\ ws_cast' = {c} /\ ws_served' = ws_clients \ {c} /\ UNCHANGED <<ws_phase, maps, ws_channel, ws_send, ws_recv>>

get_connected_count == unlocked /\ UNCHANGED serverVars

served(c) == ws_cast' = ws_cast \ {c} /\ ws_served' = ws_served \cup {c} /\ UNCHANGED <<ws_phase, maps, ws_send, ws_recv, ws_broadcasts>>

sends_to(c) ==
  /\ c \in ws_cast /\ ~closed(c) /\ ws_channel[c] < ChannelRoom /\ ws_channel' = [ws_channel EXCEPT ![c] = @ + 1] /\ served(c)

\* The channel is closed: an error in the log, and the next client.
cannot_send(c) == c \in ws_cast /\ closed(c) /\ UNCHANGED ws_channel /\ served(c)

broadcast_ends ==
  /\ ws_cast = {} /\ ws_cast' = {"none"} /\ UNCHANGED <<ws_phase, maps, ws_channel, ws_send, ws_recv, ws_served, ws_broadcasts>>

opens(c) == token_ok(c) \/ token_wrong(c) \/ handle_socket(c)
drains(c) == writes(c) \/ write_fails(c) \/ no_sender(c)
cleans(c) == remove_client(c) \/ remove_rest(c)
serves(c) == sends_to(c) \/ cannot_send(c)

serverNext ==
  \/ broadcast \/ broadcast_ends \/ get_connected_count
  \/ \E c \in Clients : opens(c) \/ drains(c) \/ check_rate_limit(c) \/ closes(c) \/ cleans(c) \/ aborts(c) \/ serves(c) \/ send_to_client(c)

\* The runtime runs the tasks, and a socket takes what is written or breaks.
serverFairness ==
  /\ WF_serverVars(broadcast_ends)
  /\ \A c \in Clients : WF_serverVars(drains(c)) /\ WF_serverVars(cleans(c)) /\ WF_serverVars(aborts(c)) /\ WF_serverVars(serves(c))

\* A client is left behind in a map only when its reading task was aborted, or the
\* handler is not done with it.
LeftByAbortOnly == \A c \in Clients : c \in ws_clients \cup ws_limits /\ ws_phase[c] = "over" => ws_recv[c] = "aborted"

\* A broadcast that is over reached every client in the map, or found its channel
\* closed: nobody joins or leaves while it lasts.
CastReachesAll == [][ws_cast # {"none"} /\ ws_cast' = {"none"} => ws_clients = ws_served]_serverVars

\* A broadcast ends, however slow the clients are, and gives the clients back.
CastEnds == ~unlocked ~> unlocked

\* A client that closes its socket leaves the map of channels, or its handler ends
\* by the other task.
ClosedLeaves == \A c \in Clients : ws_recv[c] = "cleaning" ~> c \notin ws_clients \/ ws_recv[c] = "aborted"

(***************************************************************************)
(* network/websocket.rs: connect spawns a loop that connects, runs three   *)
(* tasks until one of them ends, and connects again after a delay.  The    *)
(* queue of messages, the connected flag and the count of attempts belong  *)
(* to the client: a second call of connect shares them.  The send task     *)
(* takes a message out of the queue before it writes it, and keeps the     *)
(* queue's mutex until it is written.                                      *)
(***************************************************************************)
CONSTANTS Loops, Nobody, QueueSize, MaxMessages, MaxBreaks, MaxAttempts

VARIABLES wc_loop,        \* each loop: off, connecting, up, broken, delay, over
          wc_connected,   \* the flag
          wc_attempts,
          wc_queue,       \* messages, numbered as they are pushed
          wc_writer,      \* whose send task has the queue's mutex, and a message in hand
          wc_written,     \* ghost: what reached a socket, in order
          wc_lost,        \* ghost: taken out and not written
          wc_pushed, wc_breaks

clientVars == <<wc_loop, wc_connected, wc_attempts, wc_queue, wc_writer, wc_written, wc_lost, wc_pushed, wc_breaks>>
msgs == <<wc_queue, wc_writer, wc_written, wc_lost, wc_pushed>>

clientTypeOK ==
  /\ wc_loop \in [Loops -> {"off", "connecting", "up", "broken", "delay", "over"}] /\ wc_connected \in BOOLEAN
  /\ wc_attempts \in Nat /\ wc_queue \in Seq(1 .. MaxMessages) /\ Len(wc_queue) <= QueueSize
  /\ wc_writer \in Loops \cup {Nobody} /\ wc_written \in Seq(1 .. MaxMessages) /\ wc_lost \in Seq(1 .. MaxMessages)
  /\ wc_pushed \in 0 .. MaxMessages /\ wc_breaks \in 0 .. MaxBreaks

clientInit ==
  /\ wc_loop = [l \in Loops |-> "off"] /\ wc_connected = FALSE /\ wc_attempts = 0 /\ wc_queue = <<>>
  /\ wc_writer = Nobody /\ wc_written = <<>> /\ wc_lost = <<>> /\ wc_pushed = 0 /\ wc_breaks = 0

\* The mutex of the queue.
queue_unlocked == wc_writer = Nobody
goes(l, from, to) == wc_loop[l] = from /\ wc_loop' = [wc_loop EXCEPT ![l] = to]

connect(l) == goes(l, "off", "connecting") /\ wc_attempts' = 0 /\ UNCHANGED <<wc_connected, msgs, wc_breaks>>

connected(l) ==
  /\ goes(l, "connecting", "up") /\ wc_connected' = TRUE /\ wc_attempts' = 0 /\ UNCHANGED <<msgs, wc_breaks>>

\* A connection that is refused ends the loop: it is not tried again.
refused(l) == goes(l, "connecting", "over") /\ UNCHANGED <<wc_connected, wc_attempts, msgs, wc_breaks>>

\* A full queue: the subscription is passed over, and the caller is told all is well.
subscribe_to_pending_txs ==
  /\ queue_unlocked /\ wc_pushed < MaxMessages /\ wc_pushed' = wc_pushed + 1
  /\ wc_queue' = IF Len(wc_queue) >= QueueSize THEN wc_queue ELSE Append(wc_queue, wc_pushed + 1)
  /\ UNCHANGED <<wc_loop, wc_connected, wc_attempts, wc_writer, wc_written, wc_lost, wc_breaks>>

\* The send task: the first message out of the queue, and then to the socket.
takes(l) ==
  /\ wc_loop[l] = "up" /\ wc_connected /\ queue_unlocked /\ wc_queue # <<>> /\ wc_writer' = l
  /\ UNCHANGED <<wc_loop, wc_connected, wc_attempts, wc_queue, wc_written, wc_lost, wc_pushed, wc_breaks>>

\* A plausible slip: a message that could not be written goes to the end of the queue.
put_back(l) ==
  /\ wc_writer = l /\ wc_writer' = Nobody
  /\ \/ wc_written' = Append(wc_written, Head(wc_queue)) /\ wc_queue' = Tail(wc_queue)
     \/ wc_queue' = Append(Tail(wc_queue), Head(wc_queue)) /\ UNCHANGED wc_written
  /\ UNCHANGED <<wc_loop, wc_connected, wc_attempts, wc_lost, wc_pushed, wc_breaks>>

writes_message(l) ==
  /\ wc_writer = l /\ wc_writer' = Nobody /\ wc_written' = Append(wc_written, Head(wc_queue)) /\ wc_queue' = Tail(wc_queue)
  /\ UNCHANGED <<wc_loop, wc_connected, wc_attempts, wc_lost, wc_pushed, wc_breaks>>

\* A message in hand when its connection ends is gone.
dropped(l) ==
  IF wc_writer = l
  THEN wc_lost' = Append(wc_lost, Head(wc_queue)) /\ wc_queue' = Tail(wc_queue) /\ wc_writer' = Nobody
  ELSE UNCHANGED <<wc_lost, wc_queue, wc_writer>>

\* A task ends: the socket failed a write, a ping or a read, or was closed, and the
\* other two are aborted.
breaks(l) ==
  /\ wc_breaks < MaxBreaks /\ wc_breaks' = wc_breaks + 1 /\ goes(l, "up", "broken") /\ dropped(l)
  /\ wc_connected' \in {wc_connected, FALSE} /\ UNCHANGED <<wc_attempts, wc_written, wc_pushed>>

\* The other loop has cleared the flag: the send task stops, and the rest with it.
stops(l) ==
  /\ ~wc_connected /\ goes(l, "up", "broken") /\ wc_writer # l
  /\ UNCHANGED <<wc_connected, wc_attempts, msgs, wc_breaks>>

\* One attempt more; with too many the loop ends.
reconnect(l) ==
  /\ wc_loop[l] = "broken" /\ wc_connected' = FALSE /\ wc_attempts' = wc_attempts + 1
  /\ wc_loop' = [wc_loop EXCEPT ![l] = IF wc_attempts + 1 < MaxAttempts THEN "delay" ELSE "over"]
  /\ UNCHANGED <<msgs, wc_breaks>>

delay_ends(l) == goes(l, "delay", "connecting") /\ UNCHANGED <<wc_connected, wc_attempts, msgs, wc_breaks>>

get_sender == UNCHANGED clientVars

clientNext ==
  \/ get_sender \/ subscribe_to_pending_txs
  \/ \E l \in Loops : connect(l) \/ connected(l) \/ refused(l) \/ takes(l) \/ writes_message(l) \/ breaks(l) \/ stops(l) \/ reconnect(l) \/ delay_ends(l)

\* What reaches a socket does so once and in the order it was pushed, over breaks
\* and two loops that share the queue.
WrittenInOrder == \A i, j \in DOMAIN wc_written : i < j => wc_written[i] < wc_written[j]

\* A connection that ends takes at most one message with it.
LostOnePerBreak == Len(wc_lost) <= wc_breaks

\* Breaks never add up to the number of attempts after which the loop ends: every
\* connection counts from the start, and only other loops count between.  A server
\* that accepts and closes is called again for ever.
AttemptsNeverAddUp == wc_attempts <= Cardinality(Loops)
=============================================================================
