------------------------------ MODULE OmniBridge ------------------------------
(***************************************************************************)
(* DiamondToken composed with LayerZero and the token contracts of the     *)
(* other chains.  bridge_out burns on NEAR and sends a message with        *)
(* lz_send; the promise has no callback, so a failed send is never undone. *)
(* The LayerZero endpoint answers a message from a remote chain with       *)
(* bridge_in, and keeps the message when that call reverts.                *)
(*                                                                         *)
(* The remote side is not in this repository: it mints what a message      *)
(* brings and burns what it sends.                                         *)
(***************************************************************************)
EXTENDS DiamondToken, FiniteSetsExt

CONSTANT MaxMessages   \* bound on the messages ever sent, in both directions

VARIABLES
  outbound,   \* messages sent by lz_send, not yet received remotely
  inbound,    \* messages from remote chains, not yet accepted by bridge_in
  remote,     \* chain -> tokens that exist there
  lost,       \* tokens burned for messages that were never sent
  issued,     \* history: what mint, burn and unregistrations added in total
  sent        \* number of messages so far, and the id of the last

lzVars == <<outbound, inbound, remote, lost, issued, sent>>
vars == <<tokenVars, lzVars>>

(* LayerZero chain ids are u16 values. *)
ASSUME MessageBound == MaxMessages \in Nat /\ IsFiniteSet(Chains)

Message == [id : 1 .. MaxMessages, chain : Chains, receiver : Accounts, amount : Nat]

BridgeTypeOK ==
  /\ TypeOK
  /\ outbound \in SUBSET Message
  /\ inbound \in SUBSET Message
  /\ remote \in [Chains -> Nat]
  /\ lost \in Nat /\ issued \in Int /\ sent \in 0 .. MaxMessages

InFlight(messages) == MapThenSumSet(LAMBDA m : m.amount, messages)

GlobalSupply == total_supply + InFlight(outbound) + InFlight(inbound) + SumFunction(remote)

-----------------------------------------------------------------------------
Init ==
  /\ TokenInit
  /\ outbound = {} /\ inbound = {}
  /\ remote = [c \in Chains |-> 0]
  /\ lost = 0 /\ issued = 0 /\ sent = 0

(* A call that is not about the bridge; what it mints or burns is noted. *)
Local(caller) ==
  /\ LocalCall(caller)
  /\ issued' = issued + (total_supply' - total_supply)
  /\ UNCHANGED <<outbound, inbound, remote, lost, sent>>

\* A plausible slip: the message carries the amount after the fee was added.
lz_send_with_fee(chain, receiver, amount, fees) ==
  /\ sent < MaxMessages
  /\ sent' = sent + 1
  /\ outbound' = outbound \cup
       {[id |-> sent + 1, chain |-> chain, receiver |-> receiver, amount |-> amount + fees]}

lz_send(chain, receiver, amount, fees) ==
  /\ sent < MaxMessages
  /\ sent' = sent + 1
  /\ outbound' = outbound \cup
       {[id |-> sent + 1, chain |-> chain, receiver |-> receiver, amount |-> amount]}

BridgeOut(caller, chain, amount, fees) ==
  /\ bridge_out(caller, chain, amount, fees)
  /\ lz_send(chain, caller, amount, fees)
  /\ UNCHANGED <<inbound, remote, lost, issued>>

(* The lz_send promise fails after bridge_out has burned the tokens. *)
LzSendFails(m) ==
  /\ outbound' = outbound \ {m}
  /\ lost' = lost + m.amount
  /\ UNCHANGED <<tokenVars, inbound, remote, issued, sent>>

RemoteReceive(m) ==
  /\ outbound' = outbound \ {m}
  /\ remote' = [remote EXCEPT ![m.chain] = @ + m.amount]
  /\ UNCHANGED <<tokenVars, inbound, lost, issued, sent>>

RemoteSend(chain, receiver, amount) ==
  /\ remote[chain] >= amount
  /\ sent < MaxMessages
  /\ sent' = sent + 1
  /\ remote' = [remote EXCEPT ![chain] = @ - amount]
  /\ inbound' = inbound \cup
       {[id |-> sent + 1, chain |-> chain, receiver |-> receiver, amount |-> amount]}
  /\ UNCHANGED <<tokenVars, outbound, lost, issued>>

(* The endpoint delivers a message; a reverted bridge_in leaves it queued. *)
BridgeIn(m) ==
  /\ bridge_in(lz_endpoint, m.chain, m.receiver, m.amount)
  /\ inbound' = inbound \ {m}
  /\ UNCHANGED <<outbound, remote, lost, issued, sent>>

Next ==
  \/ \E caller \in Accounts : Local(caller)
  \/ \E caller \in Accounts, c \in Chains, n \in Amounts, f \in Fees : BridgeOut(caller, c, n, f)
  \/ \E m \in outbound : LzSendFails(m)
  \/ \E m \in outbound : RemoteReceive(m)
  \/ \E c \in Chains, a \in Accounts, n \in Amounts : RemoteSend(c, a, n)
  \/ \E m \in inbound : BridgeIn(m)

Spec == Init /\ [][Next]_vars

-----------------------------------------------------------------------------
(* The bridge neither creates nor destroys tokens, but for the ones whose  *)
(* lz_send failed: the NEAR supply, both directions in flight and the      *)
(* remote supplies add up to what was ever issued.                         *)
Conservation == GlobalSupply + lost = INITIAL_SUPPLY + issued
=============================================================================
