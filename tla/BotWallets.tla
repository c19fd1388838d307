---------------------------- MODULE BotWallets ----------------------------
(***************************************************************************)
(* The wallets of a SnipeBot (snipebot/src/snipebot.rs): the wallet        *)
(* manager's list, its file, and the three places in which the bot keeps   *)
(* the selected wallet - current_wallet_info, current_wallet_address and   *)
(* the signer inside the chain adapter.  Calls that take &mut self exclude *)
(* each other and the manager sits behind a mutex, so a call is one step;  *)
(* what makes calls hard is that writing the file may fail on the way and  *)
(* that the process may be restarted.                                      *)
(***************************************************************************)
EXTENDS Naturals, FiniteSets

CONSTANTS Wallets,       \* addresses
          ConfigWallet,  \* the wallet of config.private_key
          NoWallet

VARIABLES bw_stored,   \* the wallets the manager holds in memory
          bw_file,     \* the wallets in its file
          bw_info,     \* current_wallet_info
          bw_address,  \* current_wallet_address
          bw_signer,   \* the wallet set in the chain adapter
          bw_acked     \* history: wallets a call reported Ok for, not removed since

botVars == <<bw_info, bw_address, bw_signer>>
vars == <<bw_stored, bw_file, bw_info, bw_address, bw_signer, bw_acked>>

TypeOK ==
  /\ bw_stored \subseteq Wallets
  /\ bw_file \subseteq Wallets
  /\ bw_info \in Wallets \cup {ConfigWallet}
  /\ bw_address \in Wallets \cup {NoWallet}
  /\ bw_signer \in Wallets \cup {ConfigWallet}
  /\ bw_acked \subseteq Wallets

(***************************************************************************)
(* The bot starts from the file: with one of its wallets, with a wallet it *)
(* creates and saves, or with the key of the configuration.                *)
(***************************************************************************)
new_default(file) == \E w \in file : bw_info' = w /\ bw_stored' = file /\ bw_file' = file

new_created(file) ==
  /\ file = {}
  /\ \E w \in Wallets : bw_info' = w /\ bw_stored' = {w} /\ bw_file' = {w}

new_config(file) == file = {} /\ bw_info' = ConfigWallet /\ bw_stored' = {} /\ bw_file' = {}

new(file) ==
  /\ new_default(file) \/ new_created(file) \/ new_config(file)
  /\ bw_signer' = bw_info'
  /\ bw_address' = NoWallet
  /\ bw_acked' = bw_acked \cap bw_file'

Init ==
  /\ bw_stored = {} /\ bw_file = {} /\ bw_acked = {}
  /\ bw_info = ConfigWallet /\ bw_signer = ConfigWallet /\ bw_address = NoWallet

\* A process that stops loses what was not written to the file.
restart == new(bw_file)

(***************************************************************************)
(* WalletManager, as the bot uses it: creation and import write the file,  *)
(* and on an error leave the wallet in memory; a removal ignores the error.*)
(***************************************************************************)
save_to_file == bw_file' = bw_stored'

created(ws) == /\ bw_stored' = bw_stored \cup ws
               /\ save_to_file
               /\ bw_acked' = bw_acked \cup ws

\* One of the saves of the call fails: an earlier one may have succeeded.
create_failed(ws) ==
  /\ bw_stored' = bw_stored \cup ws
  /\ save_to_file \/ UNCHANGED bw_file
  /\ UNCHANGED <<bw_acked, botVars>>

create_new_wallet == \E w \in Wallets \ bw_stored : created({w}) /\ UNCHANGED botVars

import_wallet == \E w \in Wallets : created({w}) /\ UNCHANGED botVars

create_hd_wallets == \E ws \in SUBSET Wallets : ws # {} /\ created(ws) /\ UNCHANGED botVars

save_fails == \E ws \in SUBSET Wallets : ws # {} /\ create_failed(ws)

update_wallet_balances ==
  /\ UNCHANGED <<bw_stored, botVars, bw_acked>>
  /\ save_to_file

remove_wallet ==
  \E a \in bw_stored :
    /\ bw_stored' = bw_stored \ {a}
    /\ bw_acked' = bw_acked \ {a}
    /\ save_to_file \/ UNCHANGED bw_file
    /\ UNCHANGED botVars

(***************************************************************************)
(* Selecting a wallet.  create_and_switch_wallet does not touch            *)
(* current_wallet_info; switch_chain makes a new adapter and gives it the  *)
(* wallet of current_wallet_info.                                          *)
(***************************************************************************)
switch_chain ==
  /\ bw_signer' = bw_info
  /\ UNCHANGED <<bw_stored, bw_file, bw_info, bw_address, bw_acked>>

switch_wallet ==
  \E a \in bw_stored :
    /\ bw_info' = a /\ bw_address' = a /\ bw_signer' = a
    /\ UNCHANGED <<bw_stored, bw_file, bw_acked>>

\* A plausible slip: the adapter gets the new wallet and the bot's own record of
\* the selection is forgotten altogether.
create_and_switch_wallet_slip ==
  \E w \in Wallets \ bw_stored :
    /\ created({w})
    /\ bw_signer' = w
    /\ UNCHANGED <<bw_info, bw_address>>

create_and_switch_wallet ==
  \E w \in Wallets \ bw_stored :
    /\ created({w})
    /\ bw_signer' = w /\ bw_address' = w
    /\ UNCHANGED bw_info

\* What the trading calls use as the owner and the recipient of tokens.
get_current_wallet_address == bw_info

Next ==
  \/ restart
  \/ create_new_wallet \/ import_wallet \/ create_hd_wallets \/ save_fails
  \/ update_wallet_balances \/ remove_wallet
  \/ switch_chain \/ switch_wallet \/ create_and_switch_wallet

(***************************************************************************)
(* Properties.                                                             *)
(***************************************************************************)

\* Whatever the order of switches of chain and wallet, removals and restarts,
\* the adapter signs with one of the two wallets the bot names as current.
SignerIsSelected == bw_signer \in {get_current_wallet_address, bw_address}

\* A wallet whose creation or import was reported as done is in the file
\* until it is removed: failed saves of other calls and restarts between any
\* two calls do not lose it.
AckedWalletsDurable == bw_acked \subseteq bw_file \cap bw_stored
=============================================================================
