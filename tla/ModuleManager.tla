---------------------------- MODULE ModuleManager ----------------------------
(***************************************************************************)
(* The registry of extension modules kept inside the DiamondToken contract *)
(* (blockchain/src/diamond_token/src/module_manager.rs): the modules by    *)
(* name with their ordered key list, the permissions granted to calling    *)
(* contracts, and the admins.                                              *)
(*                                                                         *)
(* Every operation takes the caller (env::predecessor_account_id()).  A    *)
(* `require!' that fails reverts the call and an early `return false'      *)
(* changes nothing: both are stuttering steps and appear here as guards.   *)
(* Timestamps, versions, metadata and the address of a module are left     *)
(* out.                                                                    *)
(***************************************************************************)
EXTENDS Sequences, Functions, Lists

CONSTANTS
  Accounts,      \* NEAR accounts
  Names,         \* module names
  Permissions    \* permission names ("mint", "burn", ...)

VARIABLES
  modules,             \* UnorderedMap name -> Module, a partial function
  module_keys,         \* Vector of names, in insertion order
  authorized_callers,  \* LookupMap account -> permissions, partial
  owner_id,
  admins               \* only membership is ever read, hence a set

mmVars == <<modules, module_keys, authorized_callers, owner_id, admins>>

ModuleStatus == {"Active", "Paused", "Deprecated"}

Module == [name : Names, status : ModuleStatus]

TypeOK ==
  /\ DOMAIN modules \in SUBSET Names
  /\ modules \in [DOMAIN modules -> Module]
  /\ module_keys \in Seq(Names)
  /\ DOMAIN authorized_callers \in SUBSET Accounts
  /\ authorized_callers \in [DOMAIN authorized_callers -> SUBSET Permissions]
  /\ owner_id \in Accounts
  /\ admins \in SUBSET Accounts

-----------------------------------------------------------------------------
(* LookupMap / UnorderedMap primitives of the NEAR SDK. *)

insert(map, k, v) == [x \in DOMAIN map \cup {k} |-> IF x = k THEN v ELSE map[x]]

remove(map, k) == [x \in DOMAIN map \ {k} |-> map[x]]

EmptyMap == [x \in {} |-> {}]

-----------------------------------------------------------------------------
(* new: whatever admins are given, the owner is one of them. *)
new(owner, init_admins) ==
  /\ modules = EmptyMap
  /\ module_keys = << >>
  /\ authorized_callers = EmptyMap
  /\ owner_id = owner
  /\ admins = init_admins \cup {owner}

is_admin(account) == account \in admins

assert_admin(caller) == is_admin(caller)

add_module(caller, module) ==
  /\ assert_admin(caller)
  /\ module.name \notin DOMAIN modules
  /\ module_keys' = Append(module_keys, module.name)
  /\ modules' = insert(modules, module.name, module)
  /\ UNCHANGED <<authorized_callers, owner_id, admins>>

(* The entry is replaced under `name' whatever name the new record holds. *)
update_module(caller, name, module) ==
  /\ assert_admin(caller)
  /\ name \in DOMAIN modules
  /\ modules' = insert(modules, name, module)
  /\ UNCHANGED <<module_keys, authorized_callers, owner_id, admins>>

update_module_status(caller, name, status) ==
  /\ assert_admin(caller)
  /\ name \in DOMAIN modules
  /\ modules' = insert(modules, name, [modules[name] EXCEPT !.status = status])
  /\ UNCHANGED <<module_keys, authorized_callers, owner_id, admins>>

remove_module(caller, name) ==
  /\ assert_admin(caller)
  /\ name \in DOMAIN modules
  /\ modules' = remove(modules, name)
  /\ module_keys' = retained(module_keys, Names \ {name})
  /\ UNCHANGED <<authorized_callers, owner_id, admins>>

authorize_caller(caller, contract, perms) ==
  /\ assert_admin(caller)
  /\ LET current == IF contract \in DOMAIN authorized_callers
                    THEN authorized_callers[contract] ELSE {}
     IN authorized_callers' = insert(authorized_callers, contract, current \cup perms)
  /\ UNCHANGED <<modules, module_keys, owner_id, admins>>

(* revoke_caller(contract, Some(perms)): an emptied entry is removed. *)
revoke_permissions(caller, contract, perms) ==
  /\ assert_admin(caller)
  /\ contract \in DOMAIN authorized_callers
  /\ LET kept == authorized_callers[contract] \ perms
     IN authorized_callers' = IF kept = {} THEN remove(authorized_callers, contract)
                              ELSE insert(authorized_callers, contract, kept)
  /\ UNCHANGED <<modules, module_keys, owner_id, admins>>

(* revoke_caller(contract, None). *)
revoke_all(caller, contract) ==
  /\ assert_admin(caller)
  /\ contract \in DOMAIN authorized_callers
  /\ authorized_callers' = remove(authorized_callers, contract)
  /\ UNCHANGED <<modules, module_keys, owner_id, admins>>

add_admin(caller, admin) ==
  /\ caller = owner_id
  /\ admins' = admins \cup {admin}
  /\ UNCHANGED <<modules, module_keys, authorized_callers, owner_id>>

remove_admin(caller, admin) ==
  /\ caller = owner_id
  /\ admin # owner_id
  /\ admins' = admins \ {admin}
  /\ UNCHANGED <<modules, module_keys, authorized_callers, owner_id>>

(* The new owner becomes an admin; the old owner stays one. *)
transfer_ownership(caller, new_owner) ==
  /\ caller = owner_id
  /\ admins' = admins \cup {new_owner}
  /\ owner_id' = new_owner
  /\ UNCHANGED <<modules, module_keys, authorized_callers>>

-----------------------------------------------------------------------------
Init == \E owner \in Accounts, init_admins \in SUBSET Accounts : new(owner, init_admins)

Next ==
  \E caller \in Accounts :
    \/ \E m \in Module : add_module(caller, m)
    \/ \E n \in Names, m \in Module : update_module(caller, n, m)
    \/ \E n \in Names, s \in ModuleStatus : update_module_status(caller, n, s)
    \/ \E n \in Names : remove_module(caller, n)
    \/ \E c \in Accounts, ps \in SUBSET Permissions : authorize_caller(caller, c, ps)
    \/ \E c \in Accounts, ps \in SUBSET Permissions : revoke_permissions(caller, c, ps)
    \/ \E c \in Accounts : revoke_all(caller, c)
    \/ \E a \in Accounts : add_admin(caller, a)
    \/ \E a \in Accounts : remove_admin(caller, a)
    \/ \E a \in Accounts : transfer_ownership(caller, a)

Spec == Init /\ [][Next]_mmVars

-----------------------------------------------------------------------------
\* get_active_modules and get_all_modules walk module_keys and unwrap the entry
\* of every key: the list and the map must name the same modules, each once, or
\* the views panic or report a module twice.
KeysMatchModules ==
  /\ Range(module_keys) = DOMAIN modules
  /\ IsInjective(module_keys)

\* The owner can always act as admin: new and transfer_ownership add the owner,
\* and remove_admin refuses to drop it.
OwnerIsAdmin == owner_id \in admins
=============================================================================
