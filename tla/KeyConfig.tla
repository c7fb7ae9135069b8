----------------------------- MODULE KeyConfig -----------------------------
(***************************************************************************)
(* The part of the configuration that decides who may do what (config.py): *)
(* the entries of auth.keys as an operator writes them, the files that are *)
(* refused at startup, and the scope an accepted entry ends up with.       *)
(***************************************************************************)
EXTENDS Integers, FiniteSets

CONSTANTS
    ClientIds, \* the client_ids a file may use
    Unset      \* the field is not in the file

Tiers == {"high", "normal", "low"}

\* PRIORITY_ORDER and SCOPE_ORDER
PriorityOrder == [high |-> 2, normal |-> 1, low |-> 0]
ScopeOrder == [read |-> 0, inference |-> 1, management |-> 2]
Scopes == DOMAIN ScopeOrder

\* An entry of auth.keys: scope and the deprecated management, the ceiling, the
\* fields that say where the credential is, and what is found there.
Entries ==
    [scope        : Scopes \union {Unset},
     management   : BOOLEAN,
     max_priority : Tiers,
     given        : SUBSET {"key", "key_env", "key_file"},
     found        : {"text", "blank", "nothing"}]

\* A file: whether auth is enabled, the entries, and the inject_as of the
\* injection listeners.
IsFile(file) ==
    /\ DOMAIN file = {"enabled", "keys", "inject_as"}
    /\ file.enabled \in BOOLEAN
    /\ DOMAIN file.keys \subseteq ClientIds
    /\ \A k \in DOMAIN file.keys : file.keys[k] \in Entries
    /\ file.inject_as \subseteq ClientIds

-----------------------------------------------------------------------------
Bug_NeverContradicts(entry) == FALSE

\* management: true beside a scope that is written and says less.
Contradicts(entry) ==
    /\ entry.management
    /\ entry.scope \notin {Unset, "management"}

\* Exactly one source, and a credential in it.
HasCredential(entry) ==
    /\ Cardinality(entry.given) = 1
    /\ entry.found = "text"

KeysPresent(file) == file.enabled => DOMAIN file.keys # {}

InjectAsKnown(file) == file.inject_as \subseteq DOMAIN file.keys

\* The file does not end the process at startup.
Boots(file) ==
    /\ \A k \in DOMAIN file.keys :
           ~Contradicts(file.keys[k]) /\ HasCredential(file.keys[k])
    /\ KeysPresent(file)
    /\ InjectAsKnown(file)

Bug_ManagementIgnored(entry) == IF entry.scope = Unset THEN "inference" ELSE entry.scope

\* The scope after reconcile_deprecated_management().
EffectiveScope(entry) ==
    CASE entry.management -> "management"
      [] ~entry.management /\ entry.scope = Unset -> "inference"
      [] OTHER -> entry.scope

=============================================================================
