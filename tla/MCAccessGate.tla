---------------------------- MODULE MCAccessGate ----------------------------
(* Two addresses, two keys.  What a file may say of the two varies, with    *)
(* auth on and off and either key, both or none behind an injection         *)
(* listener: one key is low and its scope and management take all values,   *)
(* the other is a key of before scopes; some files give it no usable        *)
(* credential.                                                              *)
EXTENDS AccessGate

CONSTANTS indexer, admin

MCClientIds == {indexer, admin}

Indexer(s, m) ==
    [scope |-> s, management |-> m, max_priority |-> "low", given |-> {"key_file"}, found |-> "text"]
Admin(g, f) ==
    [scope |-> Unset, management |-> TRUE, max_priority |-> "high", given |-> g, found |-> f]

MCConfigs ==
    {[enabled |-> e, inject_as |-> i,
      keys |-> [k \in MCClientIds |-> IF k = indexer THEN Indexer(s, m) ELSE Admin(g, "text")]] :
        e \in BOOLEAN, i \in SUBSET MCClientIds,
        s \in Scopes \union {Unset}, m \in BOOLEAN, g \in {{"key"}, {"key", "key_env"}}}
    \union
    {[enabled |-> e, inject_as |-> i, keys |-> [k \in ids |-> Admin({"key_env"}, f)]] :
        e \in BOOLEAN, i \in SUBSET MCClientIds, ids \in {{}, {admin}},
        f \in {"text", "blank", "nothing"}}
=============================================================================
