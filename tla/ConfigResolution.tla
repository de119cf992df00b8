-------------------------- MODULE ConfigResolution --------------------------
(***************************************************************************)
(* How a setting of the plugin gets its value (config.py): from a key of   *)
(* the plugin instance, a key of the plugin type, a plain key (the MP-mode *)
(* adapter), an environment variable or a default.  Settings do not depend *)
(* on each other, so one field is resolved at a time.                      *)
(***************************************************************************)
EXTENDS Integers, Sequences

CONSTANTS
    Plugins,   \* plugin names: sequences, "couchbase.primary" has two parts
    Values     \* the values a setting may be given

(* A value is None, an int, a finite float, a string that spells one of the *)
(* two (a numeral, a decimal), or another string.  n is the number, without *)
(* its fraction, which rest stands for; of other strings it is the n-th,    *)
(* the 0-th being empty.                                                    *)
ValueForms == [form : {"none", "int", "numeral", "text"}, n : Int, rest : {0}]
              \cup [form : {"float", "decimal"}, n : Int, rest : Nat]
Value(form, n, rest) == [form |-> form, n |-> n, rest |-> rest]
None == Value("none", 0, 0)
Empty == Value("text", 0, 0)
Unset == Value("unset", 0, 0)        \* the key or variable is not there
Raised == Value("raised", 0, 0)      \* ValueError

ASSUME PluginsAssumption == \A p \in Plugins : p \in Seq(STRING) /\ p # <<>>
ASSUME ValuesAssumption == Values \subseteq ValueForms

Required == {"connection_string", "username", "password", "bucket_name"}
Texts == {"scope_name", "collection_name", "key_prefix"}
Timeouts == {"kv_timeout_seconds", "connect_timeout_seconds"}
Counts == {"max_workers", "shard_size_bytes"}
WholeNumbers == Counts \cup {"ttl_seconds"}
Fields == Required \cup Texts \cup Timeouts \cup WholeNumbers

DefaultText(f) == Value("text", IF f = "key_prefix" THEN 2 ELSE 1, 0)
DefaultNumber == [kv_timeout_seconds |-> Value("float", 10, 0),
                  connect_timeout_seconds |-> Value("float", 10, 0),
                  max_workers |-> Value("int", 32, 0),
                  shard_size_bytes |-> Value("int", 1048576, 0)]

-----------------------------------------------------------------------------
(* The three lookups: from_lmcache_extra_config, from_dict, from_env.       *)

PluginType(p) == <<Head(p)>>

(* Mutant: a key of the instance that is None does not count as given. *)
LookupExtraSkippingNone(extra, p) ==
    IF extra[p] \notin {Unset, None} THEN extra[p]
    ELSE IF extra[PluginType(p)] = Unset THEN None ELSE extra[PluginType(p)]

(* extra is extra_config: the value of the field by plugin name.            *)
LookupExtra(extra, p) ==
    IF extra[p] # Unset THEN extra[p]
    ELSE IF extra[PluginType(p)] = Unset THEN None ELSE extra[PluginType(p)]

LookupPlain(value) == IF value = Unset THEN None ELSE value

LookupNothing == None

(* The name __init__ takes when it is given none.                           *)
InferredPlugin(configured) ==
    IF Len(configured) = 1 THEN configured[1] ELSE <<"couchbase">>

-----------------------------------------------------------------------------
(* _build                                                                   *)

(* str().                                                                   *)
AsText(value) ==
    CASE value.form = "int" -> [value EXCEPT !.form = "numeral"]
      [] value.form = "float" -> [value EXCEPT !.form = "decimal"]
      [] OTHER -> value

RequiredValue(value) == IF value \in {None, Empty} THEN Raised ELSE AsText(value)

(* Mutant: what a lookup found is used as it is. *)
AsIntUnconverted(value, default) ==
    IF value \in {None, Empty} THEN default ELSE value

(* int() drops the fraction of a float and refuses a decimal.               *)
AsInt(value, default) ==
    IF value \in {None, Empty} THEN default
    ELSE IF value.form \in {"decimal", "text"} THEN Raised ELSE Value("int", value.n, 0)

AsFloat(value, default) ==
    IF value \in {None, Empty} THEN default
    ELSE IF value.form = "text" THEN Raised ELSE Value("float", value.n, value.rest)

Or(value, default) == IF value \in {None, Value("int", 0, 0)} THEN default ELSE value

Get(found, env, default) ==
    IF found # None THEN found ELSE IF env # Unset THEN env ELSE default

Resolve(f, found, env) ==
    IF f \in Required THEN RequiredValue(Get(found, env, None))
    ELSE IF f \in Texts THEN AsText(Get(found, env, DefaultText(f)))
    ELSE IF f = "ttl_seconds" THEN AsInt(Get(found, env, None), None)
    ELSE IF f \in Timeouts THEN AsFloat(Get(found, env, None), DefaultNumber[f])
    ELSE Or(AsInt(Get(found, env, None), DefaultNumber[f]), DefaultNumber[f])

(* CouchbaseKVStore refuses a shard size it could not store.                *)
StoreRefuses(shardSize) == ~(0 < shardSize.n /\ shardSize.n <= 20 * 1024 * 1024)

-----------------------------------------------------------------------------
(* Properties.                                                              *)

Given == Values \cup {Unset}
Env == {v \in Values : v.form \in {"numeral", "decimal", "text"}} \cup {Unset}

(* What a user may spell in the environment for a value.                    *)
Spelled(value) == AsText(value)

(* Spelled out, a float is no whole number.                                 *)
LostInSpelling(f, v) == f \in WholeNumbers /\ v.form = "float"

(* "Both plugins accept the same settings": whether a value is given as a   *)
(* key of the instance, of the plugin type or in adapter_params, the        *)
(* setting comes out the same.  So it does spelled out in the environment,  *)
(* except for a float where a whole number is wanted: given as a value it   *)
(* counts without its fraction, in the environment it is refused.           *)
SameByEveryRoute ==
    \A f \in Fields, p \in Plugins, v \in Values \ {None}, env \in Env :
        LET byInstance == [q \in Plugins \cup {PluginType(p)} |-> IF q = p THEN v ELSE Unset]
            byType == [q \in Plugins \cup {PluginType(p)} |->
                          IF q = PluginType(p) THEN v ELSE Unset]
            plain == Resolve(f, LookupPlain(v), env)
            byEnvironment == Resolve(f, LookupNothing, Spelled(v))
        IN  /\ Resolve(f, LookupExtra(byInstance, p), env) = plain
            /\ Resolve(f, LookupExtra(byType, p), env) = plain
            /\ IF LostInSpelling(f, v)
               THEN /\ plain = Resolve(f, Value("int", v.n, 0), env)
                    /\ byEnvironment = Raised
               ELSE byEnvironment = plain

(* "Any field left out falls back to the environment variable": and only    *)
(* a field left out does.  None given for the instance counts as left out,  *)
(* but hides what is given for the plugin type; an empty or zero value is   *)
(* not left out.                                                            *)
OnlyLeftOutFallsBack ==
    \A f \in Fields, p \in Plugins, own \in Given, shared \in Given, env \in Env :
        LET extra == [q \in {p, PluginType(p)} |-> IF q = p THEN own ELSE shared]
            used == IF own = Unset THEN extra[PluginType(p)] ELSE own
        IN  Resolve(f, LookupExtra(extra, p), env) =
                IF used \in {Unset, None} THEN Resolve(f, LookupNothing, env)
                                          ELSE Resolve(f, LookupPlain(used), Unset)

(* A count that is empty, zero, or zero once its fraction is dropped means  *)
(* the default and never a store that refuses to start or a pool without    *)
(* threads, wherever it comes from.                                         *)
ZeroMeansDefault ==
    \A f \in Counts, found \in Values, env \in Env :
        LET set == Get(found, env, None)
            result == Resolve(f, found, env)
        IN  set \in {None, Empty} \/ (set.form \in {"int", "float", "numeral"} /\ set.n = 0) =>
                result = DefaultNumber[f] /\ ~StoreRefuses(result)
=============================================================================
