----------------------------- MODULE MCConnector -----------------------------
(***************************************************************************)
(* Instances of Connector, and of the configuration it starts from, for    *)
(* TLC.                                                                    *)
(***************************************************************************)
EXTENDS Connector, ConfigResolution

CONSTANTS k1, k2, b1, b2

(* Every kind of call; a prefetch meets the oversized k2 last or first.     *)
EveryKind ==
    [kind : {"put", "get", "prefetch", "count", "contains"}, keys : {<<k1, k2>>}]
    \cup [kind : {"prefetch"}, keys : {<<k2, k1>>}]

OneTypeTwoNames == {<<"couchbase">>, <<"couchbase", "primary">>}

(* None, empty, text, and numbers that are whole and not, zero, zero but    *)
(* for a fraction, and neither, as numbers and as strings.                  *)
SomeValues ==
    [form : {"none"}, n : {0}, rest : {0}] \cup [form : {"text"}, n : {0, 3}, rest : {0}]
    \cup [form : {"int", "numeral"}, n : {0, 7}, rest : {0}]
    \cup [form : {"float", "decimal"}, n : {0, 7}, rest : {0, 5}]

(* The connector resolves its settings when it is constructed.              *)
AtStart == Made = {} /\ closer = "open"

(* "Both plugins accept the same settings", however they are given, but for *)
(* a float in the place of a whole number, which the environment refuses.   *)
SettingsAreTheSame == AtStart => SameByEveryRoute

(* "Any field left out falls back to the environment variable", no other;   *)
(* and a count that is zero or empty to the default, so that it never keeps *)
(* the connector from starting.                                             *)
SettingsFallBack == AtStart => OnlyLeftOutFallsBack /\ ZeroMeansDefault
=============================================================================
