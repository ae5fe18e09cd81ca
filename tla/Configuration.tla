---------------------------- MODULE Configuration ----------------------------
(***************************************************************************)
(* internal/config/config.go: what Load makes of the file config.yaml and  *)
(* of the environment, for the two keys the gateway starts with, of which  *)
(* one is a number.  A file is NoFile or a function from the keys it has   *)
(* to their values; an environment is a function from the keys whose       *)
(* variable (GATEWAY_ and the key, its dots replaced by _) is set and not  *)
(* empty.                                                                  *)
(***************************************************************************)
CONSTANTS
  NoFile,    \* there is no file, or it is not YAML
  Zero,      \* the zero value of a field
  Failed,    \* Load returned an error
  Malformed  \* a text that is no number

\* The fields of Config that cmd/gateway cannot start without.
Key == {"server.port", "grpc.target"}

\* Unmarshal asks viper for the keys of the file, and viper asks the
\* environment first: a variable of a key the file does not have is not seen.
Value(file, env, k) ==
  IF k \notin DOMAIN file THEN Zero
  ELSE IF k \in DOMAIN env THEN env[k] ELSE file[k]

\* Unmarshal turns the text of a variable into a number where the field is one.
Number == {"server.port"}
Decodes(k, v) == k \in Number => v # Malformed

Load(file, env) ==
  IF file = NoFile \/ \E k \in Key : ~Decodes(k, Value(file, env, k)) THEN Failed
  ELSE [k \in Key |-> Value(file, env, k)]
=============================================================================
