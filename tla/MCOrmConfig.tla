----------------------------- MODULE MCOrmConfig -----------------------------
(***************************************************************************)
(* orm.Get after config's init, for TLC: three goroutines asking for one   *)
(* name, over every outcome of init on a conf directory of up to three     *)
(* entries: the default file, another config file and a file of another   *)
(* kind.                                                                   *)
(***************************************************************************)
EXTENDS OrmConfig, MCOrmRegistry

OcTypeOK ==
    /\ TypeOK
    /\ cfgPc \in {"path", "stat", "readdir", "load", "check", "done"}
    /\ configErr \in {"nil", "err"}
    /\ files \subseteq ConfigNames
    /\ listing \in Listings
    /\ idx \in 1 .. MaxEntries + 1
    /\ getSet \in BOOLEAN

(* init sets Get only after loading every .toml and .json file of the     *)
(* conf directory without an error: a file viper fails to read ends init   *)
(* (config.go:119-121) before the default-file check, even when the       *)
(* default file itself was already loaded.  So a non-nil Get means the     *)
(* whole directory's configuration is in files and Error() has nothing to  *)
(* report.                                                                 *)
GetImpliesCompleteLoad ==
    getSet => /\ configErr = "nil"
              /\ files = ToSet(listing) \cap ConfigNames
              /\ Loaded(DefaultName)
=============================================================================
