----------------------------- MODULE ConfigInit -----------------------------
(***************************************************************************)
(* The package initialisation of src/config/config.go: init() resolves the *)
(* conf directory, lists it, loads every .toml and .json file into files  *)
(* with its own viper, and, when the default file is among them, sets Get  *)
(* and derives App, Env and DbMode from it.  init runs in one goroutine    *)
(* before main; its steps are the code's steps with their early returns.   *)
(*                                                                         *)
(* The file system and the environment are the inputs: whether CONF_PATH   *)
(* is set or os.Getwd fails, whether <path>/conf exists, whether           *)
(* filepath.Abs fails, whether os.ReadDir fails, the entries it lists      *)
(* (sorted by name in the code; any order of the model's names is the      *)
(* sorted order of some real names) and whether each ReadInConfig fails.   *)
(* Names are model values; a name's suffix is whether it is in             *)
(* ConfigNames.  The values of App, Env and DbMode are data and left out.  *)
(***************************************************************************)
EXTENDS Naturals, Sequences, SequencesExt

CONSTANTS
    ConfigNames,  \* entry names ending in .toml or .json
    OtherNames,   \* other entry names
    DefaultName,  \* defaultFile: "config.toml" or $CONF_NAME
    MaxEntries    \* bound on the entries of the conf directory

Names == ConfigNames \cup OtherNames

\* The results os.ReadDir can give: distinct names, in sorted order.
Listings == {s \in UNION {[1 .. m -> Names] : m \in 0 .. MaxEntries} : IsInjective(s)}

VARIABLES
    cfgPc,      \* "path", "stat", "readdir", "load", "check", "done"
    configErr,  \* "nil" or "err"
    files,      \* the names files maps to a *Client
    listing,    \* the entries os.ReadDir returned
    idx,        \* the next entry of the range over them
    getSet      \* Get = GetString has run: Get is non-nil

cfgVars == <<cfgPc, configErr, files, listing, idx, getSet>>

CfgInit ==
    /\ cfgPc = "path"
    /\ configErr = "nil"
    /\ files = {}
    /\ listing = <<>>
    /\ idx = 1
    /\ getSet = FALSE

\* File(name) != nil
Loaded(name) == name \in files

(* path := os.Getenv("CONF_PATH"); when empty, os.Getwd(), whose error is  *)
(* stored in configErr before returning.                                   *)
InitPath ==
    /\ cfgPc = "path"
    /\ \/ cfgPc' = "stat" /\ UNCHANGED configErr
       \/ cfgPc' = "done" /\ configErr' = "err"
    /\ UNCHANGED <<files, listing, idx, getSet>>

(* fileExists(path/conf) is true, also for a Stat error other than        *)
(* not-exist; else the conf directory beside the executable, and an error  *)
(* of filepath.Abs is stored before returning.                             *)
InitStat ==
    /\ cfgPc = "stat"
    /\ \/ cfgPc' = "readdir" /\ UNCHANGED configErr
       \/ cfgPc' = "done" /\ configErr' = "err"
    /\ UNCHANGED <<files, listing, idx, getSet>>

(* fs, err := os.ReadDir(configPath): on an error init returns, and        *)
(* configErr stays nil.                                                    *)
InitReadDir ==
    /\ cfgPc = "readdir"
    /\ \/ /\ cfgPc' = "done"
          /\ UNCHANGED listing
       \/ /\ cfgPc' = "load"
          /\ listing' \in Listings
    /\ UNCHANGED <<configErr, files, idx, getSet>>

(* for _, f := range fs, after the last entry: the default-file check.    *)
InitLoadEnd ==
    /\ cfgPc = "load"
    /\ idx > Len(listing)
    /\ cfgPc' = "check"
    /\ UNCHANGED <<configErr, files, listing, idx, getSet>>

\* The entry of this turn of the range.
Entry == listing[idx]

(* An entry without a .toml or .json suffix: continue. *)
InitLoadSkip ==
    /\ cfgPc = "load"
    /\ idx <= Len(listing)
    /\ Entry \notin ConfigNames
    /\ idx' = idx + 1
    /\ UNCHANGED <<cfgPc, configErr, files, listing, getSet>>

(* v.ReadInConfig() succeeds: files[f.Name()] = &Client{v}. *)
InitLoadOk ==
    /\ cfgPc = "load"
    /\ idx <= Len(listing)
    /\ Entry \in ConfigNames
    /\ files' = files \cup {Entry}
    /\ idx' = idx + 1
    /\ UNCHANGED <<cfgPc, configErr, listing, getSet>>

(* Mutation: a file viper cannot read is skipped rather than ending init. *)
InitLoadFailContinues ==
    /\ cfgPc = "load"
    /\ idx <= Len(listing)
    /\ Entry \in ConfigNames
    /\ configErr' = "err"
    /\ idx' = idx + 1
    /\ UNCHANGED <<cfgPc, files, listing, getSet>>

(* v.ReadInConfig() fails: configErr = err; return.  The files of earlier  *)
(* entries stay loaded; later entries are never read.                      *)
InitLoadFail ==
    /\ cfgPc = "load"
    /\ idx <= Len(listing)
    /\ Entry \in ConfigNames
    /\ configErr' = "err"
    /\ cfgPc' = "done"
    /\ UNCHANGED <<files, listing, idx, getSet>>

(* if File(defaultFile) == nil { return }; Get = GetString, then App, Env  *)
(* and DbMode from the default file.                                       *)
InitCheck ==
    /\ cfgPc = "check"
    /\ getSet' = Loaded(DefaultName)
    /\ cfgPc' = "done"
    /\ UNCHANGED <<configErr, files, listing, idx>>

InitStep ==
    \/ InitPath
    \/ InitStat
    \/ InitReadDir
    \/ InitLoadEnd
    \/ InitLoadSkip
    \/ InitLoadOk
    \/ InitLoadFail
    \/ InitCheck

-----------------------------------------------------------------------------
(* The package's functions after init.                                     *)

\* Error() returns configErr.Error(): a nil configErr is dereferenced.
ErrorPanics == configErr = "nil"

(* NewDbConfig and every GetX read File(defaultFile); on a nil *Client the *)
(* embedded *viper.Viper is dereferenced and the caller panics.            *)
NewDbConfigPanics == ~Loaded(DefaultName)
=============================================================================
