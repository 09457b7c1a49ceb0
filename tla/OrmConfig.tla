------------------------------ MODULE OrmConfig ------------------------------
(***************************************************************************)
(* A process importing package orm, and so package config: config's init  *)
(* (ConfigInit) runs to completion before main, then goroutines call       *)
(* orm.Get (OrmRegistry).  The flight's fn calls config.NewDbConfig(name)  *)
(* first, which reads the default file that init may have failed to load.  *)
(***************************************************************************)
EXTENDS OrmRegistry, ConfigInit

ocVars == <<vars, cfgVars>>

OcInit == Init /\ CfgInit

(* fn: dbConf := config.NewDbConfig(name) panics when the default file was *)
(* not loaded; otherwise the rest of fn, as in OrmRegistry.                *)
OcOpen(c) ==
    \/ /\ ~panicked
       /\ pc[c] = "open"
       /\ NewDbConfigPanics
       /\ panicked' = TRUE
       /\ UNCHANGED <<pc, got, dbs, flight, waiters, opened>>
    \/ ~NewDbConfigPanics /\ Open(c)

\* Package init runs alone; main's goroutines start after it.
ConfigStep == InitStep /\ UNCHANGED vars

GetStep(c) ==
    /\ cfgPc = "done"
    /\ Check(c) \/ Do(c) \/ OcOpen(c) \/ Store(c) \/ Finish(c)
    /\ UNCHANGED cfgVars

OcNext == ConfigStep \/ \E c \in Callers : GetStep(c)

\* init runs to its end, and every running goroutine runs.
OcFairness == WF_ocVars(ConfigStep) /\ \A c \in Callers : WF_ocVars(GetStep(c))

OcSpec == OcInit /\ [][OcNext]_ocVars /\ OcFairness
=============================================================================
