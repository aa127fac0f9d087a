---------------------------- MODULE SignalHandler ----------------------------
(***************************************************************************)
(* lib/signal_handler.cpp: the process-wide SIGPROF timer (setitimer) and  *)
(* the interval the agent believes it to have.                             *)
(***************************************************************************)
EXTENDS Integers

CONSTANT ProcessRates   \* the sample rates the collector may ask for, in ms

NOT_PROFILING == 0

ASSUME ProcessRatesAssumption == ProcessRates \subseteq Nat \ {NOT_PROFILING}

VARIABLES
    currentProcessInterval,  \* currentProcessInterval_
    isProcessProfiling,      \* isProcessProfiling_
    itimer                   \* the kernel's ITIMER_PROF interval of this process

signalVars == <<currentProcessInterval, isProcessProfiling, itimer>>

SignalType ==
    /\ currentProcessInterval \in ProcessRates \cup {NOT_PROFILING}
    /\ isProcessProfiling \in BOOLEAN
    /\ itimer \in ProcessRates \cup {NOT_PROFILING}

SignalInit ==
    /\ currentProcessInterval = NOT_PROFILING
    /\ isProcessProfiling = FALSE
    /\ itimer = NOT_PROFILING

\* updateInterval leaves the kernel's timer alone when the interval is the
\* one it believes to be set.
updateProcessInterval(interval) ==
    /\ itimer' = IF interval = currentProcessInterval THEN itimer ELSE interval
    /\ currentProcessInterval' = interval
    /\ isProcessProfiling' = (interval # NOT_PROFILING)

stopProcessProfiling == updateProcessInterval(NOT_PROFILING)

==============================================================================
