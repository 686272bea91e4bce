------------------------- MODULE DistributedSystem -------------------------
(***************************************************************************)
(* DistributedSystem::connect and ::disconnect (DistributedSystem.cpp) and *)
(* the process-wide objects they create and release: the                 *)
(* SystemProperties g_sysProps, the StatisticsManager g_statMngr, the     *)
(* ExpiryTaskManager CacheImpl::expiryTaskManager, the                    *)
(* DistributedSystemImpl m_impl, the instance pointer, TcrMessage's       *)
(* buffers, the library and the log.                                      *)
(*                                                                         *)
(* Both calls run their whole body under g_disconnectLock, so each call,   *)
(* with whichever of its exits it takes, is one step.  The collaborators  *)
(* that may throw (TcrMessage::init, Log::init, getProductDir,            *)
(* StatisticsManager::initInstance, DistributedSystemImpl::connect) are   *)
(* nondeterministic: each exit of connect is an action of its own.        *)
(* Only a pointer's state is kept: null, or the object it points to;      *)
(* for g_sysProps whether that object was built by the current call      *)
(* ("fresh") or left by an earlier one ("stale").                          *)
(***************************************************************************)

EXTENDS Naturals

CONSTANT MaxOrphans  \* bound on the leaked task managers explored

ASSUME MaxOrphansAssumption == MaxOrphans \in Nat

VARIABLES
    connected,  \* m_connected
    instance,   \* m_instance_ptr: "unalloc", or *m_instance_ptr "null" / "set"
    sysProps,   \* g_sysProps: "null", "fresh" or "stale"
    statMngr,   \* g_statMngr # nullptr
    etm,        \* CacheImpl::expiryTaskManager: "null" or "running"
    orphans,    \* started ExpiryTaskManagers no pointer refers to any more
    impl,       \* m_impl # nullptr
    tcr,        \* TcrMessage buffers allocated
    lib,        \* CppCacheLibrary initialised
    logOpen     \* the log file is open

vars == <<connected, instance, sysProps, statMngr, etm, orphans, impl, tcr,
          lib, logOpen>>

TypeOK ==
    /\ connected \in BOOLEAN
    /\ instance \in {"unalloc", "null", "set"}
    /\ sysProps \in {"null", "fresh", "stale"}
    /\ etm \in {"null", "running"}
    /\ orphans \in 0..MaxOrphans
    /\ statMngr \in BOOLEAN
    /\ impl \in BOOLEAN
    /\ tcr \in BOOLEAN
    /\ lib \in BOOLEAN
    /\ logOpen \in BOOLEAN

Init ==
    /\ connected = FALSE
    /\ instance = "unalloc"
    /\ sysProps = "null"
    /\ statMngr = FALSE
    /\ etm = "null"
    /\ orphans = 0
    /\ impl = FALSE
    /\ tcr = FALSE
    /\ lib = FALSE
    /\ logOpen = FALSE
-----------------------------------------------------------------------------
(* connect, lines 75-90: the lock, the already-connected check (a throw  *)
(* that changes nothing, hence no step), the statics made sure of: a     *)
(* SystemProperties is built from this call's config only when none is   *)
(* left from before.                                                      *)
Begin ==
    /\ ~connected
    /\ instance' = IF instance = "unalloc" THEN "null" ELSE instance

PropsAtBegin == IF sysProps = "null" THEN "fresh" ELSE "stale"

(* name == nullptr: the properties are deleted and connect throws.        *)
ConnectNullName ==
    /\ Begin
    /\ sysProps' = "null"
    /\ UNCHANGED <<connected, statMngr, etm, orphans, impl, tcr, lib, logOpen>>

(* TcrMessage::init fails: its buffers are cleaned up and connect throws, *)
(* leaving the properties and the initialised library behind.            *)
ConnectTcrFail ==
    /\ Begin
    /\ sysProps' = PropsAtBegin
    /\ lib' = TRUE
    /\ tcr' = FALSE
    /\ UNCHANGED <<connected, statMngr, etm, orphans, impl, logOpen>>

(* Log::init throws: log, buffers, library and properties are released  *)
(* and *m_instance_ptr is reset before the rethrow.                        *)
ConnectLogFail ==
    /\ Begin
    /\ sysProps' = "null"
    /\ instance' = "null"
    /\ lib' = FALSE
    /\ tcr' = FALSE
    /\ logOpen' = FALSE
    /\ UNCHANGED <<connected, statMngr, etm, orphans, impl>>

(* The log step that succeeds: reopened with a log file, unchanged        *)
(* without one.                                                            *)
LogOk == logOpen' \in {logOpen, TRUE}

(* getProductDir throws: rethrown with nothing released. *)
ConnectProductDirFail ==
    /\ Begin
    /\ sysProps' = PropsAtBegin
    /\ lib' = TRUE
    /\ tcr' = TRUE
    /\ LogOk
    /\ UNCHANGED <<connected, statMngr, etm, orphans, impl>>

(* StatisticsManager::initInstance throws: g_statMngr is reset, log,      *)
(* buffers, library and properties released, *m_instance_ptr reset.       *)
ConnectStatsFail ==
    /\ Begin
    /\ sysProps' = "null"
    /\ instance' = "null"
    /\ statMngr' = FALSE
    /\ lib' = FALSE
    /\ tcr' = FALSE
    /\ logOpen' = FALSE
    /\ UNCHANGED <<connected, etm, orphans, impl>>

(* Lines 180-211: the statistics manager is set up, a new                 *)
(* ExpiryTaskManager is created and started over whatever the pointer    *)
(* held, and a new DistributedSystemImpl is made.                         *)
Started ==
    /\ sysProps' = PropsAtBegin
    /\ lib' = TRUE
    /\ tcr' = TRUE
    /\ LogOk
    /\ statMngr' = TRUE
    /\ etm' = "running"
    /\ orphans' = IF etm = "running" THEN orphans + 1 ELSE orphans
    /\ orphans' <= MaxOrphans
    /\ impl' = TRUE

(* Mutant: m_connected is set before m_impl->connect() is tried. *)
ConnectImplFailConnected ==
    /\ Begin
    /\ Started
    /\ connected' = TRUE

(* m_impl->connect() throws: NotConnectedException, with everything       *)
(* started above left in place.                                           *)
ConnectImplFail ==
    /\ Begin
    /\ Started
    /\ UNCHANGED connected

(* The call succeeds: m_connected and the instance are set. *)
ConnectOk ==
    /\ ~connected
    /\ Started
    /\ connected' = TRUE
    /\ instance' = "set"

(* disconnect, lines 243-323: refused unless connected (a throw, no step); *)
(* otherwise the task manager is stopped and deleted, m_impl disconnected *)
(* and deleted, the properties deleted, the buffers and the statistics    *)
(* manager cleaned, the instance reset, the library and the log closed.   *)
Disconnect ==
    /\ connected
    /\ etm' = "null"
    /\ impl' = FALSE
    /\ sysProps' = "null"
    /\ tcr' = FALSE
    /\ statMngr' = FALSE
    /\ instance' = "null"
    /\ lib' = FALSE
    /\ logOpen' = FALSE
    /\ connected' = FALSE
    /\ UNCHANGED orphans

(* isConnected and getInstance initialise the library without the lock. *)
InitLib ==
    /\ lib' = TRUE
    /\ UNCHANGED <<connected, instance, sysProps, statMngr, etm, orphans, impl,
                   tcr, logOpen>>

Next ==
    \/ ConnectNullName \/ ConnectTcrFail \/ ConnectLogFail
    \/ ConnectProductDirFail \/ ConnectStatsFail \/ ConnectImplFail
    \/ ConnectOk \/ Disconnect \/ InitLib

Spec == Init /\ [][Next]_vars
-----------------------------------------------------------------------------
(* While connected, every object disconnect dereferences exists: the      *)
(* properties (GF_D_ASSERT at line 282, strlen at 273), the statistics    *)
(* manager (assert and clean at 299-300), a running task manager to stop, *)
(* m_impl, the buffers and the instance connect handed out.                *)
ConnectedHasResources ==
    connected =>
        /\ sysProps # "null" /\ statMngr /\ etm = "running" /\ impl
        /\ tcr /\ instance = "set"

(* Every ExpiryTaskManager connect starts is one disconnect can stop: no  *)
(* timer thread is left running with no pointer to it.                    *)
OrphanFree == orphans = 0

(* A successful connect runs with the SystemProperties built from its    *)
(* own configPtr, not with ones left by an earlier call.                  *)
FreshProperties == connected => sysProps = "fresh"
====
