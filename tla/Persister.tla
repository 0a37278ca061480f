----------------------------- MODULE Persister ------------------------------
(***************************************************************************)
(* The file-backed persistence of the store, internal/storage/             *)
(* persistence.go. saveToFile copies the gauges, then the counters, each   *)
(* under its own read lock, marshals the copy, and lets os.WriteFile       *)
(* truncate the file and write it. Nothing excludes two savers: each       *)
(* handler is one in synchronous mode, the periodic goroutine is one       *)
(* otherwise, and main is one at the end.                                  *)
(***************************************************************************)
EXTENDS MemStorage

CONSTANTS
    Savers,        \* who may be inside saveToFile
    Periodic,      \* the goroutine of periodicSave, one of Savers
    StoreInterval, \* p.storeInterval, in seconds
    DiskMayFail    \* os.WriteFile may return an error

ASSUME PeriodicAssumption == Periodic \in Savers
ASSUME IntervalAssumption == StoreInterval \in Int
ASSUME DiskAssumption == DiskMayFail \in BOOLEAN

VARIABLES
    store,    \* p.storage
    file,     \* the content of p.filePath
    savePc,   \* where each saver is in saveToFile
    snap,     \* the copy each saver has made
    failed,   \* the last save of this saver returned an error (it is only logged)
    stopChan, \* p.stopChan is closed
    ticking,  \* the goroutine of periodicSave lives
    met,      \* history: savers in saveToFile that have met another one there
    owed      \* history: the last save that ended had met another one, or failed

saveHistory == <<met, owed>>
persisterVars == <<savePc, snap, failed, stopChan, ticking, saveHistory>>

\* A file is absent, empty, garbled (no valid JSON) or holds a whole copy.
File ==
    {f \in [kind : {"absent", "empty", "garbled", "full"}, data : Store] :
        f.kind # "full" => f.data = EmptyStore}

NoFile(kind) == [kind |-> kind, data |-> EmptyStore]
Full(st) == [kind |-> "full", data |-> st]

PersisterInit ==
    /\ file = NoFile("absent")
    /\ savePc = [p \in Savers |-> "none"]
    /\ snap = [p \in Savers |-> EmptyStore]
    /\ failed = [p \in Savers |-> FALSE]
    /\ stopChan = FALSE
    /\ ticking = FALSE
    /\ met = {} /\ owed = FALSE

\* The comparison is the wrong way round.
IsSyncMode_Inverted == StoreInterval # 0

IsSyncMode == StoreInterval = 0

\* loadFromFile into a new store: a missing file is no error, and one that is
\* no valid JSON is an error that main only logs; both leave the store empty.
Loaded(f) == IF f.kind = "full" THEN f.data ELSE EmptyStore

-----------------------------------------------------------------------------
(* saveToFile *)

\* The caller enters saveToFile.
SaveCall(p) ==
    LET inside == {q \in Savers : savePc[q] # "none"} IN
    /\ savePc' = [savePc EXCEPT ![p] = "gauges"]
    /\ met' = IF inside = {} THEN {} ELSE inside \union {p}
    /\ UNCHANGED owed

SaveReturn(p, err) ==
    /\ savePc' = [savePc EXCEPT ![p] = "none"]
    /\ failed' = [failed EXCEPT ![p] = err]
    /\ owed' = (err \/ p \in met)
    /\ met' = met \ {p}

\* The copy is made once and saved again and again.
SaveGauges_Once(p) ==
    /\ savePc[p] = "gauges"
    /\ snap' = IF snap[p] = EmptyStore THEN [snap EXCEPT ![p] = store] ELSE snap
    /\ savePc' = [savePc EXCEPT ![p] = IF Marshals(snap'[p]) THEN "open" ELSE "none"]
    /\ UNCHANGED <<store, file, failed, stopChan, ticking, saveHistory>>

SaveGauges(p) ==
    /\ savePc[p] = "gauges"
    /\ snap' = [snap EXCEPT ![p].gauges = store.gauges]
    /\ savePc' = [savePc EXCEPT ![p] = "counters"]
    /\ UNCHANGED <<store, file, failed, stopChan, ticking, saveHistory>>

SaveCounters(p) ==
    /\ savePc[p] = "counters"
    /\ snap' = [snap EXCEPT ![p].counters = store.counters]
    /\ IF Marshals(snap[p])
         THEN savePc' = [savePc EXCEPT ![p] = "open"] /\ UNCHANGED <<failed, saveHistory>>
         ELSE SaveReturn(p, TRUE)
    /\ UNCHANGED <<store, file, stopChan, ticking>>

\* os.WriteFile opens the file with O_TRUNC.
SaveOpen(p) ==
    /\ savePc[p] = "open"
    /\ \/ /\ file' = NoFile("empty")
          /\ savePc' = [savePc EXCEPT ![p] = "write"]
          /\ UNCHANGED <<failed, saveHistory>>
       \/ /\ DiskMayFail
          /\ SaveReturn(p, TRUE)
          /\ UNCHANGED file
    /\ UNCHANGED <<store, snap, stopChan, ticking>>

\* os.WriteFile writes the copy from the start of the file. Over what another
\* saver has written since, the result is the copy or, when that was longer,
\* the copy with a rest of it, which is no JSON.
Written(f, st) ==
    IF f = NoFile("empty") \/ f = Full(st) THEN {Full(st)}
    ELSE {Full(st), NoFile("garbled")}

SaveWrite(p) ==
    /\ savePc[p] = "write"
    /\ \/ /\ file' \in Written(file, snap[p])
          /\ SaveReturn(p, FALSE)
       \/ /\ DiskMayFail
          /\ file' \in {NoFile("empty"), NoFile("garbled")}
          /\ SaveReturn(p, TRUE)
    /\ UNCHANGED <<store, snap, stopChan, ticking>>

SaveStep(p) == SaveGauges(p) \/ SaveCounters(p) \/ SaveOpen(p) \/ SaveWrite(p)

-----------------------------------------------------------------------------
(* periodicSave: with both a tick and the closed channel ready, select picks *)
(* either                                                                    *)

PeriodicTick ==
    /\ ticking
    /\ savePc[Periodic] = "none"
    /\ SaveCall(Periodic)
    /\ UNCHANGED <<store, file, snap, failed, stopChan, ticking>>

\* The select has no case for stopChan.
StopSeen_NoCase == FALSE

StopSeen == stopChan

PeriodicExit ==
    /\ ticking
    /\ savePc[Periodic] = "none"
    /\ StopSeen
    /\ ticking' = FALSE
    /\ UNCHANGED <<store, file, savePc, snap, failed, stopChan, saveHistory>>
=============================================================================
