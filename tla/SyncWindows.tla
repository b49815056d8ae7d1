------------------------------ MODULE SyncWindows ------------------------------
(***************************************************************************)
(* ingest/schwab_sync.py::sync_windows, the window arithmetic one sync of  *)
(* one user is built on.  Times are integers in the unit of the settings   *)
(* (days in settings.py).                                                  *)
(***************************************************************************)
EXTENDS Integers

CONSTANTS
    Lookback,  \* settings.schwab_tx_lookback_max_days
    MaxRange,  \* settings.schwab_tx_max_range_days
    Overlap,   \* settings.schwab_tx_sync_overlap_days
    None       \* the SQL NULL of a nullable column

\* settings.py:83-95.  The settings are plain ints; a MaxRange of 0 makes the
\* loop below spin for ever, so it is excluded here and listed as a hazard.
ASSUME SettingsAssumption ==
    /\ Lookback \in Nat
    /\ MaxRange \in Nat \ {0}
    /\ Overlap \in Nat
    /\ None \notin Int

\* Mutant of WindowsStart: the overlap is forgotten.
WindowsStartNoOverlap(last, now) ==
    IF last # None THEN last ELSE now - Lookback

\* Where the first window starts: the watermark less the overlap, or, on the
\* first connect (last_synced_at IS NULL), the lookback before now.
WindowsStart(last, now) ==
    IF last # None THEN last - Overlap ELSE now - Lookback

\* Mutant of WindowEnd: windows of one unit.
WindowEndHalfRange(cursor, now) ==
    IF cursor + MaxRange < now THEN cursor + 1 ELSE now

\* min(cursor + max_range, now)
WindowEnd(cursor, now) ==
    IF cursor + MaxRange < now THEN cursor + MaxRange ELSE now

================================================================================
