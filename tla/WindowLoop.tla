------------------------------- MODULE WindowLoop -------------------------------
(***************************************************************************)
(* The while loop of ingest/schwab_sync.py::sync_windows, one step per     *)
(* iteration, for every pair of arguments of a bounded range.              *)
(***************************************************************************)
EXTENDS SyncWindows, Sequences

CONSTANT Times  \* the values last_synced_at and now may take

ASSUME TimesAssumption == Times \subseteq Int

VARIABLES
    last, now,  \* the arguments
    cursor,     \* the loop's cursor
    windows,    \* the list being built, of <<start, end>> pairs
    returned    \* the function has returned

vars == <<last, now, cursor, windows, returned>>

TypeOK ==
    /\ last \in Times \cup {None}
    /\ now \in Times
    /\ cursor \in Int
    /\ windows \in Seq(Int \X Int)
    /\ returned \in BOOLEAN

Init ==
    /\ last \in Times \cup {None}
    /\ now \in Times
    /\ cursor = WindowsStart(last, now)
    /\ windows = <<>>
    /\ returned = FALSE

\* Mutant of Iterate: half-open windows read as closed days, so that the next
\* window starts one unit after the end of the last.
IterateSkip ==
    /\ ~returned
    /\ cursor < now
    /\ windows' = Append(windows, <<cursor, WindowEnd(cursor, now)>>)
    /\ cursor' = WindowEnd(cursor, now) + 1
    /\ UNCHANGED <<last, now, returned>>

\* One iteration: while cursor < now.
Iterate ==
    /\ ~returned
    /\ cursor < now
    /\ windows' = Append(windows, <<cursor, WindowEnd(cursor, now)>>)
    /\ cursor' = WindowEnd(cursor, now)
    /\ UNCHANGED <<last, now, returned>>

\* Mutant of Return: the loop written as while cursor != now.
ReturnWhenEqual ==
    /\ ~returned
    /\ cursor = now
    /\ returned' = TRUE
    /\ UNCHANGED <<last, now, cursor, windows>>

Return ==
    /\ ~returned
    /\ ~(cursor < now)
    /\ returned' = TRUE
    /\ UNCHANGED <<last, now, cursor, windows>>

Next == Iterate \/ Return

\* A straight-line Python loop: it takes its next step.
Spec == Init /\ [][Next]_vars /\ WF_vars(Next)

--------------------------------------------------------------------------------
\* The windows found so far tile [start, cursor) from the left: the first one
\* starts where the sync must start, each starts where the one before ended
\* (no gap, no overlap), and the cursor is where the last one ended.
Tiled ==
    /\ windows = <<>> => cursor = WindowsStart(last, now)
    /\ windows # <<>> => /\ windows[1][1] = WindowsStart(last, now)
                         /\ windows[Len(windows)][2] = cursor
    /\ \A i \in 1..(Len(windows) - 1) : windows[i][2] = windows[i + 1][1]

\* No window asks the vendor for an empty range or for more than MaxRange.
WidthBounded ==
    \A i \in 1..Len(windows) :
        /\ windows[i][1] < windows[i][2]
        /\ windows[i][2] - windows[i][1] <= MaxRange

\* Nothing past now is asked for, and every window but the last is a full one,
\* so the list is the shortest that respects the vendor's range limit.
FullWindows ==
    /\ windows # <<>> => cursor <= now
    /\ \A i \in 1..Len(windows) :
          \/ windows[i][2] - windows[i][1] = MaxRange
          \/ i = Len(windows) /\ windows[i][2] = now

\* What the docstring promises of the returned list: it covers [start, now].
CoversToNow ==
    returned => \/ WindowsStart(last, now) >= now /\ windows = <<>>
                \/ windows # <<>> /\ windows[Len(windows)][2] = now

\* However long ago the last sync was, a run asks the vendor no more often than the
\* range limit makes it: the loop's list has at most (now - start) / MaxRange windows,
\* rounded up.
RequestsBounded ==
    windows # <<>> => (Len(windows) - 1) * MaxRange < now - WindowsStart(last, now)

\* The loop ends for every argument.
Terminates == <>returned

================================================================================
