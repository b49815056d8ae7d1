--------------------------- MODULE WindowLoop_proofs ----------------------------
(***************************************************************************)
(* sync_windows for every setting and every pair of arguments: the list it *)
(* builds tiles the range to sync with windows of the allowed width.       *)
(***************************************************************************)
EXTENDS WindowLoop, TLAPS

\* A window ends after its start, no later than now and no wider than MaxRange;
\* it is either full or ends at now.
LEMMA WindowEndFacts ==
    ASSUME NEW c \in Int, NEW n \in Int, c < n
    PROVE  /\ WindowEnd(c, n) \in Int
           /\ c < WindowEnd(c, n)
           /\ WindowEnd(c, n) <= n
           /\ WindowEnd(c, n) - c <= MaxRange
           /\ WindowEnd(c, n) - c = MaxRange \/ WindowEnd(c, n) = n
BY SettingsAssumption DEF WindowEnd

\* The start of the range is an integer.
LEMMA WindowsStartType ==
    ASSUME NEW l \in Int \cup {None}, NEW n \in Int
    PROVE  WindowsStart(l, n) \in Int
BY SettingsAssumption DEF WindowsStart

\* What Append does to the parts of a list of windows the properties read.
LEMMA AppendFacts ==
    ASSUME NEW S, NEW s \in Seq(S), NEW e \in S
    PROVE  /\ Append(s, e) \in Seq(S)
           /\ Len(Append(s, e)) = Len(s) + 1
           /\ Append(s, e)[Len(s) + 1] = e
           /\ \A i \in 1..Len(s) : Append(s, e)[i] = s[i]
           /\ Append(s, e) # <<>>
OBVIOUS

\* As long as there is something left to sync, every window was a full one: the cursor
\* tells how many there are.
Counted ==
    cursor < now => cursor = WindowsStart(last, now) + Len(windows) * MaxRange

\* The inductive invariant: the parts the runs check, and that a loop that has
\* returned has reached now.
IInv ==
    /\ TypeOK
    /\ Tiled
    /\ WidthBounded
    /\ FullWindows
    /\ Counted
    /\ RequestsBounded
    /\ returned => ~(cursor < now)

\* Before the first iteration there is no window and the cursor is at start.
LEMMA InitIInv == Init => IInv
<1> SUFFICES ASSUME Init PROVE IInv
    OBVIOUS
<1>1. now \in Int /\ last \in Int \cup {None}
    BY TimesAssumption DEF Init
<1>2. TypeOK
    <2>1. WindowsStart(last, now) \in Int
        BY <1>1, WindowsStartType
    <2>2. windows \in Seq(Int \X Int)
        BY DEF Init
    <2> QED BY <2>1, <2>2, Zenon DEF Init, TypeOK
<1>3. Len(windows) = 0
    BY DEF Init
<1>4. Tiled /\ WidthBounded /\ FullWindows
    BY <1>3, SMT DEF Init, Tiled, WidthBounded, FullWindows
<1>5. Counted /\ RequestsBounded
    <2>1. Len(windows) * MaxRange = 0
        BY <1>3, SettingsAssumption
    <2>2. WindowsStart(last, now) \in Int
        BY <1>1, WindowsStartType
    <2> QED BY <2>1, <2>2 DEF Init, Counted, RequestsBounded
<1> QED
    BY <1>2, <1>4, <1>5 DEF Init, IInv

\* An iteration appends one window that begins where the last one ended.
LEMMA NextIInv == IInv /\ [Next]_vars => IInv'
<1> SUFFICES ASSUME IInv, [Next]_vars PROVE IInv'
    OBVIOUS
<1>0. now \in Int /\ last \in Int \cup {None} /\ cursor \in Int
      /\ windows \in Seq(Int \X Int) /\ Len(windows) \in Nat
    BY TimesAssumption DEF IInv, TypeOK
<1>1. CASE Iterate
    <2> DEFINE e == WindowEnd(cursor, now)
               w == <<cursor, e>>
               n == Len(windows)
    <2>1. /\ cursor < now /\ e \in Int /\ cursor < e /\ e <= now
          /\ e - cursor <= MaxRange /\ (e - cursor = MaxRange \/ e = now)
        BY <1>0, <1>1, WindowEndFacts DEF Iterate
    <2>2. /\ windows' = Append(windows, w) /\ cursor' = e
          /\ last' = last /\ now' = now /\ returned' = returned
        BY <1>1 DEF Iterate
    <2>3. w \in Int \X Int /\ w[1] = cursor /\ w[2] = e
        BY <1>0, <2>1
    <2>4. /\ windows' \in Seq(Int \X Int) /\ Len(windows') = n + 1
          /\ windows'[n + 1] = w /\ windows' # <<>>
          /\ \A i \in 1..n : windows'[i] = windows[i]
        BY <1>0, <2>2, <2>3, AppendFacts
    <2>e. n = 0 <=> windows = <<>>
        BY <1>0
    <2> HIDE DEF e, w
    <2>5. TypeOK'
        BY <2>1, <2>2, <2>4 DEF IInv, TypeOK
    <2>6. Tiled'
        <3>1. windows'[1][1] = WindowsStart(last', now')
            <4>1. CASE n = 0
                BY <4>1, <2>e, <2>2, <2>3, <2>4 DEF IInv, Tiled
            <4>2. CASE n # 0
                <5>1. 1 \in 1..n /\ windows # <<>>
                    BY <4>2, <1>0, <2>e
                <5> QED BY <5>1, <2>2, <2>4 DEF IInv, Tiled
            <4> QED BY <4>1, <4>2
        <3>2. windows'[Len(windows')][2] = cursor'
            BY <2>2, <2>3, <2>4
        <3>3. ASSUME NEW i \in 1..(Len(windows') - 1)
              PROVE  windows'[i][2] = windows'[i + 1][1]
            <4>1. i \in 1..n
                BY <2>4, <1>0
            <4>2. CASE i = n
                <5>1. windows # <<>>
                    BY <4>1, <2>e, <1>0
                <5>2. windows[n][2] = cursor
                    BY <5>1 DEF IInv, Tiled
                <5> QED BY <4>1, <4>2, <5>2, <2>3, <2>4
            <4>3. CASE i # n
                <5>1. i + 1 \in 1..n /\ i \in 1..(n - 1)
                    BY <4>1, <4>3, <1>0
                <5>2. windows[i][2] = windows[i + 1][1]
                    BY <5>1 DEF IInv, Tiled
                <5> QED BY <4>1, <5>1, <5>2, <2>4
            <4> QED BY <4>2, <4>3
        <3> QED BY <3>1, <3>2, <3>3, <2>4 DEF Tiled
    <2>7. ASSUME NEW i \in 1..Len(windows'), i # n + 1
          PROVE  i \in 1..n /\ windows'[i] = windows[i]
        <3>0. Len(windows') = n + 1 /\ n \in Nat
            BY <1>0, <2>4
        <3> HIDE DEF n
        <3>1. i \in 1..n
            BY <2>7, <3>0
        <3> QED BY <2>4, <3>1
    <2>8. WidthBounded'
        BY <2>1, <2>3, <2>4, <2>7 DEF IInv, WidthBounded
    <2>9. FullWindows'
        <3>1. \A i \in 1..n : windows[i][2] - windows[i][1] = MaxRange
            <4> SUFFICES ASSUME NEW i \in 1..n,
                                i = n, windows[i][2] = now
                         PROVE  FALSE
                BY DEF IInv, FullWindows
            <4>1. windows # <<>>
                BY <2>e, <1>0
            <4>2. windows[n][2] = cursor
                BY <4>1 DEF IInv, Tiled
            <4> QED BY <4>2, <2>1, <1>0
        <3> QED BY <3>1, <2>1, <2>2, <2>3, <2>4, <2>7 DEF FullWindows
    <2>10. Counted' /\ RequestsBounded'
        <3> DEFINE start == WindowsStart(last, now)
        <3>1. start \in Int /\ start' = start
            BY <1>0, <2>2, WindowsStartType
        <3>2. n \in Nat /\ MaxRange \in Int
            BY <1>0, SettingsAssumption
        <3>3. cursor = start + n * MaxRange
            BY <2>1 DEF IInv, Counted
        <3> HIDE DEF start, n
        <3>4. n * MaxRange \in Int /\ (n + 1) * MaxRange = n * MaxRange + MaxRange
            BY <3>2
        <3>5. Counted'
            <4>1. e < now => e = start + (n + 1) * MaxRange
                BY <1>0, <2>1, <3>1, <3>2, <3>3, <3>4
            <4> QED BY <2>2, <2>4, <3>1, <4>1 DEF Counted, start
        <3>6. RequestsBounded'
            <4>1. n * MaxRange < now - start
                BY <1>0, <2>1, <3>1, <3>3, <3>4
            <4>2. Len(windows') - 1 = n
                BY <2>4, <3>2
            <4> QED BY <2>2, <3>1, <4>1, <4>2 DEF RequestsBounded, start
        <3> QED BY <3>5, <3>6
    <2> QED BY <2>5, <2>6, <2>8, <2>9, <2>10, <2>2, <1>1 DEF IInv, Iterate
<1>2. CASE Return
    BY <1>2 DEF Return, IInv, TypeOK, Tiled, WidthBounded, FullWindows, Counted,
        RequestsBounded
<1>3. CASE UNCHANGED vars
    BY <1>3 DEF vars, IInv, TypeOK, Tiled, WidthBounded, FullWindows, Counted, RequestsBounded
<1> QED BY <1>1, <1>2, <1>3 DEF Next

\* The invariant of the window loop holds in every iteration.
THEOREM Invariance == Spec => []IInv
BY InitIInv, NextIInv, PTL DEF Spec

\* The windows tile the range from its start: no gap and no overlap between two
\* windows of sync_windows, whatever the settings and the watermark are.
THEOREM SpecTiled == Spec => []Tiled
<1>1. IInv => Tiled
    BY DEF IInv
<1> QED BY <1>1, Invariance, PTL

\* No window is empty or wider than the range the vendor accepts.
THEOREM SpecWidthBounded == Spec => []WidthBounded
<1>1. IInv => WidthBounded
    BY DEF IInv
<1> QED BY <1>1, Invariance, PTL

\* Every window but the last is full, so there are no more of them than needed.
THEOREM SpecFullWindows == Spec => []FullWindows
<1>1. IInv => FullWindows
    BY DEF IInv
<1> QED BY <1>1, Invariance, PTL

\* The list sync_windows returns reaches exactly to now.
THEOREM SpecCoversToNow == Spec => []CoversToNow
<1>1. IInv => CoversToNow
    <2> SUFFICES ASSUME IInv, returned PROVE CoversToNow
        BY DEF CoversToNow
    <2>0. now \in Int /\ last \in Int \cup {None} /\ cursor \in Int
        BY TimesAssumption DEF IInv, TypeOK
    <2>1. cursor >= now
        BY <2>0 DEF IInv
    <2>2. CASE windows = <<>>
        BY <2>1, <2>2 DEF IInv, Tiled, CoversToNow
    <2>3. CASE windows # <<>>
        BY <2>0, <2>1, <2>3, SMT DEF IInv, Tiled, FullWindows, CoversToNow
    <2> QED BY <2>2, <2>3
<1> QED BY <1>1, Invariance, PTL

\* A run asks the vendor at most (now - start) / MaxRange times, rounded up, whatever the
\* settings and the watermark are: the loop cannot run away.
THEOREM SpecRequestsBounded == Spec => []RequestsBounded
<1>1. IInv => RequestsBounded
    BY DEF IInv
<1> QED BY <1>1, Invariance, PTL
================================================================================
