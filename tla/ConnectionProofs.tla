-------------------------- MODULE ConnectionProofs --------------------------
(***************************************************************************)
(* For every number of attempts, polls, seconds and syncs: the variables   *)
(* of the connection loop keep their types, and Connected is shown only    *)
(* with a client set while no task of an earlier attempt has interfered.   *)
(***************************************************************************)
EXTENDS Connection, TLAPS

\* The current attempt has published its client once its first sync is over;
\* only the start of the next attempt takes it back.
CurrentHasClient == attempt[current] \in {"flush", "live", "resync"} => client # none

StatusHasClient == connection_status = "Connected" /\ ~intruded => client # none

\* The type invariant in two parts.
FlagsOK == reconnect_now \in BOOLEAN /\ asked \in BOOLEAN /\ intruded \in BOOLEAN
CountsOK ==
    /\ pc \in {"start", "phase1", "phase2", "countdown"}
    /\ checks \in 0 .. CHECKS
    /\ reconnect_countdown \in 0 .. RETRY_SECS
    /\ reconnect_countdown > 0 <=> pc = "countdown"
    /\ connection_status \in {"Disconnected", "Connecting", "Syncing", "Connected"}
    /\ attempt \in [Attempts -> Stages \cup {"ended"}]
    /\ current \in Attempts
    /\ client \in Attempts \cup {none}
    /\ syncs \in 0 .. MaxSyncs

LEMMA TypeParts == ConnectionTypeOK <=> FlagsOK /\ CountsOK
BY DEF ConnectionTypeOK, FlagsOK, CountsOK

LEMMA TypePartsNext == ConnectionTypeOK' <=> FlagsOK' /\ CountsOK'
BY DEF ConnectionTypeOK, FlagsOK, CountsOK

ConnInv == ConnectionTypeOK /\ CurrentHasClient /\ StatusHasClient

\* The assumptions, as the leaves need them.
LEMMA Bounds ==
    /\ CHECKS \in Nat /\ CHECKS > 0 /\ RETRY_SECS \in Nat /\ RETRY_SECS > 0
    /\ 1 \in Attempts /\ MaxSyncs \in Nat /\ Attempts \subseteq Nat /\ none \notin Attempts
BY ConnectionBounds DEF Attempts, none

LEMMA ConnInit == Init => ConnInv
<1> SUFFICES ASSUME Init PROVE ConnInv
    OBVIOUS
<1>1. FlagsOK
    BY Zenon DEF Init, FlagsOK
<1>2. CountsOK
    BY Bounds DEF Init, CountsOK
<1>3. CurrentHasClient /\ StatusHasClient
    BY Bounds DEF Init, CurrentHasClient, StatusHasClient
<1> QED
    BY <1>1, <1>2, <1>3, TypeParts DEF ConnInv

\* The head of the loop: the new attempt has no client, and neither the old
\* status nor an old intrusion stays.
LEMMA RestartStep == ConnInv /\ Restart => ConnInv'
<1> SUFFICES ASSUME ConnInv, Restart PROVE ConnInv'
    OBVIOUS
<1>1. PICK a \in Attempts : attempt[a] = "ended" /\ attempt' = [attempt EXCEPT ![a] = "dial"] /\ current' = a
    BY DEF Restart, Enter
<1>2. ConnectionTypeOK'
    <2>1. FlagsOK'
        BY Zenon DEF Restart, FlagsOK
    <2>2. CountsOK'
        BY <1>1, Bounds, TypeParts DEF ConnInv, Restart, CountsOK, Stages
    <2> QED
        BY <2>1, <2>2, TypePartsNext
<1>3. attempt'[current'] = "dial"
    BY <1>1 DEF ConnInv, ConnectionTypeOK
<1>4. CurrentHasClient'
    BY <1>3 DEF CurrentHasClient
<1>5. StatusHasClient'
    BY DEF Restart, StatusHasClient
<1> QED
    BY <1>2, <1>4, <1>5 DEF ConnInv

\* Giving up leaves the attempt, its client and the intrusion as they are and
\* shows Disconnected.
LEMMA GiveUpStep == ASSUME ConnInv, GiveUp, reconnect_now' \in BOOLEAN PROVE ConnInv'
<1>1. ConnectionTypeOK'
    BY Bounds DEF ConnInv, GiveUp, ConnectionTypeOK
<1>2. CurrentHasClient' /\ StatusHasClient'
    BY DEF ConnInv, GiveUp, CurrentHasClient, StatusHasClient
<1> QED
    BY <1>1, <1>2 DEF ConnInv

LEMMA LoopStep == ConnInv /\ Loop => ConnInv'
<1> SUFFICES ASSUME ConnInv, Loop PROVE ConnInv'
    OBVIOUS
<1> USE DEF ConnInv
<1>1. CASE Start
    BY <1>1, RestartStep DEF Start
<1>2. CASE Phase1
    <2>1. CASE GiveUp /\ (UNCHANGED reconnect_now \/ reconnect_now' = FALSE)
        BY <2>1, GiveUpStep DEF ConnectionTypeOK
    <2>2. CASE /\ pc' \in {"phase1", "phase2"} /\ pc = "phase1"
               /\ checks' = 0 \/ (checks > 1 /\ checks' = checks - 1)
               /\ UNCHANGED <<reconnect_countdown, current, reconnect_now, connection_status, attempt,
                              client, syncs, asked, intruded>>
        <3>1. ConnectionTypeOK'
            BY <2>2, Bounds DEF ConnectionTypeOK
        <3>2. CurrentHasClient' /\ StatusHasClient'
            BY <2>2 DEF CurrentHasClient, StatusHasClient
        <3> QED
            BY <3>1, <3>2
    <2> QED
        BY <1>2, <2>1, <2>2 DEF Phase1
<1>3. CASE Phase2
    BY <1>3, GiveUpStep DEF Phase2
<1>4. CASE Countdown
    <2>1. CASE Restart
        BY <2>1, RestartStep
    <2>2. CASE /\ pc = "countdown" /\ reconnect_countdown > 1
               /\ reconnect_countdown' = reconnect_countdown - 1
               /\ UNCHANGED <<pc, checks, current, reconnect_now, connection_status, attempt, client,
                              syncs, asked, intruded>>
        <3>1. ConnectionTypeOK'
            BY <2>2, Bounds DEF ConnectionTypeOK
        <3>2. CurrentHasClient' /\ StatusHasClient'
            BY <2>2 DEF CurrentHasClient, StatusHasClient
        <3> QED
            BY <3>1, <3>2
    <2> QED
        BY <1>4, <2>1, <2>2 DEF Countdown
<1> QED
    BY <1>1, <1>2, <1>3, <1>4 DEF Loop

\* An attempt, the current one or one given up.  The client is set by Synced
\* and cleared by none of these steps; a status another attempt shows counts as
\* an intrusion.
LEMMA AttemptStep == ASSUME NEW a \in Attempts, ConnInv, Attempt(a) PROVE ConnInv'
<1> USE DEF ConnInv
<1>1. PICK stage \in Stages \cup {"ended"} : attempt' = [attempt EXCEPT ![a] = stage]
    BY DEF Attempt, Dialled, Synced, Flushed, Notified, Resynced, StreamEnds, Enter, Stages
<1>2. ConnectionTypeOK'
    BY <1>1, Bounds DEF ConnectionTypeOK, Attempt, Dialled, Synced, Flushed, Notified, Resynced, StreamEnds,
        Show, loopVars
<1>3. /\ current' = current
      /\ client' = client \/ client' = a
      /\ a # none
    BY Bounds DEF Attempt, Dialled, Synced, Flushed, Notified, Resynced, StreamEnds, loopVars
<1>4. CurrentHasClient'
    <2>1. CASE Synced(a)
        BY <2>1, <1>1, <1>3, Bounds DEF Synced, Enter, CurrentHasClient, ConnectionTypeOK
    <2>2. CASE Dialled(a)
        BY <2>2, <1>3 DEF Dialled, Enter, CurrentHasClient, ConnectionTypeOK
    <2>3. CASE Flushed(a) \/ Notified(a) \/ Resynced(a) \/ StreamEnds(a)
        BY <2>3, <1>3 DEF Flushed, Notified, Resynced, StreamEnds, Enter, CurrentHasClient, ConnectionTypeOK
    <2> QED
        BY <2>1, <2>2, <2>3 DEF Attempt
<1>5. StatusHasClient'
    <2>1. CASE connection_status' = connection_status /\ intruded' = intruded
        BY <2>1, <1>3 DEF StatusHasClient
    <2>2. CASE connection_status' = "Syncing"
        BY <2>2 DEF StatusHasClient
    <2>3. CASE Synced(a) /\ client' = a
        BY <2>3, <1>3 DEF StatusHasClient
    <2>4. CASE Resynced(a) /\ Show(a, "Connected")
        <3>1. CASE a = current
            BY <3>1, <2>4, <1>3 DEF Resynced, CurrentHasClient, StatusHasClient
        <3>2. CASE a # current
            BY <3>2, <2>4 DEF Show, StatusHasClient
        <3> QED
            BY <3>1, <3>2
    <2> QED
        BY <2>1, <2>2, <2>3, <2>4 DEF Attempt, Dialled, Synced, Flushed, Notified, Resynced, StreamEnds, Show
<1> QED
    BY <1>2, <1>4, <1>5

\* The syncs of the timer and the user, and requests.
LEMMA OtherStep == ConnInv /\ (SyncStart \/ SyncEnd \/ RequestReconnect) => ConnInv'
<1> SUFFICES ASSUME ConnInv, SyncStart \/ SyncEnd \/ RequestReconnect PROVE ConnInv'
    OBVIOUS
<1> USE DEF ConnInv
<1>1. ConnectionTypeOK'
    <2>1. FlagsOK'
        BY TypeParts, Zenon DEF FlagsOK, SyncStart, SyncEnd, RequestReconnect, loopVars
    <2>2. CountsOK'
        BY Bounds, TypeParts DEF CountsOK, SyncStart, SyncEnd, RequestReconnect, loopVars
    <2> QED
        BY <2>1, <2>2, TypePartsNext
<1>2. CurrentHasClient'
    BY DEF CurrentHasClient, SyncStart, SyncEnd, RequestReconnect, loopVars
<1>3. StatusHasClient'
    BY Bounds DEF StatusHasClient, ConnectionTypeOK, SyncStart, SyncEnd, RequestReconnect, loopVars
<1> QED
    BY <1>1, <1>2, <1>3

LEMMA ConnNext == ConnInv /\ [Next]_vars => ConnInv'
<1>1. ConnInv /\ UNCHANGED vars => ConnInv'
    BY DEF vars, loopVars, ConnInv, ConnectionTypeOK, CurrentHasClient, StatusHasClient
<1> QED
    BY <1>1, LoopStep, AttemptStep, OtherStep DEF Next

\* The variables keep their types, and a countdown runs only in its phase
\* (connection_loop in app.rs).
THEOREM ConnectionTypeCorrect == Spec => []ConnectionTypeOK
<1>1. ConnInv => ConnectionTypeOK
    BY DEF ConnInv
<1> QED
    BY <1>1, ConnInit, ConnNext, PTL DEF Spec

\* Pushes have a client as soon as the current attempt is through its first sync,
\* whatever else is running; before that, Connected is shown only with a client,
\* unless a task of an earlier attempt has interfered (connect_and_run in app.rs).
THEOREM ConnectedHasClient == Spec => []ConnectedMeansClient
<1>1. ConnInv => ConnectedMeansClient
    BY DEF ConnInv, CurrentHasClient, StatusHasClient, ConnectedMeansClient
<1> QED
    BY <1>1, ConnInit, ConnNext, PTL DEF Spec
=============================================================================
