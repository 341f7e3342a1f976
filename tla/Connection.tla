----------------------------- MODULE Connection -----------------------------
(***************************************************************************)
(* The connection loop of the WASM client (clients/wasm/src/app.rs): the   *)
(* loop polls an attempt it has spawned, gives it up on a timeout or on a  *)
(* reconnect request, counts down and spawns the next one.  An attempt     *)
(* that was given up is not cancelled: it goes on beside its successors,   *)
(* and all of them, the loop and the syncs the user or the timer starts    *)
(* share connection_status, CLIENT and RECONNECT_NOW.                      *)
(***************************************************************************)
EXTENDS Integers

CONSTANTS CHECKS,      \* polls of phase 1: CONNECT_TIMEOUT_SECS * 10
          RETRY_SECS,
          MaxAttempts, \* bound on attempts that run at a time
          MaxSyncs     \* bound on timed and manual syncs that run at a time

ASSUME ConnectionBounds ==
    /\ CHECKS \in Nat \ {0} /\ RETRY_SECS \in Nat \ {0}
    /\ MaxAttempts \in Nat \ {0} /\ MaxSyncs \in Nat

VARIABLES
    pc,                  \* where connection_loop sleeps
    checks,              \* polls of phase 1 left
    reconnect_countdown,
    reconnect_now,       \* RECONNECT_NOW
    connection_status,
    attempt,             \* the connect_and_run tasks
    current,             \* the one whose `finished` the loop reads
    client,              \* CLIENT: the attempt that set it
    syncs,               \* how many timed and manual syncs are running
    asked,               \* history: a request was made and no attempt started since
    intruded             \* history: since the current attempt started, a task that does
                         \* not belong to it has changed the status

loopVars == <<pc, checks, reconnect_countdown, current>>
vars == <<loopVars, reconnect_now, connection_status, attempt, client, syncs, asked, intruded>>

Attempts == 1 .. MaxAttempts
none     == 0

\* Where connect_and_run waits: for the handshake, its first sync, the flush,
\* a notification, the sync a notification causes.
Stages == {"dial", "sync", "flush", "live", "resync"}

\* One type for everything; a countdown runs only while the loop counts down.
ConnectionTypeOK ==
    /\ pc \in {"start", "phase1", "phase2", "countdown"}
    /\ checks \in 0 .. CHECKS
    /\ reconnect_countdown \in 0 .. RETRY_SECS
    /\ reconnect_countdown > 0 <=> pc = "countdown"
    /\ reconnect_now \in BOOLEAN /\ asked \in BOOLEAN /\ intruded \in BOOLEAN
    /\ connection_status \in {"Disconnected", "Connecting", "Syncing", "Connected"}
    /\ attempt \in [Attempts -> Stages \cup {"ended"}]
    /\ current \in Attempts
    /\ client \in Attempts \cup {none}
    /\ syncs \in 0 .. MaxSyncs

Init ==
    /\ pc = "start" /\ checks = 0 /\ reconnect_countdown = 0 /\ reconnect_now = FALSE
    /\ connection_status = "Disconnected"
    /\ attempt = [a \in Attempts |-> "ended"] /\ current = 1
    /\ client = none /\ syncs = 0 /\ asked = FALSE /\ intruded = FALSE

Enter(a, stage) == attempt' = [attempt EXCEPT ![a] = stage]
finished == attempt[current] = "ended"

-----------------------------------------------------------------------------
(* connection_loop.  Each step runs from one sleep to the next. *)

\* The head of the loop: a stale request is cleared and an attempt spawned,
\* which runs before any timer or answer: clear_client, then the certificate
\* and the handshake.
Restart ==
    /\ \E a \in Attempts :
          /\ attempt[a] = "ended"
          /\ \A b \in Attempts : attempt[b] = "ended" => a <= b
          /\ Enter(a, "dial") /\ current' = a
    /\ pc' = "phase1" /\ checks' = CHECKS /\ reconnect_countdown' = 0
    /\ connection_status' = "Connecting"
    /\ reconnect_now' = FALSE /\ asked' = FALSE /\ intruded' = FALSE
    /\ client' = none
    /\ UNCHANGED syncs

Start == pc = "start" /\ Restart

\* After phase 1 or 2: the attempt is left to itself and the countdown begins.
GiveUp ==
    /\ pc' = "countdown" /\ checks' = 0 /\ reconnect_countdown' = RETRY_SECS
    /\ connection_status' = "Disconnected"
    /\ UNCHANGED <<current, attempt, client, syncs, asked, intruded>>

\* Mutant: no timeout.
Phase1Forever ==
    /\ pc = "phase1"
    /\ \/ finished /\ GiveUp /\ UNCHANGED reconnect_now
       \/ ~finished /\ reconnect_now /\ reconnect_now' = FALSE /\ GiveUp
       \/ /\ ~finished /\ ~reconnect_now /\ connection_status \in {"Connected", "Syncing"}
          /\ pc' = "phase2" /\ checks' = 0
          /\ UNCHANGED <<reconnect_countdown, current, reconnect_now, connection_status, attempt,
                         client, syncs, asked, intruded>>

\* A poll of phase 1: the end of the attempt, a request, a status that says
\* it is connected, or the timeout.
Phase1 ==
    /\ pc = "phase1"
    /\ \/ finished /\ GiveUp /\ UNCHANGED reconnect_now
       \/ ~finished /\ reconnect_now /\ reconnect_now' = FALSE /\ GiveUp
       \/ /\ ~finished /\ ~reconnect_now /\ connection_status \in {"Connected", "Syncing"}
          /\ pc' = "phase2" /\ checks' = 0
          /\ UNCHANGED <<reconnect_countdown, current, reconnect_now, connection_status, attempt,
                         client, syncs, asked, intruded>>
       \/ /\ ~finished /\ ~reconnect_now /\ connection_status \notin {"Connected", "Syncing"}
          /\ \/ checks = 1 /\ GiveUp /\ UNCHANGED reconnect_now
             \/ /\ checks > 1 /\ checks' = checks - 1
                /\ UNCHANGED <<pc, reconnect_countdown, current, reconnect_now, connection_status,
                               attempt, client, syncs, asked, intruded>>

\* A poll of phase 2: a request or the end of the attempt.  The request is
\* taken first, so it is used up even when the attempt has ended.
Phase2 ==
    /\ pc = "phase2"
    /\ reconnect_now \/ finished
    /\ reconnect_now' = FALSE
    /\ GiveUp

\* Mutant: at its end the countdown starts over; only a request ends it.
CountdownStartsOver ==
    /\ pc = "countdown"
    /\ \/ reconnect_now /\ Restart
       \/ ~reconnect_now /\ reconnect_countdown = 1 /\ GiveUp /\ UNCHANGED reconnect_now
       \/ /\ ~reconnect_now /\ reconnect_countdown > 1
          /\ reconnect_countdown' = reconnect_countdown - 1
          /\ UNCHANGED <<pc, checks, current, reconnect_now, connection_status, attempt, client,
                         syncs, asked, intruded>>

\* A second of the countdown has passed.
Countdown ==
    /\ pc = "countdown"
    /\ \/ (reconnect_now \/ reconnect_countdown = 1) /\ Restart
       \/ /\ ~reconnect_now /\ reconnect_countdown > 1
          /\ reconnect_countdown' = reconnect_countdown - 1
          /\ UNCHANGED <<pc, checks, current, reconnect_now, connection_status, attempt, client,
                         syncs, asked, intruded>>

Loop == Start \/ Phase1 \/ Phase2 \/ Countdown

-----------------------------------------------------------------------------
(* connect_and_run, of the current attempt and of those given up. *)

Show(a, status) ==
    /\ connection_status' = status
    /\ intruded' = (intruded \/ a # current)

\* fetch_cert_hash and Client::connect: the sync starts, or the task returns.
Dialled(a) ==
    /\ attempt[a] = "dial"
    /\ \/ Enter(a, "sync") /\ Show(a, "Syncing")
       \/ Enter(a, "ended") /\ UNCHANGED <<connection_status, intruded>>
    /\ UNCHANGED <<loopVars, reconnect_now, client, syncs, asked>>

\* Mutant: the client is published after the flush only.
SyncedClientLater(a) ==
    /\ attempt[a] = "sync"
    /\ \/ Enter(a, "flush") /\ Show(a, "Connected")
       \/ Enter(a, "ended") /\ UNCHANGED <<connection_status, intruded>>
    /\ UNCHANGED <<loopVars, reconnect_now, client, syncs, asked>>

\* The first sync: set_client and Connected, or the task returns and the
\* status stays Syncing.
Synced(a) ==
    /\ attempt[a] = "sync"
    /\ \/ Enter(a, "flush") /\ client' = a /\ Show(a, "Connected")
       \/ Enter(a, "ended") /\ UNCHANGED <<client, connection_status, intruded>>
    /\ UNCHANGED <<loopVars, reconnect_now, syncs, asked>>

\* flush_offline_queue, then client.subscribe(), which may fail.
Flushed(a) ==
    /\ attempt[a] = "flush"
    /\ Enter(a, "live") \/ Enter(a, "ended")
    /\ UNCHANGED <<loopVars, reconnect_now, connection_status, client, syncs, asked, intruded>>

\* run_subscription: a notification of a root this client does not have.
Notified(a) ==
    /\ attempt[a] = "live"
    /\ Enter(a, "resync") /\ Show(a, "Syncing")
    /\ UNCHANGED <<loopVars, reconnect_now, client, syncs, asked>>

Resynced(a) ==
    /\ attempt[a] = "resync"
    /\ \/ Enter(a, "live") /\ Show(a, "Connected")
       \/ Enter(a, "ended") /\ UNCHANGED <<connection_status, intruded>>
    /\ UNCHANGED <<loopVars, reconnect_now, client, syncs, asked>>

\* The stream breaks.  CLIENT and the status are left as they are.
StreamEnds(a) ==
    /\ attempt[a] = "live"
    /\ Enter(a, "ended")
    /\ UNCHANGED <<loopVars, reconnect_now, connection_status, client, syncs, asked, intruded>>

Attempt(a) == \/ Dialled(a) \/ Synced(a) \/ Flushed(a)
              \/ Notified(a) \/ Resynced(a) \/ StreamEnds(a)

-----------------------------------------------------------------------------
(* The timer and the sync indicator; browser events. *)

\* incremental_sync of the automatic timer or of a click on the indicator.
SyncStart ==
    /\ connection_status = "Connected" /\ client # none /\ syncs < MaxSyncs
    /\ syncs' = syncs + 1 /\ connection_status' = "Syncing"
    /\ UNCHANGED <<loopVars, reconnect_now, attempt, client, asked, intruded>>

\* Its end, in success or failure.
SyncEnd ==
    /\ syncs > 0 /\ syncs' = syncs - 1
    /\ connection_status' = "Connected"
    /\ intruded' = (intruded \/ client # current)
    /\ UNCHANGED <<loopVars, reconnect_now, attempt, client, asked>>

\* visibilitychange, online, or a click while Disconnected.
RequestReconnect ==
    /\ ~reconnect_now
    /\ connection_status \in {"Disconnected", "Connecting"}
    /\ reconnect_now' = TRUE /\ asked' = TRUE
    /\ UNCHANGED <<loopVars, connection_status, attempt, client, syncs, intruded>>

Next ==
    \/ Loop
    \/ \E a \in Attempts : Attempt(a)
    \/ SyncStart \/ SyncEnd
    \/ RequestReconnect

Spec == Init /\ [][Next]_vars

\* Timers fire; a request on an established connection ends with an answer or
\* with the connection's idle timeout.  A handshake may hang for ever and a
\* stream may last for ever.
Fairness ==
    /\ WF_vars(Loop)
    /\ \A a \in Attempts : WF_vars(Synced(a) \/ Flushed(a) \/ Resynced(a))
    /\ WF_vars(SyncEnd)

FairSpec == Spec /\ Fairness

-----------------------------------------------------------------------------

GivenUp(a) == pc = "countdown" \/ current # a \/ attempt[a] # "dial"

\* The loop does not stay with a handshake that hangs, as the comment on
\* connection_loop says: the attempt advances or the loop gives it up.
HangingHandshakeGivenUp ==
    \A a \in Attempts : current = a /\ attempt[a] = "dial" ~> GivenUp(a)

\* It does not, unless a task of an earlier attempt has changed the status.
UndisturbedHandshakeGivenUp ==
    \A a \in Attempts : current = a /\ attempt[a] = "dial" ~> GivenUp(a) \/ intruded

\* However an attempt ends, and whatever other tasks have done to the status
\* meanwhile, the loop starts another one.
AlwaysReconnects == finished ~> ~finished

\* Pushes have a client to go to as soon as the current attempt is through its
\* first sync, whatever earlier attempts and other syncs do meanwhile; and before,
\* whenever the indicator says Connected, unless a task of an earlier attempt has
\* changed the status since the current one started.
ConnectedMeansClient ==
    /\ attempt[current] \in {"flush", "live", "resync"} => client # none
    /\ connection_status = "Connected" /\ ~intruded => client # none

\* No second of a countdown passes while a request to reconnect is unanswered.
RequestsAnsweredAtOnce ==
    [][~(asked /\ reconnect_countdown' > 0 /\ reconnect_countdown' < reconnect_countdown)]_vars

=============================================================================
