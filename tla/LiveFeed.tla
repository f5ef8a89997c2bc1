------------------------------- MODULE LiveFeed -------------------------------
(***************************************************************************)
(* How a browser's activity feed follows the action log: handlers push     *)
(* every change on a broadcast bus, the socket task forwards the bus to    *)
(* the client, and the client mixes what is pushed with snapshots it       *)
(* fetches whenever it is told, or decides, to start over.                 *)
(*                                                                         *)
(* A log entry is its stage: proposed, applied, undone.  A handler changes *)
(* its entries in one step and, after awaits that count the proposals      *)
(* left, sends the event in another.  The count itself is left out.        *)
(***************************************************************************)
EXTENDS Integers, Sequences, FiniteSets, SequencesExt

CONSTANTS
    Entry,       \* ids of log entries, numbers: a later entry is a larger one
    Handler,     \* requests in flight that change entries
    Capacity,    \* events the bus holds for a slow subscriber
    BatchCap,    \* BATCH_EVENT_CAP
    MaxTicks,    \* bound on snapshots fetched
    MaxBreaks    \* bound on broken sockets

Proposed == 0
Undone == 2
Unseen == 0 - 1

VARIABLES
    log,      \* action_log: the stage of each entry
    handler,  \* what each handler has changed and not yet sent: Entry -> stage
    sent,     \* every event put on the bus
    socket,   \* the server's end: [pc, next, since], since = first event subscribed to
    wire,     \* messages on the way to the client
    client,   \* [up, feed, ticks, heard]; heard is a ghost: events it accounts for
    fetches,  \* snapshots asked for: [tick, rows, upto]
    breaks

vars == <<log, handler, sent, socket, wire, client, fetches, breaks>>

NoChange == <<>>
Closed == [pc |-> "closed", next |-> 1, since |-> 1]
Asked(tick) == [tick |-> tick, rows |-> NoChange, upto |-> 0]

Init ==
    /\ log = [e \in Entry |-> Proposed]
    /\ handler = [h \in Handler |-> NoChange]
    /\ sent = <<>> /\ socket = Closed /\ wire = <<>>
    /\ client = [up |-> FALSE, feed |-> [e \in Entry |-> Unseen], ticks |-> 0, heard |-> {}]
    /\ fetches = {} /\ breaks = 0

\* One entry by its own handler, or a sweep over several.
Change(h, batch) ==
    /\ handler[h] = NoChange /\ batch # {}
    /\ \A e \in batch : log[e] < Undone
    /\ log' = [e \in Entry |-> IF e \in batch THEN log[e] + 1 ELSE log[e]]
    /\ handler' = [handler EXCEPT ![h] = [e \in batch |-> log[e] + 1]]
    /\ UNCHANGED <<sent, socket, wire, client, fetches, breaks>>

\* A batch over the cap keeps its newest entries and says so.
EventOf(changed) ==
    LET newest == {e \in DOMAIN changed :
                      Cardinality({f \in DOMAIN changed : f > e}) < BatchCap}
    IN [type |-> "event", entries |-> [e \in newest |-> changed[e]],
        truncated |-> newest # DOMAIN changed]

Emit(h) ==
    /\ handler[h] # NoChange
    /\ sent' = Append(sent, EventOf(handler[h]))
    /\ handler' = [handler EXCEPT ![h] = NoChange]
    /\ UNCHANGED <<log, socket, wire, client, fetches, breaks>>

\* The socket says hello first and subscribes after.
Open ==
    /\ socket.pc = "closed"
    /\ socket' = [socket EXCEPT !.pc = "greeted"]
    /\ wire' = <<[type |-> "connected"]>>
    /\ UNCHANGED <<log, handler, sent, client, fetches, breaks>>

Subscribe ==
    /\ socket.pc = "greeted"
    /\ socket' = [pc |-> "live", next |-> Len(sent) + 1, since |-> Len(sent) + 1]
    /\ UNCHANGED <<log, handler, sent, wire, client, fetches, breaks>>

\* Faulty variant of Outbound: a lagged subscriber just goes on.
OutboundSilent(s) ==
    IF Len(sent) - s.next >= Capacity THEN <<>>
    ELSE <<[type |-> "event", of |-> s.next]>>

\* What the bus makes of a subscriber's next read: the event, or, when it is
\* no longer held, a request to start over.
Outbound(s) ==
    IF Len(sent) - s.next >= Capacity THEN <<[type |-> "resync"]>>
    ELSE <<[type |-> "event", of |-> s.next]>>

Forward ==
    /\ socket.pc = "live" /\ socket.next <= Len(sent)
    /\ wire' = wire \o Outbound(socket)
    /\ socket' = [socket EXCEPT !.next =
                     IF Len(sent) - @ >= Capacity THEN Len(sent) - Capacity + 1 ELSE @ + 1]
    /\ UNCHANGED <<log, handler, sent, client, fetches, breaks>>

\* The client asks for a snapshot; the ones on their way are not called off.
Refetch(c) ==
    /\ c.ticks < MaxTicks
    /\ client' = [c EXCEPT !.ticks = @ + 1]
    /\ fetches' = fetches \cup {Asked(c.ticks)}

Upserted(c, i) ==
    [c EXCEPT !.feed = [e \in Entry |-> IF e \in DOMAIN sent[i].entries
                                        THEN sent[i].entries[e] ELSE @[e]],
              !.heard = @ \cup {i}]

Receive ==
    /\ wire # <<>>
    /\ wire' = Tail(wire)
    /\ LET message == Head(wire) IN
       \/ /\ message.type = "connected"
          /\ Refetch([client EXCEPT !.up = TRUE])
       \/ message.type = "resync" /\ Refetch(client)
       \/ /\ message.type = "event" /\ sent[message.of].truncated
          /\ Refetch(client)
       \/ /\ message.type = "event" /\ ~sent[message.of].truncated
          /\ client' = Upserted(client, message.of)
          /\ UNCHANGED fetches
    /\ UNCHANGED <<log, handler, sent, socket, breaks>>

\* The feed endpoint reads the log; its answer replaces the client's feed.
Answer(f) ==
    /\ f.rows = NoChange
    /\ fetches' = (fetches \ {f}) \cup {[f EXCEPT !.rows = log, !.upto = Len(sent)]}
    /\ UNCHANGED <<log, handler, sent, socket, wire, client, breaks>>

Arrive(f) ==
    /\ f.rows # NoChange
    /\ client' = [client EXCEPT !.feed = f.rows, !.heard = @ \cup 1..f.upto]
    /\ fetches' = fetches \ {f}
    /\ UNCHANGED <<log, handler, sent, socket, wire, breaks>>

\* The connection is lost with what was on the wire; the client tries again.
Break ==
    /\ socket.pc # "closed" /\ breaks < MaxBreaks
    /\ socket' = Closed /\ wire' = <<>>
    /\ client' = [client EXCEPT !.up = FALSE]
    /\ breaks' = breaks + 1
    /\ UNCHANGED <<log, handler, sent, fetches>>

Next ==
    \/ \E h \in Handler : Emit(h) \/ \E batch \in SUBSET Entry : Change(h, batch)
    \/ Open \/ Subscribe \/ Forward \/ Receive \/ Break
    \/ \E f \in fetches : Answer(f) \/ Arrive(f)

Spec == Init /\ [][Next]_vars

-----------------------------------------------------------------------------
\* Nothing is on its way to the client.
Quiet ==
    /\ client.up /\ socket.pc = "live" /\ socket.next > Len(sent)
    /\ wire = <<>> /\ fetches = {}

\* Once nothing is on its way, a connected client accounts for every event sent
\* since its subscription: it got it whole, or has fetched a snapshot read after
\* it (handlers.rs:433-447, events.rs:121-146), however far it fell behind the
\* bus and however large the batch was.
NothingSkipped == Quiet => socket.since..Len(sent) \subseteq client.heard

\* Stated of the code and refuted: once nothing is on its way, a client that
\* accounts for every event shows the log: "Replace the whole feed from a REST snapshot (pushes keep it current
\* after)" (curation.ts:53).
FeedSettles ==
    (/\ Quiet /\ \A h \in Handler : handler[h] = NoChange
     /\ 1..Len(sent) \subseteq client.heard) => client.feed = log
=============================================================================
