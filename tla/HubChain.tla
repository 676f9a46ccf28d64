------------------------------ MODULE HubChain -------------------------------
(***************************************************************************)
(* hub/server.ts: the event chain, its writers and its readers.  Every     *)
(* writer reads the last event, signs a successor (contract/proof.ts) and  *)
(* appends it; between these it awaits the log (Hub, which is external),   *)
(* so writers interleave.  Subscribers get events twice: from the writer   *)
(* and from the tail of the file.  Clients page through the file.          *)
(***************************************************************************)
EXTENDS Integers, Sequences, FiniteSets

CONSTANTS
    Boot,          \* the process itself, committing the first policy
    Quarantines,   \* POST /api/governance/quarantine requests
    Generations,   \* POST /api/generate requests
    Edits,         \* changes of runtime.yaml
    Ticks,         \* bound: heartbeats, a set 1 .. n
    RecordEvery,   \* every how many heartbeats one is recorded (10 in the code)
    StallLimit,    \* windows without dispatch before is_stalled (5)
    PageLimit,     \* events of a page
    Watched,       \* bound: the writers whose events are looked for in the stream
    Failing        \* the writers whose append may fail

ASSUME HubBounds == RecordEvery \in Nat \ {0} /\ StallLimit \in Nat /\ PageLimit \in Nat \ {0}
ASSUME HubTicks == Ticks \subseteq Nat /\ Ticks = 1 .. Cardinality(Ticks)

Writer == {Boot} \cup Quarantines \cup Generations \cup Edits \cup Ticks
ASSUME HubWriters ==
    /\ Boot \notin Quarantines \cup Generations \cup Edits \cup Ticks
    /\ Quarantines \cap Generations = {} /\ (Quarantines \cup Generations) \cap Edits = {}
    /\ (Quarantines \cup Generations \cup Edits) \cap Ticks = {}
ASSUME HubChoices == {Watched, Failing} \subseteq SUBSET Writer /\ Boot \notin Failing

VARIABLES
    log,          \* antigravity.log: [by, prev, payload]
    pc, signed,   \* each writer's place and the event it signed
    emitting,     \* ticks whose aggregation is recording a council event
    accepted, enqueued, queueLen, stall, stalled,   \* Flow Link counters
    tickCount,    \* this_tick_counter
    lastLine, received,                 \* the file tail and what an SSE listener got
    unread,       \* history: writers whose lines the tail passed with a read that failed
    overlap       \* history: two writers were between read and append

chain == <<log, pc, signed, emitting, overlap>>
flow == <<accepted, enqueued, queueLen, stall, stalled, tickCount>>
stream == <<lastLine, received, unread>>
vars == <<chain, flow, stream>>

\* A hash stands for what was hashed: the payload and the predecessor's hash.
Hash(e) == Append(e.prev, e.payload)

HashOfLast(l) == IF l = <<>> THEN <<>> ELSE Hash(l[Len(l)])

\* What is hashed of a writer's event.  Interventions on one node say the same,
\* and so do changes to one policy; a generation, a pulse or a tick's council
\* event differs from any other.
Payload(w) == IF w \in Quarantines THEN CHOOSE q \in Quarantines : TRUE ELSE
              IF w \in Edits THEN CHOOSE e \in Edits : TRUE ELSE
              IF w \in emitting THEN -w ELSE w

SignEvent(w, prev) == [by |-> w, prev |-> prev, payload |-> Payload(w)]
NoEvent == [by |-> Boot, prev |-> <<>>, payload |-> Boot]

Steps == {"idle", "generating", "aggregating", "reading", "appending", "appended", "done"}

(* Logs, counters and cursors are of the kind their readers expect.           *)
TypeOK ==
    /\ \A i \in DOMAIN log : log[i].by \in Writer
    /\ pc \in [Writer -> Steps]
    /\ emitting \subseteq Ticks
    /\ {accepted, enqueued, queueLen, stall, tickCount, lastLine} \subseteq Nat
    /\ lastLine <= Len(log)
    /\ {stalled, overlap} \subseteq BOOLEAN
    /\ received \subseteq Writer /\ unread \subseteq Watched

Init ==
    /\ log = <<>>
    /\ pc = [w \in Writer |-> IF w = Boot THEN "reading" ELSE "idle"]
    /\ signed = [w \in Writer |-> NoEvent]
    /\ emitting = {} /\ overlap = FALSE
    /\ accepted = 0 /\ enqueued = 0 /\ queueLen = 0
    /\ stall = 0 /\ stalled = FALSE /\ tickCount = 0
    /\ lastLine = 0 /\ received = {} /\ unread = {}


\* The server listens once the first policy is committed, and a subscriber comes.
Listening == pc[Boot] = "done"

Broadcast(ws) == received' = IF Listening THEN received \cup (ws \cap Watched) ELSE received

-----------------------------------------------------------------------------
(* Callers                                                                   *)


\* Mutant: the request is counted as enqueued when its generation starts.
Accept_EnqueuesLater(g) ==
    /\ Listening /\ pc[g] = "idle"
    /\ accepted' = accepted + 1
    /\ queueLen' = queueLen + 1
    /\ pc' = [pc EXCEPT ![g] = "generating"]
    /\ UNCHANGED <<log, signed, emitting, overlap, enqueued, stall, stalled,
                   tickCount, stream>>

\* /api/generate: accepted and enqueued without an await in between.
Accept(g) ==
    /\ Listening /\ pc[g] = "idle"
    /\ accepted' = accepted + 1
    /\ enqueued' = enqueued + 1
    /\ queueLen' = queueLen + 1
    /\ pc' = [pc EXCEPT ![g] = "generating"]
    /\ UNCHANGED <<log, signed, emitting, overlap, stall, stalled, tickCount,
                   stream>>

Decremented(n) == IF n > 0 THEN n - 1 ELSE 0

\* The finally block runs whether or not the provider answered; a failure ends
\* the request.
Generated(g) ==
    /\ pc[g] = "generating"
    /\ queueLen' = Decremented(queueLen)
    /\ \E next \in {"reading", "done"} : pc' = [pc EXCEPT ![g] = next]
    /\ UNCHANGED <<log, signed, emitting, overlap, accepted, enqueued, stall, stalled,
                   tickCount, stream>>

\* Governors come through the server; runtime.yaml is watched from the start.
MayIntervene(w) == w \in Edits \/ Listening

Intervene(w) ==
    /\ MayIntervene(w) /\ pc[w] = "idle"
    /\ pc' = [pc EXCEPT ![w] = "reading"]
    /\ UNCHANGED <<log, signed, emitting, overlap, flow, stream>>

-----------------------------------------------------------------------------
(* The heartbeat.  The timer does not wait for the tick before.              *)

TickStart(t) ==
    /\ pc[t] = "idle" /\ \A u \in Ticks : u < t => pc[u] # "idle"
    /\ pc' = [pc EXCEPT ![t] = "aggregating"]
    /\ UNCHANGED <<log, signed, emitting, overlap, flow, stream>>

\* The council aggregator may record what it found of a node.
CouncilEmits(t) ==
    /\ pc[t] = "aggregating" /\ t \notin emitting
    /\ emitting' = emitting \cup {t}
    /\ pc' = [pc EXCEPT ![t] = "reading"]
    /\ UNCHANGED <<log, signed, overlap, flow, stream>>

\* The window is judged, reported and reset.  The watchdog's queue reset
\* (StallLimit or more windows) has no action: WatchdogNeverFires.
WindowCloses(t) ==
    /\ pc[t] = "aggregating"
    /\ IF accepted > 0 /\ enqueued = 0
         THEN stall' = stall + 1 /\ stalled' = (stalled \/ stall' > StallLimit)
         ELSE stall' = 0 /\ stalled' = FALSE
    /\ accepted' = 0 /\ enqueued' = 0
    /\ emitting' = emitting \ {t}
    /\ pc' = [pc EXCEPT ![t] = "reading"]
    /\ UNCHANGED <<log, signed, overlap, queueLen, tickCount, stream>>

-----------------------------------------------------------------------------
(* Writing the chain                                                         *)

Between(w) == pc[w] = "appending"

\* Mutant: the head is taken to move when an event is signed.
ReadAndSign_LocalHead(w) ==
    /\ pc[w] = "reading" /\ w \notin (Ticks \ emitting)
    /\ signed' = [signed EXCEPT ![w] =
           SignEvent(w, IF \E v \in Writer : Between(v)
                        THEN Hash(signed[CHOOSE v \in Writer : Between(v)]) ELSE HashOfLast(log))]
    /\ overlap' = (overlap \/ \E v \in Writer : Between(v))
    /\ pc' = [pc EXCEPT ![w] = "appending"]
    /\ UNCHANGED <<log, emitting, flow, stream>>

\* getLastEvent, then signEvent: the chain may grow before the append.
ReadAndSign(w) ==
    /\ pc[w] = "reading" /\ w \notin (Ticks \ emitting)
    /\ signed' = [signed EXCEPT ![w] = SignEvent(w, HashOfLast(log))]
    /\ overlap' = (overlap \/ \E v \in Writer : Between(v))
    /\ pc' = [pc EXCEPT ![w] = "appending"]
    /\ UNCHANGED <<log, emitting, flow, stream>>

\* A heartbeat is broadcast at once and appended only when the counter says so.
Pulse(t) ==
    /\ pc[t] = "reading" /\ t \notin emitting
    /\ Broadcast({t})
    /\ tickCount' = tickCount + 1
    /\ IF tickCount' >= RecordEvery
         THEN /\ signed' = [signed EXCEPT ![t] = SignEvent(t, HashOfLast(log))]
              /\ pc' = [pc EXCEPT ![t] = "appending"]
              /\ overlap' = (overlap \/ \E v \in Writer : Between(v))
         ELSE /\ pc' = [pc EXCEPT ![t] = "done"]
              /\ UNCHANGED <<signed, overlap>>
    /\ UNCHANGED <<log, emitting, accepted, enqueued, queueLen, stall, stalled,
                   lastLine, unread>>

AppendEvent(w) ==
    /\ Between(w)
    /\ log' = Append(log, signed[w])
    /\ signed' = [signed EXCEPT ![w] = NoEvent]
    /\ pc' = [pc EXCEPT ![w] = "appended"]
    /\ UNCHANGED <<emitting, overlap, flow, stream>>

\* The error ends the request or the tick, whose counter stays; a boot that
\* fails ends the process and is not modelled further.
AppendFails(w) ==
    /\ w \in Failing
    /\ Between(w)
    /\ signed' = [signed EXCEPT ![w] = NoEvent]
    /\ pc' = [pc EXCEPT ![w] = "done"]
    /\ UNCHANGED <<log, emitting, overlap, flow, stream>>

\* The writer goes on after its append: interventions, generations and policy
\* changes are broadcast.
Answered(w) ==
    /\ pc[w] = "appended" /\ w \notin Ticks
    /\ IF w = Boot THEN UNCHANGED received ELSE Broadcast({w})
    /\ pc' = [pc EXCEPT ![w] = "done"]
    /\ UNCHANGED <<log, signed, emitting, overlap, flow, lastLine, unread>>

\* After its council event a tick closes its window; after its heartbeat it resets
\* the counter, which other ticks may have moved.
TickAppended(t) ==
    /\ pc[t] = "appended"
    /\ IF t \in emitting
         THEN pc' = [pc EXCEPT ![t] = "aggregating"] /\ UNCHANGED tickCount
         ELSE pc' = [pc EXCEPT ![t] = "done"] /\ tickCount' = 0
    /\ UNCHANGED <<log, signed, emitting, overlap, accepted, enqueued, queueLen,
                   stall, stalled, stream>>

-----------------------------------------------------------------------------
(* Readers                                                                   *)

WritersOf(l) == {l[i].by : i \in DOMAIN l}

\* The file as readAllLogs returns it: one that cannot be read, or parsed, is empty.
ReadAllLogs == {log, <<>>}

\* Mutant: the first new line is taken for one that was seen.
TailFile_SkipsOne ==
    /\ Len(log) > lastLine
    /\ Broadcast(WritersOf(SubSeq(log, lastLine + 2, Len(log))))
    /\ lastLine' = Len(log)
    /\ UNCHANGED <<chain, flow, unread>>

\* watchFile: the lines since the last look are broadcast.  getNewLines answers a read
\* that fails with no lines, and the tail goes on behind them all the same.
TailFile ==
    /\ Len(log) > lastLine
    /\ LET new == WritersOf(SubSeq(log, lastLine + 1, Len(log))) IN
       \/ Broadcast(new) /\ UNCHANGED unread
       \/ unread' = unread \cup (new \cap Watched) /\ UNCHANGED received
    /\ lastLine' = Len(log)
    /\ UNCHANGED <<chain, flow>>

\* The line of the file a page starts after: the first with the cursor's hash, or none.
CursorIndex(since, events) ==
    LET found == {i \in DOMAIN events : since # <<>> /\ Hash(events[i]) = since}
    IN  IF found = {} THEN 0 ELSE CHOOSE i \in found : \A j \in found : i <= j

EventsByCursor(since, events) ==
    LET at == CursorIndex(since, events)
        end == IF at + PageLimit < Len(events) THEN at + PageLimit ELSE Len(events)
    IN  [items |-> SubSeq(events, at + 1, end),
         next  |-> IF end < Len(events) THEN Hash(events[end]) ELSE <<>>]

-----------------------------------------------------------------------------
Writes(w) == ReadAndSign(w) \/ AppendEvent(w) \/ AppendFails(w) \/ Answered(w)
Tick(t) == TickStart(t) \/ CouncilEmits(t) \/ WindowCloses(t) \/ Pulse(t) \/ TickAppended(t)

Next ==
    \/ \E g \in Generations : Accept(g) \/ Generated(g)
    \/ \E w \in Quarantines \cup Edits : Intervene(w)
    \/ \E t \in Ticks : Tick(t)
    \/ \E w \in Writer : Writes(w)
    \/ TailFile

Spec == Init /\ [][Next]_vars

-----------------------------------------------------------------------------
\* verifyChain: every event names the hash of the line before it.
VerifyChain == \A i \in DOMAIN log : log[i].prev = IF i = 1 THEN <<>> ELSE Hash(log[i - 1])

\* Two lines with one hash: equal payloads signed on the same predecessor.
Twins == \E i, j \in DOMAIN log : i < j /\ Hash(log[i]) = Hash(log[j])

\* Writers that never overlap build a chain that verifies, whoever fails.
SerialChainVerifies == ~overlap => VerifyChain

\* Whatever overlaps, no event hangs in the air: its predecessor is a line above it.
PredecessorRecorded ==
    \A i \in DOMAIN log :
        log[i].prev = <<>> \/ \E j \in 1 .. i - 1 : Hash(log[j]) = log[i].prev

\* The log is a chain: it verifies as long as no two writers overlapped, whoever fails;
\* however they overlap, what an event names as its predecessor is a line above it.
LogIsChained == SerialChainVerifies /\ PredecessorRecorded

\* The stall watchdog has nothing to see: a request is accepted and enqueued in
\* one window, so a hanging provider never counts as a stall.
WatchdogNeverFires == stall = 0 /\ ~stalled

\* A client that has read n lines and holds the cursor of the last is never sent back
\* nor past a line, as long as no two lines have the same hash: a page holds the lines
\* that follow, and a new cursor is that of its last line.  A page of a file that could
\* be read is not empty before the end and gives a cursor until then.
CursorResumes ==
    ~Twins => \A n \in DOMAIN log : \A events \in ReadAllLogs :
        LET page == EventsByCursor(Hash(log[n]), events)
            last == n + Len(page.items)
        IN  /\ last <= Len(log)
            /\ page.items = SubSeq(log, n + 1, last)
            /\ page.next # <<>> => last < Len(log) /\ page.next = Hash(log[last])
            /\ events = log /\ n < Len(log) => last > n
            /\ events = log /\ last < Len(log) => page.next # <<>>

\* What a request recorded reaches the stream twice, from the tail and from the request
\* itself.  It is missing there only until the request answers, and until then only if
\* the tail has not come to the line or could not read it.
TailMissesNothing ==
    \A i \in DOMAIN log :
        log[i].by \in Watched \cap (Quarantines \cup Generations) =>
            \/ log[i].by \in received
            \/ pc[log[i].by] = "appended" /\ (i > lastLine \/ log[i].by \in unread)

\* No reader of the log misses what a request recorded, although reads fail: neither a
\* subscriber of the stream, nor a client that pages by cursors.
ReadersMissNothing == TailMissesNothing /\ CursorResumes

=============================================================================
