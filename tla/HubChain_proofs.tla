--------------------------- MODULE HubChain_proofs ---------------------------
(***************************************************************************)
(* Theorems about HubChain, for every set of writers and ticks, and every  *)
(* way in which they interleave.                                           *)
(***************************************************************************)
EXTENDS HubChain, SequenceTheorems, TLAPS

-----------------------------------------------------------------------------
(* Types                                                                     *)

Payloads == Writer \cup Int
Event == [by : Writer, prev : Seq(Payloads), payload : Payloads]

ChainTypes ==
    /\ log \in Seq(Event)
    /\ pc \in [Writer -> Steps]
    /\ signed \in [Writer -> Event]
    /\ emitting \subseteq Ticks
    /\ overlap \in BOOLEAN

LEMMA HashOfEvent ==
  ASSUME NEW e \in Event
  PROVE  Hash(e) \in Seq(Payloads) /\ Hash(e) # <<>>
<1>1. e.prev \in Seq(Payloads) /\ e.payload \in Payloads
  BY DEF Event
<1> QED BY <1>1, AppendProperties DEF Hash

LEMMA EventAt ==
  ASSUME ChainTypes, NEW i \in DOMAIN log
  PROVE  log[i] \in Event
BY ElementOfSeq, LenProperties DEF ChainTypes

LEMMA HeadHash ==
  ASSUME ChainTypes
  PROVE  /\ HashOfLast(log) \in Seq(Payloads)
         /\ log = <<>> => HashOfLast(log) = <<>>
         /\ log # <<>> => Len(log) \in DOMAIN log /\ HashOfLast(log) = Hash(log[Len(log)])
<1>1. CASE log = <<>>
  BY <1>1, EmptySeq DEF HashOfLast
<1>2. CASE log # <<>>
  <2>1. Len(log) \in Nat \ {0} /\ DOMAIN log = 1 .. Len(log)
    BY <1>2, EmptySeq, LenProperties DEF ChainTypes
  <2>2. Len(log) \in DOMAIN log
    BY <2>1
  <2> QED BY <1>2, <2>2, EventAt, HashOfEvent DEF HashOfLast
<1> QED BY <1>1, <1>2

LEMMA SignedEvent ==
  ASSUME ChainTypes, NEW w \in Writer
  PROVE  LET e == SignEvent(w, HashOfLast(log))
         IN  e \in Event /\ e.by = w /\ e.prev = HashOfLast(log)
<1>1. Payload(w) \in Payloads
  <2>1. ASSUME NEW t \in emitting
        PROVE  -t \in Int
    BY HubTicks DEF ChainTypes
  <2> QED BY <2>1 DEF Payload, Payloads, Writer
<1> QED BY <1>1, HeadHash DEF SignEvent, Event

-----------------------------------------------------------------------------
(* The chain                                                                 *)

Recorded(prev) == prev = <<>> \/ \E j \in DOMAIN log : Hash(log[j]) = prev

\* What is signed and not yet appended is its writer's and follows some line.
SignedOnLine ==
    \A w \in Writer : Between(w) => signed[w].by = w /\ Recorded(signed[w].prev)

\* Without an overlap one writer at most is between, and it signed on the head.
SignedOnHead ==
    ~overlap => \A w \in Writer : Between(w) =>
        /\ signed[w].prev = HashOfLast(log)
        /\ \A v \in Writer : Between(v) => v = w

\* Quarantines and generations begin, and so have lines, when the server listens.
ServedOnly ==
    ~Listening => /\ \A w \in Quarantines \cup Generations : pc[w] = "idle"
                  /\ \A i \in DOMAIN log : log[i].by \notin Quarantines \cup Generations

ChainInv ==
    /\ ChainTypes
    /\ SignedOnLine /\ SignedOnHead /\ ServedOnly
    /\ PredecessorRecorded /\ SerialChainVerifies

LEMMA ChainInitially == Init => ChainInv
<1> SUFFICES ASSUME Init PROVE ChainInv
  OBVIOUS
<1>1. log = <<>> /\ <<>> \in Seq(Event) /\ DOMAIN log = {}
  BY EmptySeq DEF Init
<1>2. Boot \in Writer /\ NoEvent \in Event
  BY EmptySeq DEF NoEvent, Event, Writer, Payloads
<1>3. ChainTypes
  BY <1>1, <1>2 DEF Init, ChainTypes, Steps
<1>4. \A w \in Writer : ~Between(w)
  BY DEF Init, Between
<1>5. \A w \in Quarantines \cup Generations : w \in Writer /\ w # Boot
  BY HubWriters DEF Writer
<1> QED BY <1>1, <1>3, <1>4, <1>5
        DEF Init, ChainInv, SignedOnLine, SignedOnHead, ServedOnly, PredecessorRecorded,
            SerialChainVerifies, VerifyChain

\* A writer moves on without signing or appending.
LEMMA MovesOn ==
  ASSUME ChainInv, NEW w \in Writer, NEW s \in Steps \ {"idle", "appending"},
         pc[w] \notin {"appending", "done"}, pc' = [pc EXCEPT ![w] = s],
         pc[w] = "idle" /\ w \in Quarantines \cup Generations => Listening,
         UNCHANGED <<log, signed, overlap>>, emitting' \subseteq Ticks
  PROVE  ChainInv'
<1> USE DEF ChainInv
<1>1. ChainTypes'
  BY DEF ChainTypes
<1>2. \A v \in Writer : Between(v)' <=> Between(v)
  BY DEF Between, ChainTypes
<1>3. Listening => Listening'
  BY DEF Listening, ChainTypes, Writer
<1>4. SignedOnLine'
  BY <1>2 DEF SignedOnLine, Recorded
<1>5. SignedOnHead'
  BY <1>2 DEF SignedOnHead, HashOfLast
<1>6. ServedOnly'
  BY <1>3 DEF ServedOnly, ChainTypes, Writer
<1>7. PredecessorRecorded' /\ SerialChainVerifies'
  BY DEF PredecessorRecorded, SerialChainVerifies, VerifyChain
<1> QED BY <1>1, <1>4, <1>5, <1>6, <1>7

\* A writer signs a successor of the last line.
LEMMA Signs ==
  ASSUME ChainInv, NEW w \in Writer, pc[w] = "reading",
         signed' = [signed EXCEPT ![w] = SignEvent(w, HashOfLast(log))],
         overlap' = (overlap \/ \E v \in Writer : Between(v)),
         pc' = [pc EXCEPT ![w] = "appending"],
         UNCHANGED <<log, emitting>>
  PROVE  ChainInv'
<1> USE DEF ChainInv
<1>1. ChainTypes'
  BY SignedEvent DEF ChainTypes, Steps
<1>2. /\ signed'[w].by = w /\ signed'[w].prev = HashOfLast(log)
      /\ \A v \in Writer \ {w} : signed'[v] = signed[v] /\ (Between(v)' <=> Between(v))
  BY SignedEvent DEF ChainTypes, Between
<1>3. Recorded(HashOfLast(log))
  BY HeadHash DEF Recorded
<1>4. \A x : Recorded(x)' <=> Recorded(x)
  BY DEF Recorded
<1>5. SignedOnLine'
  BY <1>2, <1>3, <1>4 DEF SignedOnLine
<1>6. SignedOnHead'
  BY <1>2 DEF SignedOnHead
<1>7. ServedOnly'
  BY DEF ServedOnly, Listening, ChainTypes, Writer
<1>8. PredecessorRecorded' /\ SerialChainVerifies'
  BY DEF PredecessorRecorded, SerialChainVerifies, VerifyChain
<1> QED BY <1>1, <1>5, <1>6, <1>7, <1>8

LEMMA AppendKeepsChain ==
  ASSUME ChainInv, NEW w \in Writer, AppendEvent(w)
  PROVE  ChainInv'
<1> USE DEF ChainInv
<1> DEFINE e == signed[w]
<1>1. /\ Between(w) /\ log' = Append(log, e) /\ UNCHANGED <<emitting, overlap>>
      /\ signed' = [signed EXCEPT ![w] = NoEvent] /\ pc' = [pc EXCEPT ![w] = "appended"]
  BY DEF AppendEvent
<1>2. /\ log' \in Seq(Event) /\ Len(log) \in Nat /\ Len(log') = Len(log) + 1
      /\ DOMAIN log = 1 .. Len(log) /\ DOMAIN log' = 1 .. Len(log) + 1
      /\ \A i \in 1 .. Len(log) : log'[i] = log[i]
      /\ log'[Len(log) + 1] = e
  <2>1. e \in Event /\ log \in Seq(Event)
    BY DEF ChainTypes
  <2>2. log' \in Seq(Event)
    BY <1>1, <2>1, AppendProperties
  <2>3. /\ Len(log) \in Nat /\ Len(log') = Len(log) + 1
        /\ DOMAIN log = 1 .. Len(log) /\ DOMAIN log' = 1 .. Len(log')
    BY <1>1, <2>1, <2>2, AppendProperties, LenProperties
  <2> QED BY <1>1, <2>1, <2>2, <2>3, AppendProperties
<1>3. ChainTypes'
  <2>1. NoEvent \in Event
    BY EmptySeq DEF NoEvent, Event, Writer, Payloads
  <2> QED BY <1>1, <1>2, <2>1 DEF ChainTypes, Steps
<1>4. \A x : Recorded(x) => Recorded(x)'
  BY <1>2 DEF Recorded
<1>5. \A v \in Writer : Between(v)' => v # w /\ Between(v) /\ signed'[v] = signed[v]
  BY <1>1 DEF Between, ChainTypes
<1>6. SignedOnLine'
  BY <1>4, <1>5 DEF SignedOnLine
<1>7. SignedOnHead'
  BY <1>1, <1>5 DEF SignedOnHead
<1>8. ServedOnly'
  <2>1. pc[Boot] # "done" => Boot = w \/ ~Listening'
    BY <1>1 DEF Listening, ChainTypes, Writer
  <2>2. Listening => Listening'
    BY <1>1 DEF Listening, Between, ChainTypes, Writer
  <2>3. ~Listening => w \notin Quarantines \cup Generations /\ e.by = w
    BY <1>1 DEF ServedOnly, Between, SignedOnLine
  <2>4. \A i \in DOMAIN log' : (i \in DOMAIN log /\ log'[i] = log[i]) \/ log'[i] = e
    BY <1>2
  <2> QED BY <1>1, <2>2, <2>3, <2>4 DEF ServedOnly, ChainTypes, Writer
<1>9. PredecessorRecorded'
  <2> SUFFICES ASSUME NEW i \in DOMAIN log'
               PROVE  log'[i].prev = <<>> \/ \E j \in 1 .. i - 1 : Hash(log'[j]) = log'[i].prev
    BY DEF PredecessorRecorded
  <2>1. CASE i \in DOMAIN log
    BY <1>2, <2>1 DEF PredecessorRecorded
  <2>2. CASE i = Len(log) + 1
    <3>1. Recorded(log'[i].prev)
      BY <1>1, <1>2, <2>2 DEF SignedOnLine
    <3> QED BY <1>2, <2>2, <3>1 DEF Recorded
  <2> QED BY <1>2, <2>1, <2>2
<1>10. SerialChainVerifies'
  <2> SUFFICES ASSUME ~overlap, NEW i \in DOMAIN log'
               PROVE  log'[i].prev = IF i = 1 THEN <<>> ELSE Hash(log'[i - 1])
    BY <1>1 DEF SerialChainVerifies, VerifyChain
  <2>1. CASE i \in DOMAIN log
    <3>1. i # 1 => i - 1 \in 1 .. Len(log)
      BY <1>2, <2>1
    <3> QED BY <1>2, <2>1, <3>1 DEF SerialChainVerifies, VerifyChain
  <2>2. CASE i = Len(log) + 1
    <3>1. log'[i].prev = HashOfLast(log)
      BY <1>1, <1>2, <2>2 DEF SignedOnHead
    <3>2. i = 1 => log = <<>>
      BY <1>2, <2>2, EmptySeq DEF ChainTypes
    <3>3. i # 1 => log # <<>> /\ Len(log) \in 1 .. Len(log)
      BY <1>2, <2>2, EmptySeq
    <3> QED BY <1>2, <2>2, <3>1, <3>2, <3>3, HeadHash
  <2> QED BY <1>2, <2>1, <2>2
<1> QED BY <1>3, <1>6, <1>7, <1>8, <1>9, <1>10

LEMMA FailureKeepsChain ==
  ASSUME ChainInv, NEW w \in Writer, AppendFails(w)
  PROVE  ChainInv'
<1> USE DEF ChainInv
<1>1. /\ Between(w) /\ UNCHANGED <<log, emitting, overlap>> /\ w # Boot
      /\ signed' = [signed EXCEPT ![w] = NoEvent] /\ pc' = [pc EXCEPT ![w] = "done"]
  BY HubChoices DEF AppendFails
<1>2. ChainTypes'
  <2>1. NoEvent \in Event
    BY EmptySeq DEF NoEvent, Event, Writer, Payloads
  <2> QED BY <1>1, <2>1 DEF ChainTypes, Steps
<1>3. \A v \in Writer : Between(v)' => v # w /\ Between(v) /\ signed'[v] = signed[v]
  BY <1>1 DEF Between, ChainTypes
<1>4. SignedOnLine' /\ SignedOnHead'
  BY <1>1, <1>3 DEF SignedOnLine, SignedOnHead, Recorded, HashOfLast
<1>5. ServedOnly'
  BY <1>1 DEF ServedOnly, Listening, Between, ChainTypes, Writer
<1>6. PredecessorRecorded' /\ SerialChainVerifies'
  BY <1>1 DEF PredecessorRecorded, SerialChainVerifies, VerifyChain
<1> QED BY <1>2, <1>4, <1>5, <1>6

LEMMA StepKeepsChain == ChainInv /\ [Next]_vars => ChainInv'
<1> SUFFICES ASSUME ChainInv, [Next]_vars PROVE ChainInv'
  OBVIOUS
<1> USE DEF flow, stream
<1>1. ASSUME NEW g \in Generations, Accept(g) \/ Generated(g)
      PROVE  ChainInv'
  <2>1. g \in Writer /\ emitting \subseteq Ticks
    BY DEF Writer, ChainInv, ChainTypes
  <2>2. CASE Accept(g)
    <3>1. /\ pc[g] = "idle" /\ Listening /\ pc' = [pc EXCEPT ![g] = "generating"]
          /\ UNCHANGED <<log, signed, overlap>> /\ emitting' \subseteq Ticks
      BY <2>1, <2>2 DEF Accept
    <3>2. "generating" \in Steps \ {"idle", "appending"}
      BY DEF Steps
    <3> QED BY <2>1, <3>1, <3>2, MovesOn
  <2>3. CASE Generated(g)
    <3>1. PICK next \in {"reading", "done"} : pc' = [pc EXCEPT ![g] = next]
      BY <2>3 DEF Generated
    <3>2. /\ pc[g] = "generating" /\ UNCHANGED <<log, signed, overlap>>
          /\ emitting' \subseteq Ticks
      BY <2>1, <2>3 DEF Generated
    <3>3. next \in Steps \ {"idle", "appending"}
      BY DEF Steps
    <3> QED BY <2>1, <3>1, <3>2, <3>3, MovesOn
  <2> QED BY <1>1, <2>2, <2>3
<1>2. ASSUME NEW w \in Quarantines \cup Edits, Intervene(w)
      PROVE  ChainInv'
  <2>1. w \in Writer /\ emitting \subseteq Ticks /\ (w \in Edits => w \notin Quarantines \cup Generations)
    BY HubWriters DEF Writer, ChainInv, ChainTypes
  <2> QED BY <1>2, <2>1, MovesOn DEF Intervene, MayIntervene, Steps
<1>3. ASSUME NEW t \in Ticks, Tick(t)
      PROVE  ChainInv'
  <2>1. t \in Writer /\ t \notin Quarantines \cup Generations /\ emitting \subseteq Ticks
    BY HubWriters DEF Writer, ChainInv, ChainTypes
  <2>2. CASE TickStart(t)
    BY <2>1, <2>2, MovesOn DEF TickStart, Steps
  <2>3. CASE CouncilEmits(t)
    BY <2>1, <2>3, MovesOn DEF CouncilEmits, Steps
  <2>4. CASE WindowCloses(t)
    BY <2>1, <2>4, MovesOn DEF WindowCloses, Steps
  <2>5. CASE Pulse(t)
    <3>1. CASE tickCount' >= RecordEvery
      BY <2>1, <2>5, <3>1, Signs DEF Pulse
    <3>2. CASE ~(tickCount' >= RecordEvery)
      BY <2>1, <2>5, <3>2, MovesOn DEF Pulse, Steps
    <3> QED BY <3>1, <3>2
  <2>6. CASE TickAppended(t)
    BY <2>1, <2>6, MovesOn DEF TickAppended, Steps
  <2> QED BY <1>3, <2>2, <2>3, <2>4, <2>5, <2>6 DEF Tick
<1>4. ASSUME NEW w \in Writer, Writes(w)
      PROVE  ChainInv'
  <2>1. emitting \subseteq Ticks
    BY DEF ChainInv, ChainTypes
  <2>2. CASE ReadAndSign(w)
    BY <2>2, Signs DEF ReadAndSign
  <2>3. CASE Answered(w)
    BY <2>1, <2>3, MovesOn DEF Answered, Steps
  <2> QED BY <1>4, <2>2, <2>3, AppendKeepsChain, FailureKeepsChain DEF Writes
<1>5. CASE UNCHANGED chain
  BY <1>5
     DEF chain, ChainInv, ChainTypes, SignedOnLine, SignedOnHead, ServedOnly, Recorded,
         Listening, Between, PredecessorRecorded, SerialChainVerifies, VerifyChain
<1> QED BY <1>1, <1>2, <1>3, <1>4, <1>5 DEF Next, TailFile, vars

LEMMA ChainHolds == Spec => []ChainInv
BY ChainInitially, StepKeepsChain, PTL DEF Spec

\* As long as no two writers are between reading the last event and appending, the chain
\* verifies, whichever appends fail (server.ts 197-560; contract/proof.ts).
THEOREM SerialWritersChain == Spec => []SerialChainVerifies
BY ChainHolds, PTL DEF ChainInv

\* However writers overlap, what an event names as its predecessor is a line above it.
THEOREM PredecessorsAreLines == Spec => []PredecessorRecorded
BY ChainHolds, PTL DEF ChainInv

\* Both together: the log is a chain, for any set of writers (server.ts 197-560).
THEOREM LogStaysChained == Spec => []LogIsChained
BY SerialWritersChain, PredecessorsAreLines, PTL DEF LogIsChained

-----------------------------------------------------------------------------
(* The watchdog                                                              *)

\* The two counters of a window move together.
FlowInv == accepted \in Nat /\ enqueued = accepted /\ WatchdogNeverFires

LEMMA StepKeepsFlow == FlowInv /\ [Next]_vars => FlowInv'
<1> SUFFICES ASSUME FlowInv, [Next]_vars PROVE FlowInv'
  OBVIOUS
<1> USE DEF FlowInv, WatchdogNeverFires, flow
<1>1. ASSUME NEW g \in Generations, Accept(g) \/ Generated(g)
      PROVE  FlowInv'
  BY <1>1 DEF Accept, Generated
<1>2. ASSUME NEW w, Intervene(w) \/ Writes(w)
      PROVE  FlowInv'
  BY <1>2 DEF Intervene, Writes, ReadAndSign, AppendEvent, AppendFails, Answered
<1>3. ASSUME NEW t \in Ticks, Tick(t)
      PROVE  FlowInv'
  <2>1. CASE WindowCloses(t)
    BY <2>1 DEF WindowCloses
  <2>2. CASE TickStart(t) \/ CouncilEmits(t) \/ Pulse(t) \/ TickAppended(t)
    BY <2>2 DEF TickStart, CouncilEmits, Pulse, TickAppended
  <2> QED BY <1>3, <2>1, <2>2 DEF Tick
<1>4. CASE TailFile \/ UNCHANGED vars
  BY <1>4 DEF TailFile, vars
<1> QED BY <1>1, <1>2, <1>3, <1>4 DEF Next

\* The stall watchdog sees nothing: a window that accepts a request enqueues it, since
\* /api/generate counts both without an await in between.
THEOREM WatchdogIsBlind == Spec => []WatchdogNeverFires
<1>1. Init => FlowInv
  BY DEF Init, FlowInv, WatchdogNeverFires
<1>2. FlowInv => WatchdogNeverFires
  BY DEF FlowInv
<1> QED BY <1>1, <1>2, StepKeepsFlow, PTL DEF Spec

-----------------------------------------------------------------------------
(* Readers                                                                   *)

\* A request's event is in the stream, or the request has not answered yet and the tail
\* has still to come to its line or failed to read it; a request with a line has appended.
StreamInv ==
    /\ lastLine \in Nat /\ lastLine <= Len(log)
    /\ TailMissesNothing
    /\ \A i \in DOMAIN log :
          log[i].by \in Quarantines \cup Generations => pc[log[i].by] \in {"appended", "done"}

\* A step of a writer that has no line yet, or that is not a request.
LEMMA StreamStays ==
  ASSUME StreamInv, ChainInv, NEW w, UNCHANGED <<log, lastLine, unread>>, received \subseteq received',
         \A v \in Writer \ {w} : pc'[v] = pc[v],
         w \in Quarantines \cup Generations => pc[w] \notin {"appended", "done"}
  PROVE  StreamInv'
<1>1. ASSUME NEW i \in DOMAIN log, log[i].by \in Quarantines \cup Generations
      PROVE  pc'[log[i].by] = pc[log[i].by]
  BY <1>1 DEF StreamInv, Writer
<1> QED BY <1>1 DEF StreamInv, TailMissesNothing

LEMMA AppendKeepsStream ==
  ASSUME StreamInv, ChainInv, NEW w \in Writer, AppendEvent(w)
  PROVE  StreamInv'
<1>1. /\ log' = Append(log, signed[w]) /\ pc[w] = "appending" /\ pc'[w] = "appended"
      /\ UNCHANGED <<lastLine, unread, received>> /\ \A v \in Writer \ {w} : pc'[v] = pc[v]
  BY DEF AppendEvent, Between, stream, ChainInv, ChainTypes
<1>2. signed[w].by = w
  BY <1>1 DEF ChainInv, SignedOnLine, Between
<1>3. /\ Len(log) \in Nat /\ Len(log') = Len(log) + 1 /\ log'[Len(log) + 1] = signed[w]
      /\ DOMAIN log = 1 .. Len(log) /\ DOMAIN log' = 1 .. Len(log) + 1
      /\ \A i \in DOMAIN log : log'[i] = log[i]
  <2>1. log \in Seq(Event) /\ signed[w] \in Event
    BY DEF ChainInv, ChainTypes
  <2>2. log' \in Seq(Event) /\ Len(log) \in Nat /\ Len(log') = Len(log) + 1
    BY <1>1, <2>1, AppendProperties, LenProperties
  <2> QED BY <1>1, <2>1, <2>2, AppendProperties, LenProperties
<1>4. ASSUME NEW i \in DOMAIN log, log[i].by \in Quarantines \cup Generations
      PROVE  pc'[log[i].by] = pc[log[i].by]
  BY <1>1, <1>4 DEF StreamInv, Writer
<1>5. lastLine \in Nat /\ lastLine <= Len(log)
  BY DEF StreamInv
<1>6. ASSUME NEW i \in DOMAIN log', log'[i].by \in Quarantines \cup Generations
      PROVE  /\ pc'[log'[i].by] \in {"appended", "done"}
             /\ log'[i].by \in Watched =>
                  \/ log'[i].by \in received'
                  \/ pc'[log'[i].by] = "appended" /\ (i > lastLine \/ log'[i].by \in unread)
  <2>1. CASE i \in DOMAIN log
    BY <1>1, <1>3, <1>4, <1>6, <2>1 DEF StreamInv, TailMissesNothing
  <2>2. CASE i = Len(log) + 1
    BY <1>1, <1>2, <1>3, <1>5, <2>2
  <2> QED BY <1>3, <2>1, <2>2
<1>7. lastLine' \in Nat /\ lastLine' <= Len(log')
  BY <1>1, <1>3, <1>5
<1> QED BY <1>1, <1>6, <1>7 DEF StreamInv, TailMissesNothing

\* A request that answers broadcasts its event itself.
LEMMA AnswerKeepsStream ==
  ASSUME StreamInv, ChainInv, NEW w \in Writer, Answered(w)
  PROVE  StreamInv'
<1>1. /\ pc[w] = "appended" /\ pc'[w] = "done" /\ UNCHANGED <<log, lastLine, unread>>
      /\ \A v \in Writer \ {w} : pc'[v] = pc[v]
  BY DEF Answered, ChainInv, ChainTypes
<1>2. w = Boot => w \notin Quarantines \cup Generations
  BY HubWriters
<1>3. received \subseteq received'
  BY DEF Answered, Broadcast
<1>4. w \in Watched \cap (Quarantines \cup Generations) => w \in received'
  <2>1. w \in Quarantines \cup Generations => Listening
    BY <1>1 DEF ChainInv, ServedOnly
  <2> QED BY <1>2, <2>1 DEF Answered, Broadcast
<1>5. \A i \in DOMAIN log : log[i].by \in Quarantines \cup Generations => log[i].by \in Writer
  BY DEF Writer
<1> QED BY <1>1, <1>3, <1>4, <1>5 DEF StreamInv, TailMissesNothing

LEMMA TailKeepsStream ==
  ASSUME StreamInv, ChainInv, TailFile
  PROVE  StreamInv'
<1> DEFINE new == WritersOf(SubSeq(log, lastLine + 1, Len(log)))
<1>1. /\ log' = log /\ pc' = pc /\ lastLine' = Len(log) /\ Len(log) > lastLine /\ Len(log) \in Nat
      /\ lastLine \in Nat /\ DOMAIN log = 1 .. Len(log)
      /\ unread \subseteq unread' /\ received \subseteq received'
      /\ Broadcast(new) \/ unread' = unread \cup (new \cap Watched)
  BY LenProperties DEF TailFile, Broadcast, chain, StreamInv, ChainInv, ChainTypes
<1>2. ASSUME NEW i \in lastLine + 1 .. Len(log)
      PROVE  log[i].by \in new
  <2> DEFINE tail == SubSeq(log, lastLine + 1, Len(log))
  <2>1. \A j \in lastLine + 1 .. Len(log) : log[j] \in Event
    BY <1>1, EventAt DEF ChainInv
  <2>2. /\ tail \in Seq(Event) /\ Len(tail) = Len(log) - lastLine
        /\ \A j \in 1 .. Len(log) - lastLine : tail[j] = log[lastLine + j]
    BY <1>1, <2>1, SubSeqProperties
  <2>3. i - lastLine \in DOMAIN tail /\ tail[i - lastLine] = log[i]
    <3>1. DOMAIN tail = 1 .. Len(log) - lastLine
      BY <2>2, LenProperties
    <3> QED BY <1>1, <2>2, <3>1
  <2> QED BY <2>3 DEF WritersOf
<1>3. ASSUME NEW i \in DOMAIN log, log[i].by \in Watched \cap (Quarantines \cup Generations)
      PROVE  \/ log[i].by \in received'
             \/ pc[log[i].by] = "appended" /\ log[i].by \in unread'
  <2>1. Listening
    BY <1>1, <1>3 DEF ChainInv, ServedOnly
  <2>2. i > lastLine => log[i].by \in received' \cup unread'
    BY <1>1, <1>2, <1>3, <2>1 DEF Broadcast
  <2>3. pc[log[i].by] # "appended" => log[i].by \in received
    BY <1>3 DEF StreamInv, TailMissesNothing
  <2>4. i <= lastLine => log[i].by \in received \cup unread
    BY <1>1, <1>3 DEF StreamInv, TailMissesNothing
  <2> QED BY <1>1, <2>2, <2>3, <2>4
<1> QED BY <1>1, <1>3 DEF StreamInv, TailMissesNothing

LEMMA StepKeepsStream == StreamInv /\ ChainInv /\ [Next]_vars => StreamInv'
<1> SUFFICES ASSUME StreamInv, ChainInv, [Next]_vars PROVE StreamInv'
  OBVIOUS
<1> USE DEF stream, flow
<1>1. CASE TailFile
  BY <1>1, TailKeepsStream
<1>2. ASSUME NEW g \in Writer, Accept(g) \/ Generated(g) \/ Intervene(g)
      PROVE  StreamInv'
  <2>1. /\ UNCHANGED <<log, lastLine, unread, received>> /\ pc[g] \in {"idle", "generating"}
        /\ \A v \in Writer \ {g} : pc'[v] = pc[v]
    BY <1>2 DEF Accept, Generated, Intervene, ChainInv, ChainTypes
  <2> QED BY <2>1, StreamStays
<1>3. ASSUME NEW t \in Ticks, Tick(t)
      PROVE  StreamInv'
  <2>1. t \in Writer /\ t \notin Quarantines \cup Generations
    BY HubWriters DEF Writer
  <2>2. /\ UNCHANGED <<log, lastLine, unread>> /\ received \subseteq received'
        /\ \A v \in Writer \ {t} : pc'[v] = pc[v]
    BY <1>3, <2>1 DEF Tick, TickStart, CouncilEmits, WindowCloses, Pulse, Broadcast, TickAppended,
                      ChainInv, ChainTypes
  <2> QED BY <2>1, <2>2, StreamStays
<1>4. ASSUME NEW w \in Writer, Writes(w)
      PROVE  StreamInv'
  <2>1. CASE ReadAndSign(w) \/ AppendFails(w)
    <3>1. /\ UNCHANGED <<log, lastLine, unread, received>> /\ pc[w] \in {"reading", "appending"}
          /\ \A v \in Writer \ {w} : pc'[v] = pc[v]
      BY <2>1 DEF ReadAndSign, AppendFails, Between, ChainInv, ChainTypes
    <3> QED BY <3>1, StreamStays
  <2> QED BY <1>4, <2>1, AppendKeepsStream, AnswerKeepsStream DEF Writes
<1>5. CASE UNCHANGED vars
  BY <1>5 DEF vars, chain, StreamInv, TailMissesNothing
<1>6. Generations \cup Quarantines \cup Edits \subseteq Writer
  BY DEF Writer
<1> QED BY <1>1, <1>2, <1>3, <1>4, <1>5, <1>6 DEF Next

\* What a request recorded is in the stream once the request has answered, whatever the
\* tail could not read, and before that as soon as the tail has read its line
\* (server.ts 412-449 and the routes' own broadcasts).
THEOREM TailStreamsAll == Spec => []TailMissesNothing
<1>1. Init => StreamInv
  BY EmptySeq DEF Init, StreamInv, TailMissesNothing
<1>2. StreamInv => TailMissesNothing
  BY DEF StreamInv
<1> QED BY <1>1, <1>2, StepKeepsStream, ChainHolds, PTL DEF Spec

\* Without two lines of one hash a hash leads to its line, if the file could be read.
LEMMA CursorFindsLine ==
  ASSUME ChainInv, ~Twins, NEW n \in DOMAIN log
  PROVE  /\ CursorIndex(Hash(log[n]), log) = n
         /\ CursorIndex(Hash(log[n]), <<>>) = 0
<1> DEFINE found == {i \in DOMAIN log : Hash(log[n]) # <<>> /\ Hash(log[i]) = Hash(log[n])}
<1>1. found = {n}
  BY EventAt, HashOfEvent DEF Twins, ChainInv
<1>2. \A j \in {n} : n <= j
  BY LenProperties DEF ChainInv, ChainTypes
<1>3. CursorIndex(Hash(log[n]), log) = CHOOSE i \in {n} : \A j \in {n} : i <= j
  BY <1>1 DEF CursorIndex
<1>4. CursorIndex(Hash(log[n]), <<>>) = 0
  BY EmptySeq DEF CursorIndex
<1> QED BY <1>2, <1>3, <1>4

\* A page of a file that could be read.
LEMMA PageOfLog ==
  ASSUME ChainInv, ~Twins, NEW n \in DOMAIN log
  PROVE  LET page == EventsByCursor(Hash(log[n]), log)
             last == n + Len(page.items)
         IN  /\ last <= Len(log)
             /\ page.items = SubSeq(log, n + 1, last)
             /\ page.next = IF last < Len(log) THEN Hash(log[last]) ELSE <<>>
             /\ n < Len(log) => last > n
             /\ last \in DOMAIN log
<1> DEFINE end == IF n + PageLimit < Len(log) THEN n + PageLimit ELSE Len(log)
           page == EventsByCursor(Hash(log[n]), log)
<1>1. /\ Len(log) \in Nat /\ n \in 1 .. Len(log) /\ PageLimit \in Nat \ {0}
      /\ DOMAIN log = 1 .. Len(log)
  BY HubBounds, LenProperties DEF ChainInv, ChainTypes
<1>2. end \in n .. Len(log) /\ end \in Nat /\ (n < Len(log) => end > n)
  BY <1>1
<1>3. /\ page.items = SubSeq(log, n + 1, end)
      /\ page.next = IF end < Len(log) THEN Hash(log[end]) ELSE <<>>
  BY CursorFindsLine DEF EventsByCursor
<1>4. Len(page.items) = end - n
  <2>1. \A i \in n + 1 .. end : log[i] \in Event
    BY <1>1, <1>2, EventAt DEF ChainInv
  <2>2. Len(SubSeq(log, n + 1, end)) = IF n + 1 <= end THEN end - (n + 1) + 1 ELSE 0
    BY <1>1, <1>2, <2>1, SubSeqProperties
  <2>3. (IF n + 1 <= end THEN end - (n + 1) + 1 ELSE 0) = end - n
    BY <1>1, <1>2
  <2> QED BY <1>3, <2>2, <2>3
<1>5. n + Len(page.items) = end
  BY <1>1, <1>2, <1>4
<1>6. end <= Len(log) /\ (n < Len(log) => end > n) /\ end \in DOMAIN log
  BY <1>1, <1>2
<1> QED BY <1>3, <1>5, <1>6, Zenon

\* A page of a file that could not be read.
LEMMA PageOfNothing ==
  ASSUME ChainInv, ~Twins, NEW n \in DOMAIN log
  PROVE  LET page == EventsByCursor(Hash(log[n]), <<>>)
         IN  page.items = <<>> /\ page.next = <<>>
<1>1. CursorIndex(Hash(log[n]), <<>>) = 0 /\ Len(<<>>) = 0 /\ PageLimit \in Nat \ {0}
  BY CursorFindsLine, HubBounds, EmptySeq
<1>2. (IF 0 + PageLimit < 0 THEN 0 + PageLimit ELSE 0) = 0 /\ 0 + 1 = 1 /\ ~(0 < 0)
  BY <1>1
<1>3. SubSeq(<<>>, 1, 0) = <<>>
  BY SubSeqEmpty
<1> QED BY <1>1, <1>2, <1>3 DEF EventsByCursor

LEMMA PagesFollow == ChainInv => CursorResumes
<1> SUFFICES ASSUME ChainInv, ~Twins, NEW n \in DOMAIN log, NEW events \in ReadAllLogs
             PROVE  LET page == EventsByCursor(Hash(log[n]), events)
                        last == n + Len(page.items)
                    IN  /\ last <= Len(log)
                        /\ page.items = SubSeq(log, n + 1, last)
                        /\ page.next # <<>> => last < Len(log) /\ page.next = Hash(log[last])
                        /\ events = log /\ n < Len(log) => last > n
                        /\ events = log /\ last < Len(log) => page.next # <<>>
  BY DEF CursorResumes
<1>1. Len(log) \in Nat /\ n \in 1 .. Len(log)
  BY LenProperties DEF ChainInv, ChainTypes
<1>2. CASE events = log
  <2>1. \A i \in DOMAIN log : Hash(log[i]) # <<>>
    BY EventAt, HashOfEvent DEF ChainInv
  <2> QED BY <1>2, <2>1, PageOfLog
<1>3. CASE events = <<>>
  <2>1. events # log
    BY <1>1, <1>3, EmptySeq
  <2>2. n + Len(<<>>) = n /\ n <= Len(log)
    BY <1>1, EmptySeq
  <2>3. SubSeq(log, n + 1, n) = <<>>
    <3>1. n \in Int /\ n + 1 \in Int /\ n + 1 > n
      BY <1>1
    <3> QED BY <3>1, SubSeqEmpty
  <2> QED BY <1>3, <2>1, <2>2, <2>3, PageOfNothing
<1> QED BY <1>2, <1>3 DEF ReadAllLogs

\* A client that pages through the log by cursors is never sent past a line nor back, also
\* by pages of a file that could not be read, as long as no two lines have one hash
\* (server.ts 222-235, 508-537).
THEOREM CursorsResume == Spec => []CursorResumes
BY ChainHolds, PagesFollow, PTL

\* Both together: no reader of the log misses what a request recorded (server.ts 412, 516).
THEOREM ReadersKeepUp == Spec => []ReadersMissNothing
BY TailStreamsAll, CursorsResume, PTL DEF ReadersMissNothing

=============================================================================
