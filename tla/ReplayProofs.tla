----------------------------- MODULE ReplayProofs ----------------------------
(***************************************************************************)
(* Proofs about Replay, for any producers with any finite streams, on any  *)
(* contexts, and channels of any capacity.                                 *)
(***************************************************************************)
EXTENDS Replay, SequenceTheorems, FiniteSetTheorems, TLAPS

\* Producers are numbered, their events are sequences of numbers and their
\* contexts are among Contexts.
LEMMA ProducersAre ==
  /\ Len(Events) \in Nat /\ Producers = 1 .. Len(Events)
  /\ \A p \in Producers : Events[p] \in Seq(Nat) /\ Len(Events[p]) \in Nat
                          /\ Home[p] \in Contexts
                          /\ \A i \in 1 .. Len(Events[p]) : Events[p][i] \in Nat
BY EventsAssumption, HomeAssumption DEF Producers, Contexts

------------------------------------------------------------------------------
(***************************************************************************)
(* Types.                                                                  *)
(***************************************************************************)

LEMMA TypeInit == Init => TypeOK
<1> SUFFICES ASSUME Init PROVE TypeOK
  OBVIOUS
<1>1. channel = [p \in Producers |-> <<>>] /\ handled = [p \in Producers |-> <<>>]
      /\ inbox = [c \in Contexts |-> <<>>] /\ tasks = <<>> /\ output = <<>>
  BY DEF Init
<1>2. channel \in [Producers -> Seq(Nat)] /\ handled \in [Producers -> Seq(Nat)]
      /\ inbox \in [Contexts -> Seq(Request)]
  BY <1>1, EmptySeq
<1>3. tasks \in Seq(Producers \cup {0}) /\ output \in Seq(Event)
  BY <1>1, EmptySeq
<1>4. \A p \in Producers : produced[p] <= Len(Events[p]) /\ Len(channel[p]) <= Capacity
  BY <1>1, ProducersAre, CapacityAssumption, EmptySeq DEF Init
<1>5. loop = "recv" /\ signalled \in BOOLEAN /\ sync = "unborn" /\ heap \subseteq Event /\ gone \subseteq Contexts
  BY DEF Init
<1>6. turn \in 1 .. Len(Events) + 1
  <2>1. turn = 1 /\ Len(Events) \in Nat
    BY ProducersAre DEF Init
  <2> QED BY <2>1
<1>7. /\ answer \in [Producers -> {"none", "sent", "dropped"}]
      /\ gen \in [Producers -> {"none", "queued", "running", "done", "dropped", "panicked"}]
      /\ produced \in [Producers -> Nat]
  BY DEF Init
<1> QED
  BY <1>2, <1>3, <1>4, <1>5, <1>7, <1>6 DEF TypeOK

LEMMA TypeLoop == TypeOK /\ (Launch \/ Interrupt \/ Loop) => TypeOK'
<1> SUFFICES ASSUME TypeOK, Launch \/ Interrupt \/ Loop PROVE TypeOK'
  OBVIOUS
<1>1. CASE Launch
  <2>1. tasks' \in Seq(Producers \cup {0})
    <3>1. tasks \in Seq(Producers \cup {0}) /\ tasks' \in {tasks, Append(tasks, 0)}
      BY <1>1 DEF TypeOK, Launch
    <3> QED BY <3>1, AppendProperties
  <2> QED
    BY <1>1, <2>1 DEF TypeOK, Launch, looping, sources, contexts
<1>2. CASE Interrupt
  BY <1>2 DEF TypeOK, Interrupt, merging, sources, contexts
<1>3. CASE SpawnLocal
  <2>1. tasks' \in Seq(Producers \cup {0}) /\ Head(tasks) \in Producers \cup {0}
    BY <1>3 DEF TypeOK, SpawnLocal
  <2> QED
    BY <1>3, <2>1, ProducersAre DEF TypeOK, SpawnLocal, looping, contexts
<1>4. CASE NoTask \/ NoSignal
  BY <1>4 DEF TypeOK, NoTask, NoSignal, merging, sources, contexts
<1>5. CASE Break
  BY <1>5 DEF TypeOK, Break, contexts
<1> QED
  BY <1>1, <1>2, <1>3, <1>4, <1>5 DEF Loop, BreakOnSignal, BreakOnNone

\* Where background_task is once it has the streams before that of producer k.
LEMMA AwaitFromIs ==
  ASSUME NEW k \in Nat \ {0}, AwaitFrom(k), TypeOK
  PROVE  /\ turn' \in 1 .. Len(Events) + 1
         /\ \/ k \in Producers /\ sync' = "await" /\ turn' = k
            \/ k > Len(Events) /\ sync' = "choose"
BY ProducersAre DEF AwaitFrom, TypeOK

\* What taking an event of producer p does.
LEMMA TakeEventIs ==
  ASSUME NEW p \in Producers, TakeEvent(p), TypeOK
  PROVE  /\ channel[p] # <<>>
         /\ heap' = heap \cup {[from |-> p, event |-> Head(channel[p])]}
         /\ channel'[p] = Tail(channel[p])
         /\ \A q \in Producers \ {p} : channel'[q] = channel[q]
         /\ channel' \in [Producers -> Seq(Nat)]
         /\ \A q \in Producers : Len(channel'[q]) <= Capacity
         /\ heap' \subseteq Event
<1>1. channel[p] \in Seq(Nat) /\ Tail(channel[p]) \in Seq(Nat) /\ Head(channel[p]) \in Nat
      /\ Len(Tail(channel[p])) = Len(channel[p]) - 1 /\ Len(channel[p]) \in Nat
  BY HeadTailProperties DEF TypeOK, TakeEvent
<1> QED
  BY <1>1, CapacityAssumption DEF TypeOK, TakeEvent, Event

LEMMA TypeMerger == TypeOK /\ Merger => TypeOK'
<1> SUFFICES ASSUME TypeOK, Merger PROVE TypeOK'
  OBVIOUS
<1> USE ProducersAre
<1>1. CASE Ask
  <2>1. turn \in Producers /\ turn' \in 1 .. Len(Events) + 1
    BY <1>1 DEF TypeOK, Ask
  <2>2. Home[turn] \in Contexts /\ Create(turn) \in Request
    BY <2>1 DEF Create, Request
  <2>3. inbox' \in [Contexts -> Seq(Request)]
    BY <1>1, <2>2 DEF TypeOK, Ask
  <2> QED
    BY <1>1, <2>1, <2>3 DEF TypeOK, Ask, looping, sources
<1>1a. CASE AskNobody
  BY <1>1a DEF TypeOK, AskNobody, looping, sources, contexts
<1>2. CASE AllAsked
  <2>1. /\ turn' \in 1 .. Len(Events) + 1
        /\ sync' \in {"await", "choose"} /\ (sync' = "await" => turn' \in Producers)
    BY <1>2, AwaitFromIs DEF AllAsked
  <2>2. UNCHANGED <<looping, tasks, heap, output, answer, sources, channel, contexts>>
    BY <1>2 DEF AllAsked
  <2> QED
    BY <2>1, <2>2 DEF TypeOK, looping, sources, contexts
<1>3. CASE TakeStream \/ NoStream \/ Finish
  BY <1>3 DEF TypeOK, TakeStream, NoStream, Finish, looping, sources, contexts
<1>4. CASE FirstEvent
  <2>1. turn \in Producers /\ turn + 1 \in Nat \ {0}
    BY <1>4 DEF TypeOK, FirstEvent
  <2>2. CASE TakeEvent(turn)
    <3>1. /\ channel' \in [Producers -> Seq(Nat)] /\ heap' \subseteq Event
          /\ \A q \in Producers : Len(channel'[q]) <= Capacity
      BY <2>1, <2>2, TakeEventIs
    <3>2. /\ turn' \in 1 .. Len(Events) + 1
          /\ sync' \in {"await", "choose"} /\ (sync' = "await" => turn' \in Producers)
      BY <1>4, <2>1, AwaitFromIs DEF FirstEvent
    <3>3. UNCHANGED <<looping, tasks, output, answer, sources, contexts>>
      BY <1>4 DEF FirstEvent
    <3> QED
      BY <3>1, <3>2, <3>3 DEF TypeOK, looping, sources, contexts
  <2>3. CASE EndOfStream(turn)
    <3>1. /\ turn' \in 1 .. Len(Events) + 1
          /\ sync' \in {"await", "choose"} /\ (sync' = "await" => turn' \in Producers)
      BY <1>4, <2>1, AwaitFromIs DEF FirstEvent
    <3>2. UNCHANGED <<looping, tasks, output, answer, sources, contexts, heap, channel>>
      BY <1>4, <2>3 DEF FirstEvent, EndOfStream
    <3> QED
      BY <3>1, <3>2 DEF TypeOK, looping, sources, contexts
  <2> QED BY <1>4, <2>2, <2>3 DEF FirstEvent
<1>5. CASE Choose
  <2>1. PICK h \in heap : /\ heap' = heap \ {h}
                          /\ inbox' = [inbox EXCEPT ![Home[h.from]] = Append(@, Process(h.from, h.event))]
                          /\ output' = Append(output, h) /\ turn' = h.from
    BY <1>5 DEF Choose
  <2>2. h \in Event /\ h.from \in Producers /\ Process(h.from, h.event) \in Request
    BY DEF TypeOK, Event, Process, Request
  <2>3. inbox' \in [Contexts -> Seq(Request)] /\ output' \in Seq(Event)
    BY <2>1, <2>2 DEF TypeOK
  <2>4. heap' \subseteq Event
    BY <2>1 DEF TypeOK
  <2>5. turn' \in 1 .. Len(Events) + 1 /\ turn' \in Producers
    BY <2>1, <2>2
  <2>6. sync' = "next" /\ UNCHANGED <<looping, tasks, answer, sources, channel, gone, handled>>
    BY <1>5 DEF Choose
  <2> QED
    BY <2>3, <2>4, <2>5, <2>6 DEF TypeOK, looping, sources
<1>6. CASE NextEvent
  <2>1. turn \in Producers
    BY <1>6 DEF TypeOK, NextEvent
  <2>2. CASE TakeEvent(turn)
    BY <1>6, <2>1, <2>2, TakeEventIs DEF TypeOK, NextEvent, looping, sources, contexts
  <2>3. CASE EndOfStream(turn)
    BY <1>6, <2>1, <2>3 DEF TypeOK, NextEvent, EndOfStream, looping, sources, contexts
  <2> QED BY <1>6, <2>2, <2>3 DEF NextEvent
<1> QED
  BY <1>1, <1>1a, <1>2, <1>3, <1>4, <1>5, <1>6 DEF Merger

\* The first message for context c is a request to one of its producers, and
\* the others remain.
LEMMA HeadOfInbox ==
  ASSUME NEW c \in Contexts, inbox[c] # <<>>, TypeOK
  PROVE  /\ Head(inbox[c]) \in Request /\ Tail(inbox[c]) \in Seq(Request)
         /\ 1 \in DOMAIN inbox[c] /\ Head(inbox[c]) = inbox[c][1]
         /\ \A i \in DOMAIN Tail(inbox[c]) : i + 1 \in DOMAIN inbox[c] /\ Tail(inbox[c])[i] = inbox[c][i + 1]
BY HeadTailProperties DEF TypeOK

LEMMA TypeContext == ASSUME NEW c \in Contexts, TypeOK, Context(c) PROVE TypeOK'
<1> DEFINE m == Head(inbox[c])
<1>1. inbox[c] # <<>> /\ (inbox' = inbox \/ inbox' = [inbox EXCEPT ![c] = Tail(@)])
  BY DEF Context, CreateStream, AnswerStream, ProcessEvent
<1>2. m \in Request /\ m.to \in Producers /\ m.event \in Nat
  BY <1>1, HeadOfInbox DEF Request
<1>3. inbox' \in [Contexts -> Seq(Request)]
  BY <1>1, HeadOfInbox DEF TypeOK
<1> HIDE DEF m
<1>4. CASE CreateStream(c)
  <2>1. CASE loop = "over"
    BY <1>2, <1>3, <1>4, <2>1, ProducersAre DEF TypeOK, CreateStream, Unwind, m, looping, merging
  <2>2. CASE loop # "over"
    <3>1. tasks' \in Seq(Producers \cup {0})
      <4>1. tasks \in Seq(Producers \cup {0}) /\ tasks' = Append(tasks, m.to)
        BY <1>4, <2>2 DEF TypeOK, CreateStream, m
      <4> QED BY <1>2, <4>1, AppendProperties
    <3> QED
      BY <1>2, <1>3, <1>4, <2>2, <3>1, ProducersAre DEF TypeOK, CreateStream, m, looping, merging
  <2> QED BY <2>1, <2>2
<1>4a. CASE AnswerStream(c)
  <2>1. gone' \subseteq Contexts /\ answer' \in [Producers -> {"none", "sent", "dropped"}]
    BY <1>2, <1>4a DEF TypeOK, AnswerStream, Unwind, m
  <2> QED
    BY <1>3, <1>4a, <2>1 DEF TypeOK, AnswerStream, looping, merging, sources
<1>5. CASE ProcessEvent(c)
  <2>1. handled' \in [Producers -> Seq(Nat)]
    BY <1>2, <1>5 DEF TypeOK, ProcessEvent, m
  <2> QED
    BY <1>3, <1>5, <2>1 DEF TypeOK, ProcessEvent, looping, merging, sources
<1> QED
  BY <1>4, <1>4a, <1>5 DEF Context

\* What a generator does when it sends an event.
LEMMA SendEventIs ==
  ASSUME NEW p \in Producers, SendEvent(p), TypeOK
  PROVE  /\ produced[p] + 1 \in 1 .. Len(Events[p])
         /\ channel'[p] = Append(channel[p], Events[p][produced[p] + 1])
         /\ produced'[p] = produced[p] + 1 /\ produced' \in [Producers -> Nat]
         /\ \A q \in Producers \ {p} : channel'[q] = channel[q] /\ produced'[q] = produced[q]
         /\ channel' \in [Producers -> Seq(Nat)]
         /\ \A q \in Producers : Len(channel'[q]) <= Capacity
<1>1. produced[p] \in Nat /\ produced[p] < Len(Events[p]) /\ channel[p] \in Seq(Nat)
  BY ProducersAre DEF TypeOK, SendEvent
<1>2. Events[p][produced[p] + 1] \in Nat
  BY <1>1, ProducersAre
<1>3. Append(channel[p], Events[p][produced[p] + 1]) \in Seq(Nat)
      /\ Len(Append(channel[p], Events[p][produced[p] + 1])) = Len(channel[p]) + 1
      /\ Len(channel[p]) \in Nat
  BY <1>1, <1>2, AppendProperties
<1>4. /\ channel' = [channel EXCEPT ![p] = Append(@, Events[p][produced[p] + 1])]
      /\ produced' = [produced EXCEPT ![p] = @ + 1] /\ Len(channel[p]) < Capacity
      /\ channel \in [Producers -> Seq(Nat)] /\ Capacity \in Nat /\ produced \in [Producers -> Nat]
      /\ \A q \in Producers : Len(channel[q]) <= Capacity
  BY CapacityAssumption DEF TypeOK, SendEvent
<1>5. \A q \in Producers : Len(channel'[q]) <= Capacity
  BY <1>3, <1>4
<1> QED
  BY <1>1, <1>3, <1>4, <1>5, ProducersAre

LEMMA TypeGenerator == ASSUME NEW p \in Producers, TypeOK, Generator(p) PROVE TypeOK'
<1>1. CASE SendEvent(p)
  <2>1. \A q \in Producers : produced'[q] \in Nat /\ produced'[q] <= Len(Events[q])
    <3>1. /\ produced'[p] = produced[p] + 1 /\ produced[p] + 1 \in 1 .. Len(Events[p])
          /\ \A q \in Producers \ {p} : produced'[q] = produced[q]
      BY <1>1, SendEventIs
    <3>2. \A q \in Producers : produced[q] \in Nat /\ produced[q] <= Len(Events[q]) /\ Len(Events[q]) \in Nat
      BY ProducersAre DEF TypeOK
    <3> QED BY <3>1, <3>2
  <2> QED
    BY <1>1, <2>1, SendEventIs DEF TypeOK, SendEvent, looping, merging, contexts
<1>2. CASE GeneratorEnds(p)
  BY <1>2 DEF TypeOK, GeneratorEnds, looping, merging, contexts
<1> QED
  BY <1>1, <1>2 DEF Generator

LEMMA TypeStep == TypeOK /\ [Next]_vars => TypeOK'
<1>1. TypeOK /\ UNCHANGED vars => TypeOK'
  BY DEF TypeOK, vars, looping, merging, sources, contexts
<1> QED
  BY <1>1, TypeLoop, TypeMerger, TypeContext, TypeGenerator DEF Next

\* Every variable has its type, whatever the streams and the capacity.
THEOREM TypeCorrect == Spec => []TypeOK
<1> QED
  BY TypeInit, TypeStep, PTL DEF Spec

------------------------------------------------------------------------------
(***************************************************************************)
(* Nothing fails by itself.  The loop gives up, uninterrupted, only when   *)
(* nobody is left who will spawn; and a stream is refused only by a        *)
(* context that has panicked.                                              *)
(***************************************************************************)
LoopOutlivesSpawners == loop = "over" /\ ~ signalled => NoSenders

DroppedByPanic == (\E p \in Producers : answer[p] = "dropped") => gone # {}

CInv == TypeOK /\ CleanUnlessInterrupted /\ LoopOutlivesSpawners /\ DroppedByPanic

LEMMA CleanInit == Init => CInv
<1> SUFFICES ASSUME Init PROVE CInv
  OBVIOUS
<1>1. TypeOK
  BY TypeInit
<1> QED
  BY <1>1 DEF Init, CInv, CleanUnlessInterrupted, LoopOutlivesSpawners, DroppedByPanic

LEMMA CleanLoop == CInv /\ (Launch \/ Interrupt \/ Loop) => CInv'
<1> SUFFICES ASSUME CInv, Launch \/ Interrupt \/ Loop PROVE CInv'
  OBVIOUS
<1> USE DEF CInv, CleanUnlessInterrupted, LoopOutlivesSpawners, DroppedByPanic
<1>1. TypeOK'
  BY TypeLoop
<1>2. CASE Launch
  BY <1>1, <1>2 DEF Launch, looping, sources, contexts, NoSenders, SyncOver
<1>3. CASE Interrupt
  BY <1>1, <1>3 DEF Interrupt, merging, sources, contexts
<1>4. CASE SpawnLocal
  <2>1. \A p \in Producers : gen'[p] \in {gen[p], "running"}
    BY <1>4 DEF SpawnLocal, TypeOK
  <2>2. sync' \in {sync, "ask"} /\ loop # "over" /\ UNCHANGED <<looping, answer, gone>>
    BY <1>4 DEF SpawnLocal, contexts
  <2> QED
    BY <1>1, <2>1, <2>2 DEF looping
<1>5. CASE NoTask \/ NoSignal
  BY <1>1, <1>5 DEF NoTask, NoSignal, merging, sources, contexts
<1>6. CASE BreakOnSignal
  BY <1>1, <1>6 DEF BreakOnSignal, Break, contexts
<1>7. CASE BreakOnNone
  <2>1. UNCHANGED <<sync, gen, signalled, answer, contexts>>
    BY <1>7 DEF BreakOnNone, Break, TypeOK
  <2> QED
    BY <1>1, <1>7, <2>1 DEF BreakOnNone, contexts, NoSenders, SyncOver
<1> QED
  BY <1>2, <1>3, <1>4, <1>5, <1>6, <1>7 DEF Loop

LEMMA CleanMerger == CInv /\ Merger => CInv'
<1> SUFFICES ASSUME CInv, Merger PROVE CInv'
  OBVIOUS
<1>1. TypeOK'
  BY TypeMerger DEF CInv
<1>1a. CASE AskNobody
  <2>1. /\ gone # {} /\ sync = "ask" /\ sync' = "aborted"
        /\ UNCHANGED <<looping, answer, gen, gone>>
    BY <1>1a DEF AskNobody, sources, contexts
  <2> QED
    BY <1>1, <2>1 DEF CInv, CleanUnlessInterrupted, LoopOutlivesSpawners, DroppedByPanic, looping
<1> SUFFICES ASSUME ~ AskNobody PROVE CInv'
  BY <1>1a
\* While the task runs, somebody may still spawn.
<1>2. /\ sync \in {"ask", "await", "first", "choose", "next"}
      /\ UNCHANGED <<looping, answer, gen, gone>>
      /\ \/ sync' \in {"ask", "await", "first", "choose", "next", "done"}
         \/ sync = "await" /\ answer[turn] = "dropped"
  <2>1. \A k : AwaitFrom(k) => sync' \in {"await", "choose"}
    BY DEF AwaitFrom
  <2> QED
    BY <2>1 DEF Merger, Ask, AllAsked, TakeStream, NoStream, FirstEvent, Choose, NextEvent, Finish,
                contexts, sources
<1>3. ~ signalled => loop # "over"
  BY <1>2 DEF CInv, LoopOutlivesSpawners, NoSenders, SyncOver
<1>4. sync = "await" /\ answer[turn] = "dropped" => signalled
  BY DEF CInv, TypeOK, DroppedByPanic, CleanUnlessInterrupted
<1> QED
  BY <1>1, <1>2, <1>3, <1>4 DEF CInv, CleanUnlessInterrupted, LoopOutlivesSpawners, DroppedByPanic, looping

LEMMA CleanContext == ASSUME NEW c \in Contexts, CInv, Context(c) PROVE CInv'
<1> USE DEF CInv, CleanUnlessInterrupted, LoopOutlivesSpawners, DroppedByPanic
<1>1. TypeOK'
  BY TypeContext
<1>2. /\ inbox[c] # <<>> /\ (inbox' = inbox \/ inbox' = [inbox EXCEPT ![c] = Tail(@)])
      /\ UNCHANGED <<looping, merging>>
  BY DEF Context, CreateStream, AnswerStream, ProcessEvent
<1>3. Head(inbox[c]).to \in Producers
  BY <1>2, HeadOfInbox DEF Request
\* Taking a message from an inbox adds no request to spawn.
<1>4. gone \subseteq gone' => (NoSenders => NoSenders')
  <2> SUFFICES ASSUME gone \subseteq gone', NoSenders,
                      NEW d \in Contexts, d \notin gone', NEW i \in DOMAIN inbox'[d]
               PROVE  inbox'[d][i].kind # "create"
    BY <1>2 DEF NoSenders, SyncOver, merging
  <2>1. CASE d = c /\ inbox' # inbox
    <3>1. inbox'[d] = Tail(inbox[c])
      BY <1>2, <2>1 DEF TypeOK
    <3>2. i + 1 \in DOMAIN inbox[c] /\ inbox'[d][i] = inbox[c][i + 1]
      BY <1>2, <3>1, HeadOfInbox
    <3> QED BY <2>1, <3>2 DEF NoSenders
  <2>2. CASE d # c \/ inbox' = inbox
    BY <1>2, <2>2 DEF NoSenders, TypeOK
  <2> QED BY <2>1, <2>2
<1>5. CASE ProcessEvent(c)
  BY <1>1, <1>2, <1>4, <1>5 DEF ProcessEvent, looping, merging, sources
<1>6. CASE CreateStream(c)
  <2>1. CASE loop = "over"
    <3>1. ~ NoSenders
      BY <1>2, <1>6, HeadOfInbox DEF NoSenders, CreateStream
    <3> QED
      BY <1>1, <1>2, <1>6, <2>1, <3>1 DEF CreateStream, Unwind, looping, merging
  <2>2. CASE loop # "over"
    <3>1. gen' = [gen EXCEPT ![Head(inbox[c]).to] = "queued"] /\ UNCHANGED <<gone, answer>>
      BY <1>6, <2>2 DEF CreateStream
    <3>2. \A p \in Producers : gen'[p] \in {gen[p], "queued"}
      BY <1>3, <3>1 DEF TypeOK
    <3> QED
      BY <1>1, <1>2, <2>2, <3>1, <3>2 DEF looping, merging
  <2> QED BY <2>1, <2>2
<1>7. CASE AnswerStream(c)
  <2>1. UNCHANGED <<sync, gen, signalled, loop>>
    BY <1>7 DEF AnswerStream, looping, merging, sources
  <2>2. CASE sync = "panicked"
    <3>1. gone \subseteq gone' /\ gone' # {} /\ signalled
      BY <1>7, <2>2 DEF AnswerStream, Unwind
    <3> QED
      BY <1>1, <1>4, <2>1, <3>1
  <2>3. CASE sync # "panicked"
    <3>1. answer' = [answer EXCEPT ![Head(inbox[c]).to] = "sent"] /\ UNCHANGED gone
      BY <1>7, <2>3 DEF AnswerStream
    <3>2. \A p \in Producers : answer'[p] \in {answer[p], "sent"}
      BY <1>3, <3>1 DEF TypeOK
    <3> QED
      BY <1>1, <1>4, <2>1, <3>1, <3>2
  <2> QED BY <2>2, <2>3
<1> QED
  BY <1>5, <1>6, <1>7 DEF Context

LEMMA CleanGenerator == ASSUME NEW p \in Producers, CInv, Generator(p) PROVE CInv'
<1>1. TypeOK'
  BY TypeGenerator DEF CInv
<1>2. UNCHANGED <<looping, merging, answer, contexts>>
  BY DEF Generator, SendEvent, GeneratorEnds
<1>3. \A q \in Producers : gen'[q] \in {gen[q], "done"} \/ sync = "panicked"
  BY DEF Generator, SendEvent, GeneratorEnds, GivenUp, CInv, TypeOK
<1> QED
  BY <1>1, <1>2, <1>3 DEF CInv, CleanUnlessInterrupted, LoopOutlivesSpawners, DroppedByPanic,
                          looping, merging, contexts, NoSenders, SyncOver

\* Nothing panics, aborts or is dropped unless somebody interrupts: the loop
\* outlives everybody who spawns (tokio_wrapper.rs:36, 53-66).
THEOREM NothingFailsByItself == Spec => []CleanUnlessInterrupted
<1>1. CInv /\ [Next]_vars => CInv'
  <2>1. CInv /\ UNCHANGED vars => CInv'
    <3>1. TypeOK /\ UNCHANGED vars => TypeOK'
      BY TypeStep
    <3> QED
      BY <3>1 DEF CInv, CleanUnlessInterrupted, LoopOutlivesSpawners, DroppedByPanic, NoSenders, SyncOver,
                  vars, looping, merging, sources, contexts
  <2> QED
    BY <2>1, CleanLoop, CleanMerger, CleanContext, CleanGenerator DEF Next
<1>2. CInv => CleanUnlessInterrupted
  BY DEF CInv
<1> QED
  BY <1>1, <1>2, CleanInit, PTL DEF Spec

------------------------------------------------------------------------------
(***************************************************************************)
(* The synchronizer merges.  A stream is lost as a whole or not at all,    *)
(* since a generator that has not been spawned has sent nothing; and when  *)
(* an event is chosen, every stream has its first event in the heap or has *)
(* ended, since the next event of the last choice was awaited.             *)
(***************************************************************************)

\* background_task has asked producer p for its stream.
Asked(p) == sync \notin {"unborn", "queued"} /\ (sync = "ask" => p < turn)

\* It has awaited the first event of p's stream.
Passed(p) == sync \in {"choose", "next", "done"} \/ (sync \in {"await", "first"} /\ p < turn)

\* The stream of p has no more events.
Ended(p) == channel[p] = <<>> /\ gen[p] \in {"done", "dropped"}

\* A generator sends while it runs, and runs once it is asked for and spawned.
GeneratorsInOrder ==
  \A p \in Producers :
    /\ gen[p] \in {"none", "queued", "dropped"} => produced[p] = 0
    /\ gen[p] = "done" => produced[p] = Len(Events[p])
    /\ gen[p] = "panicked" => sync = "panicked"
    /\ produced[p] = 0 => channel[p] = <<>>
    /\ ~ Asked(p) => gen[p] = "none"
    /\ Passed(p) => gen[p] \notin {"none", "queued"}

\* What waits to be spawned does so once.
TasksInOrder ==
  \A i \in DOMAIN tasks :
    /\ tasks[i] = 0 => sync = "queued"
    /\ tasks[i] # 0 => gen[tasks[i]] = "queued"
    /\ \A j \in DOMAIN tasks : tasks[i] = tasks[j] => i = j

\* A producer is asked for its stream once, and has not had the question before,
\* unless it is at it.
RequestsInOrder ==
  \A c \in Contexts : \A i \in DOMAIN inbox[c] : \A p \in Producers :
    inbox[c][i].kind = "create" /\ inbox[c][i].to = p =>
    /\ Asked(p) /\ (i # 1 => gen[p] = "none") /\ Home[p] = c
    /\ \A j \in DOMAIN inbox[c] : inbox[c][j].kind = "create" /\ inbox[c][j].to = p => i = j

\* The heap has one event of a stream at most, which was sent.
HeapInOrder ==
  \A h \in heap :
    /\ Passed(h.from) \/ sync \in {"panicked", "aborted"}
    /\ produced[h.from] # 0
    /\ sync = "next" => h.from # turn
    /\ \A g \in heap : g.from = h.from => g = h

\* Every stream whose first event was awaited is in the heap or has ended, but
\* for the one whose next event is awaited.
NoneOvertaken ==
  \A p \in Producers : Passed(p) =>
    \/ \E h \in heap : h.from = p
    \/ Ended(p)
    \/ sync = "next" /\ p = turn

\* Events come out once all streams have been looked at.
OutputLater == output # <<>> => sync \in {"choose", "next", "done"}

MInv ==
  /\ TypeOK /\ GeneratorsInOrder /\ TasksInOrder /\ RequestsInOrder
  /\ HeapInOrder /\ NoneOvertaken /\ OutputLater

\* What inboxes hold are requests for producers.
LEMMA InboxTyped ==
  TypeOK => \A c \in Contexts : \A i \in DOMAIN inbox[c] :
              inbox[c][i] \in Request /\ inbox[c][i].to \in Producers
<1> SUFFICES ASSUME TypeOK, NEW c \in Contexts, NEW i \in DOMAIN inbox[c]
             PROVE  inbox[c][i] \in Request /\ inbox[c][i].to \in Producers
  OBVIOUS
<1>1. inbox[c] \in Seq(Request)
  BY DEF TypeOK
<1>2. inbox[c][i] \in Request
  BY <1>1
<1> QED BY <1>2 DEF Request

LEMMA MInvInit == Init => MInv
<1> SUFFICES ASSUME Init PROVE MInv
  OBVIOUS
<1>1. TypeOK
  BY TypeInit
<1>2. /\ tasks = <<>> /\ output = <<>> /\ heap = {} /\ sync = "unborn"
      /\ \A p \in Producers : gen[p] = "none" /\ produced[p] = 0 /\ channel[p] = <<>>
      /\ \A c \in Contexts : inbox[c] = <<>>
  BY DEF Init
<1>3. \A p \in Producers : ~ Passed(p)
  BY <1>2 DEF Passed
<1>4. TasksInOrder /\ RequestsInOrder
  <2>1. DOMAIN tasks = {}
    BY <1>2
  <2>2. \A c \in Contexts : DOMAIN inbox[c] = {}
    BY <1>2
  <2> QED BY <2>1, <2>2 DEF TasksInOrder, RequestsInOrder
<1> QED
  BY <1>1, <1>2, <1>3, <1>4 DEF MInv, GeneratorsInOrder, HeapInOrder, NoneOvertaken, OutputLater

\* A step of the loop that touches nothing the invariant speaks of.
LEMMA MInvFrame ==
  ASSUME MInv, TypeOK', UNCHANGED <<sync, turn, gen, produced, channel, heap, tasks, inbox, output>>
  PROVE  MInv'
BY DEF MInv, GeneratorsInOrder, TasksInOrder, RequestsInOrder, HeapInOrder, NoneOvertaken, OutputLater,
       Asked, Passed, Ended

LEMMA MInvLaunch == MInv /\ Launch => MInv'
<1> SUFFICES ASSUME MInv, Launch PROVE MInv'
  OBVIOUS
<1>1. TypeOK /\ TypeOK'
  BY TypeLoop DEF MInv
<1>2. /\ sync = "unborn" /\ UNCHANGED <<turn, gen, produced, channel, heap, inbox, output>>
      /\ \/ sync' = "aborted" /\ tasks' = tasks
         \/ sync' = "queued" /\ tasks' = Append(tasks, 0)
  BY DEF Launch, sources, contexts
<1>3. \A p \in Producers : ~ Asked(p) /\ ~ Passed(p) /\ ~ Passed(p)'
  BY <1>2 DEF Asked, Passed
<1>4. heap = {} /\ output = <<>>
  BY <1>1, <1>2, <1>3 DEF MInv, HeapInOrder, OutputLater, TypeOK, Event
<1>5. GeneratorsInOrder'
  BY <1>2, <1>3 DEF MInv, GeneratorsInOrder
<1>6. TasksInOrder'
  <2>1. tasks \in Seq(Producers \cup {0}) /\ \A i \in DOMAIN tasks : tasks[i] # 0
    BY <1>1, <1>2 DEF MInv, TasksInOrder, TypeOK
  <2>2. CASE tasks' = tasks
    BY <1>2, <2>1, <2>2 DEF MInv, TasksInOrder
  <2>3. CASE sync' = "queued" /\ tasks' = Append(tasks, 0)
    BY <1>2, <2>1, <2>3, AppendProperties DEF MInv, TasksInOrder
  <2> QED BY <1>2, <2>2, <2>3
<1>7. RequestsInOrder'
  <2>1. \A c \in Contexts : \A i \in DOMAIN inbox[c] : inbox[c][i].kind # "create"
    BY <1>1, <1>3, InboxTyped DEF MInv, RequestsInOrder
  <2> QED BY <1>2, <2>1 DEF RequestsInOrder
<1> QED
  BY <1>1, <1>2, <1>3, <1>4, <1>5, <1>6, <1>7 DEF MInv, HeapInOrder, NoneOvertaken, OutputLater

LEMMA MInvSpawn == MInv /\ SpawnLocal => MInv'
<1> SUFFICES ASSUME MInv, SpawnLocal PROVE MInv'
  OBVIOUS
<1>1. TypeOK /\ TypeOK'
  BY TypeLoop DEF MInv, Loop
<1> DEFINE t == Head(tasks)
<1>2. /\ tasks # <<>> /\ tasks' = Tail(tasks) /\ UNCHANGED <<turn, produced, channel, heap, inbox, output>>
      /\ \/ t = 0 /\ sync' = "ask" /\ UNCHANGED gen
         \/ t # 0 /\ gen' = [gen EXCEPT ![t] = "running"] /\ UNCHANGED sync
  BY DEF SpawnLocal, contexts
<1>3. /\ t = tasks[1] /\ 1 \in DOMAIN tasks /\ t \in Producers \cup {0}
      /\ \A i \in DOMAIN tasks' : i + 1 \in DOMAIN tasks /\ tasks'[i] = tasks[i + 1] /\ i + 1 # 1
  BY <1>1, <1>2, HeadTailProperties DEF TypeOK
<1>4. \A i \in DOMAIN tasks' : tasks'[i] # t
  BY <1>3 DEF MInv, TasksInOrder
<1> HIDE DEF t
<1>5. CASE t = 0
  <2>1. sync = "queued" /\ sync' = "ask" /\ gen' = gen
    BY <1>2, <1>3, <1>5 DEF MInv, TasksInOrder
  <2>2. \A p \in Producers : ~ Asked(p) /\ ~ Passed(p) /\ ~ Passed(p)'
    BY <2>1 DEF Asked, Passed
  <2>3. heap = {} /\ output = <<>>
    BY <1>1, <2>1, <2>2 DEF MInv, HeapInOrder, OutputLater, TypeOK, Event
  <2>4. GeneratorsInOrder'
    BY <1>2, <2>1, <2>2 DEF MInv, GeneratorsInOrder
  <2>5. TasksInOrder'
    BY <1>2, <1>3, <1>4, <1>5, <2>1 DEF MInv, TasksInOrder
  <2>6. \A c \in Contexts : \A i \in DOMAIN inbox[c] : inbox[c][i].kind # "create"
    BY <1>1, <2>2, InboxTyped DEF MInv, RequestsInOrder
  <2> QED
    BY <1>1, <1>2, <2>1, <2>2, <2>3, <2>4, <2>5, <2>6
       DEF MInv, RequestsInOrder, HeapInOrder, NoneOvertaken, OutputLater
<1>6. CASE t # 0
  <2>1. t \in Producers /\ gen[t] = "queued" /\ gen' = [gen EXCEPT ![t] = "running"] /\ sync' = sync
    BY <1>2, <1>3, <1>6 DEF MInv, TasksInOrder
  <2>2. \A p \in Producers : gen'[p] = IF p = t THEN "running" ELSE gen[p]
    BY <1>1, <2>1 DEF TypeOK
  <2>3. \A p \in Producers : (Asked(p)' <=> Asked(p)) /\ (Passed(p)' <=> Passed(p)) /\ (Ended(p) => Ended(p)')
    BY <1>2, <2>1, <2>2 DEF Asked, Passed, Ended
  <2>4. GeneratorsInOrder'
    BY <1>2, <2>1, <2>2, <2>3 DEF MInv, GeneratorsInOrder
  <2>5. TasksInOrder'
    <3>1. \A i \in DOMAIN tasks : tasks[i] \in Producers \cup {0}
      BY <1>1 DEF TypeOK
    <3> QED
      BY <1>2, <1>3, <1>4, <2>1, <2>2, <3>1 DEF MInv, TasksInOrder
  <2>6. RequestsInOrder'
    BY <1>1, <1>2, <2>1, <2>2, <2>3, InboxTyped DEF MInv, RequestsInOrder
  <2> QED
    BY <1>1, <1>2, <2>1, <2>3, <2>4, <2>5, <2>6
       DEF MInv, HeapInOrder, NoneOvertaken, OutputLater, Passed
<1> QED BY <1>5, <1>6

LEMMA MInvBreak == MInv /\ Break => MInv'
<1> SUFFICES ASSUME MInv, Break PROVE MInv'
  OBVIOUS
<1>1. TypeOK /\ TypeOK'
  <2>1. TypeOK => TypeOK'
    BY DEF TypeOK, Break, contexts
  <2> QED BY <2>1 DEF MInv
<1>2. /\ tasks' = <<>> /\ UNCHANGED <<turn, produced, channel, heap, inbox, output>>
      /\ sync' = IF \E i \in DOMAIN tasks : tasks[i] = 0 THEN "dropped" ELSE sync
      /\ \A p \in Producers : gen'[p] = IF \E i \in DOMAIN tasks : tasks[i] = p THEN "dropped" ELSE gen[p]
  BY DEF Break, contexts
<1>3. \A p \in Producers : gen'[p] = gen[p] \/ (gen[p] = "queued" /\ gen'[p] = "dropped")
  <2> SUFFICES ASSUME NEW p \in Producers, NEW i \in DOMAIN tasks, tasks[i] = p
               PROVE  gen[p] = "queued"
    BY <1>2
  <2>1. p # 0
    BY ProducersAre
  <2> QED BY <2>1 DEF MInv, TasksInOrder
<1>4. sync' = sync \/ (sync = "queued" /\ sync' = "dropped")
  BY <1>2 DEF MInv, TasksInOrder
<1>5. \A p \in Producers : (Asked(p) => Asked(p)') /\ (Passed(p)' <=> Passed(p)) /\ (Ended(p) => Ended(p)')
  BY <1>2, <1>3, <1>4 DEF Asked, Passed, Ended
<1>6. GeneratorsInOrder'
  BY <1>2, <1>3, <1>4, <1>5 DEF MInv, GeneratorsInOrder
<1>7. TasksInOrder'
  <2>1. DOMAIN tasks' = {}
    BY <1>2
  <2> QED BY <2>1 DEF TasksInOrder
<1>8. RequestsInOrder'
  BY <1>1, <1>2, <1>3, <1>5, InboxTyped DEF MInv, RequestsInOrder
<1>9. HeapInOrder'
  BY <1>1, <1>2, <1>4, <1>5 DEF MInv, HeapInOrder, TypeOK, Event
<1> QED
  BY <1>1, <1>2, <1>4, <1>5, <1>6, <1>7, <1>8, <1>9 DEF MInv, NoneOvertaken, OutputLater

\* The requests for the producers that background_task comes to are new.
LEMMA MInvAskOf ==
  ASSUME NEW k \in Producers, k = turn, MInv, Ask
  PROVE  MInv'
<1>1. TypeOK /\ TypeOK'
  BY TypeMerger DEF MInv, Merger
<1> DEFINE d == Home[k]
<1>2. /\ sync = "ask" /\ sync' = "ask" /\ turn' = turn + 1
      /\ inbox' = [inbox EXCEPT ![d] = Append(@, Create(k))]
      /\ UNCHANGED <<tasks, gen, produced, channel, heap, output>>
  BY DEF Ask, sources
<1>3. \A p \in Producers : (Asked(p) => Asked(p)') /\ Passed(p)' = Passed(p)
  BY <1>1, <1>2, ProducersAre DEF Asked, Passed, TypeOK
<1>4. Asked(k)' /\ ~ Asked(k)
  BY <1>1, <1>2, ProducersAre DEF Asked, TypeOK
<1>5. gen[k] = "none" /\ d \in Contexts
  BY <1>4, ProducersAre DEF MInv, GeneratorsInOrder
<1> HIDE DEF d
<1>6. RequestsInOrder'
  <2> SUFFICES ASSUME NEW c \in Contexts, NEW i \in DOMAIN inbox'[c], NEW p \in Producers,
                      inbox'[c][i].kind = "create", inbox'[c][i].to = p
               PROVE  /\ Asked(p)' /\ (i # 1 => gen'[p] = "none") /\ Home[p] = c
                      /\ \A j \in DOMAIN inbox'[c] :
                           inbox'[c][j].kind = "create" /\ inbox'[c][j].to = p => i = j
    BY DEF RequestsInOrder
  <2>1. CASE c # d
    <3>1. inbox'[c] = inbox[c]
      BY <1>1, <1>2, <2>1 DEF TypeOK
    <3>2. i \in DOMAIN inbox[c] /\ inbox[c][i].kind = "create" /\ inbox[c][i].to = p
      BY <3>1
    <3>3. /\ Asked(p) /\ (i # 1 => gen[p] = "none") /\ Home[p] = c
          /\ \A j \in DOMAIN inbox[c] :
               inbox[c][j].kind = "create" /\ inbox[c][j].to = p => i = j
      BY <3>2 DEF MInv, RequestsInOrder
    <3> QED
      BY <1>2, <1>3, <3>1, <3>3
  <2>2. CASE c = d
    <3>1. inbox'[c] = Append(inbox[c], Create(k)) /\ inbox[c] \in Seq(Request)
      BY <1>1, <1>2, <1>5, <2>2 DEF TypeOK
    <3>2. \A j \in DOMAIN inbox'[c] :
            \/ j \in DOMAIN inbox[c] /\ inbox'[c][j] = inbox[c][j]
            \/ j = Len(inbox[c]) + 1 /\ inbox'[c][j] = Create(k)
      BY <3>1
    <3>3. \A j \in DOMAIN inbox[c] : inbox[c][j].kind = "create" => inbox[c][j].to # k
      BY <1>4 DEF MInv, RequestsInOrder
    <3>4. Create(k).to = k /\ Create(k).kind = "create"
      BY DEF Create
    <3>5. CASE p = k
      <4>1. Home[k] = c
        BY <2>2 DEF d
      <4> QED
        BY <1>2, <1>4, <1>5, <3>2, <3>3, <3>5, <4>1
    <3>6. CASE p # k
      BY <1>2, <1>3, <3>2, <3>4, <3>6 DEF MInv, RequestsInOrder
    <3> QED BY <3>5, <3>6
  <2> QED BY <2>1, <2>2
<1>7. GeneratorsInOrder'
  BY <1>2, <1>3 DEF MInv, GeneratorsInOrder
<1>8. heap = {}
  BY <1>1, <1>2 DEF MInv, HeapInOrder, Passed, TypeOK, Event
<1> QED
  BY <1>1, <1>2, <1>3, <1>6, <1>7, <1>8
     DEF MInv, TasksInOrder, HeapInOrder, NoneOvertaken, OutputLater, Passed

LEMMA MInvAsk == MInv /\ Ask => MInv'
<1> SUFFICES ASSUME MInv, Ask PROVE MInv'
  OBVIOUS
<1>1. turn \in Producers
  BY ProducersAre DEF MInv, TypeOK, Ask
<1> QED BY <1>1, MInvAskOf

\* A context is gone before it was asked, and that ends it all.
LEMMA MInvAskNobody == MInv /\ AskNobody => MInv'
<1> SUFFICES ASSUME MInv, AskNobody PROVE MInv'
  OBVIOUS
<1>1. TypeOK /\ TypeOK'
  BY TypeMerger DEF MInv, Merger
<1>2. /\ sync = "ask" /\ sync' = "aborted"
      /\ UNCHANGED <<turn, tasks, gen, produced, channel, heap, inbox, output>>
  BY DEF AskNobody, sources, contexts
<1>3. \A p \in Producers : Asked(p)' /\ ~ Passed(p) /\ ~ Passed(p)'
  BY <1>2 DEF Asked, Passed
<1>4. GeneratorsInOrder'
  BY <1>2, <1>3 DEF MInv, GeneratorsInOrder
<1>5. TasksInOrder'
  BY <1>2 DEF MInv, TasksInOrder
<1>6. RequestsInOrder'
  BY <1>1, <1>2, <1>3, InboxTyped DEF MInv, RequestsInOrder
<1>7. HeapInOrder'
  BY <1>2 DEF MInv, HeapInOrder
<1>8. NoneOvertaken' /\ OutputLater'
  BY <1>2, <1>3 DEF MInv, NoneOvertaken, OutputLater
<1> QED
  BY <1>1, <1>4, <1>5, <1>6, <1>7, <1>8 DEF MInv

\* background_task goes on to another await, or to the end, and neither heap
\* nor channels change.
LEMMA MInvMoves == MInv /\ (AllAsked \/ TakeStream \/ NoStream \/ Finish) => MInv'
<1> SUFFICES ASSUME MInv, AllAsked \/ TakeStream \/ NoStream \/ Finish PROVE MInv'
  OBVIOUS
<1>1. TypeOK /\ TypeOK'
  BY TypeMerger DEF MInv, Merger
<1>2. UNCHANGED <<tasks, gen, produced, channel, heap, inbox, output>>
  BY DEF AllAsked, TakeStream, NoStream, Finish, sources, contexts
<1>3. /\ \A p \in Producers : Asked(p) /\ Asked(p)' /\ (Passed(p) => Passed(p)' \/ sync' \in {"panicked", "aborted"})
      /\ \A p \in Producers : Passed(p)' => Passed(p)
      /\ sync # "panicked" /\ sync # "next" /\ sync' # "next" /\ sync # "queued"
  <2>1. CASE AllAsked
    <3>1. Len(Events) \in Nat /\ turn \in Nat /\ turn > Len(Events) /\ sync = "ask"
      BY <1>1, <2>1, ProducersAre DEF AllAsked, TypeOK
    <3>2. \/ sync' = "await" /\ turn' = 1
          \/ sync' = "choose" /\ Len(Events) = 0
      BY <1>1, <2>1, <3>1 DEF AllAsked, AwaitFrom
    <3>3. CASE sync' = "await" /\ turn' = 1
      BY <3>1, <3>3, ProducersAre DEF Asked, Passed
    <3>4. CASE sync' = "choose" /\ Len(Events) = 0
      <4>1. Producers = {}
        BY <3>4, ProducersAre
      <4> QED BY <3>1, <3>4, <4>1
    <3> QED BY <3>2, <3>3, <3>4
  <2>2. CASE TakeStream \/ NoStream \/ Finish
    BY <2>2 DEF TakeStream, NoStream, Finish, Asked, Passed
  <2> QED BY <2>1, <2>2
<1>4. GeneratorsInOrder'
  BY <1>2, <1>3 DEF MInv, GeneratorsInOrder
<1>5. TasksInOrder'
  BY <1>2, <1>3 DEF MInv, TasksInOrder
<1>6. RequestsInOrder'
  BY <1>1, <1>2, <1>3, InboxTyped DEF MInv, RequestsInOrder
<1>7. HeapInOrder'
  <2>1. \A h \in heap : h.from \in Producers
    BY <1>1 DEF TypeOK, Event
  <2>2. sync # "aborted"
    BY DEF AllAsked, TakeStream, NoStream, Finish
  <2> QED
    BY <1>2, <1>3, <2>1, <2>2 DEF MInv, HeapInOrder
<1>8. NoneOvertaken'
  BY <1>2, <1>3 DEF MInv, NoneOvertaken, Ended
<1>9. OutputLater'
  BY <1>2 DEF MInv, OutputLater, AllAsked, TakeStream, NoStream, Finish
<1> QED
  BY <1>1, <1>4, <1>5, <1>6, <1>7, <1>8, <1>9 DEF MInv

\* The next event of the stream whose turn it is enters the heap, or the
\* stream has ended.
LEMMA MInvEvent ==
  ASSUME MInv, FirstEvent \/ NextEvent
  PROVE  MInv'
<1>1. TypeOK /\ TypeOK' /\ turn \in Producers
  BY TypeMerger DEF MInv, Merger, TypeOK, FirstEvent, NextEvent
<1> SUFFICES ASSUME NEW k \in Producers, k = turn PROVE MInv'
  BY <1>1
<1>2. /\ UNCHANGED <<tasks, gen, produced, inbox, output>>
      /\ TakeEvent(k) \/ EndOfStream(k)
      /\ sync \in {"first", "next"} /\ sync' \in {"await", "choose"}
      /\ sync = "next" => sync' = "choose"
      /\ sync = "first" => sync' = "choose" \/ turn' = k + 1
      /\ sync = "first" /\ sync' = "choose" => k = Len(Events)
  BY <1>1, ProducersAre DEF FirstEvent, NextEvent, sources, contexts, AwaitFrom, TypeOK
\* The streams passed now are those passed before, and this one.
<1>3. \A p \in Producers : Passed(p)' <=> Passed(p) \/ p = k
  <2>1. Len(Events) \in Nat /\ \A p \in Producers : p \in Nat /\ p <= Len(Events)
    BY ProducersAre
  <2>2. CASE sync = "next"
    BY <1>2, <2>2 DEF Passed
  <2>3. CASE sync = "first"
    BY ONLY k \in Producers, k = turn, <1>2, <2>1, <2>3 DEF Passed
  <2> QED BY <1>2, <2>2, <2>3
<1>4. \A p \in Producers : Asked(p) /\ Asked(p)'
  BY <1>2 DEF Asked
<1>5. /\ \A h \in heap : h.from # k
      /\ \A p \in Producers \ {k} : Passed(p) => (\E h \in heap : h.from = p) \/ Ended(p)
  <2>1. sync = "first" => ~ Passed(k)
    BY <1>1 DEF Passed, TypeOK
  <2> QED
    BY <1>2, <2>1 DEF MInv, HeapInOrder, NoneOvertaken
<1>6. TasksInOrder'
  BY <1>2 DEF MInv, TasksInOrder
<1>7. RequestsInOrder'
  BY <1>2, <1>4 DEF MInv, RequestsInOrder
<1>8. OutputLater'
  BY <1>2 DEF MInv, OutputLater
<1>9. CASE EndOfStream(k)
  <2>1. channel' = channel /\ heap' = heap /\ Ended(k)' /\ gen[k] \notin {"none", "queued"}
    BY <1>2, <1>9 DEF EndOfStream, Ended
  <2>2. GeneratorsInOrder'
    BY <1>2, <1>3, <1>4, <2>1 DEF MInv, GeneratorsInOrder
  <2>3. \A h \in heap : h.from \in Producers
    BY <1>1 DEF TypeOK, Event
  <2>4. HeapInOrder'
    BY <1>2, <1>3, <2>1, <2>3 DEF MInv, HeapInOrder
  <2>5. NoneOvertaken'
    BY <1>2, <1>3, <1>5, <2>1 DEF NoneOvertaken, Ended
  <2> QED
    BY <1>1, <1>6, <1>7, <1>8, <2>2, <2>4, <2>5 DEF MInv
<1>10. CASE TakeEvent(k)
  <2>1. /\ channel[k] # <<>> /\ heap' = heap \cup {[from |-> k, event |-> Head(channel[k])]}
        /\ \A q \in Producers \ {k} : channel'[q] = channel[q]
    BY <1>1, <1>10, TakeEventIs
  <2>2. produced[k] # 0 /\ gen[k] \notin {"none", "queued", "dropped"}
    BY <2>1 DEF MInv, GeneratorsInOrder
  <2>3. GeneratorsInOrder'
    BY <1>2, <1>3, <1>4, <2>1, <2>2 DEF MInv, GeneratorsInOrder
  <2>4. \A h \in heap : h.from \in Producers
    BY <1>1 DEF TypeOK, Event
  <2>5. HeapInOrder'
    BY <1>2, <1>3, <1>5, <2>1, <2>2, <2>4 DEF MInv, HeapInOrder
  <2>6. NoneOvertaken'
    <3>1. \E h \in heap' : h.from = k
      <4> DEFINE e == [from |-> k, event |-> Head(channel[k])]
      <4>1. e \in heap' /\ e.from = k
        BY <2>1
      <4> QED BY <4>1
    <3>2. ASSUME NEW p \in Producers \ {k}, Passed(p)
          PROVE  (\E h \in heap' : h.from = p) \/ Ended(p)'
      <4>1. (\E h \in heap : h.from = p) \/ Ended(p)
        BY <1>5, <3>2
      <4> QED BY <1>2, <2>1, <4>1 DEF Ended
    <3> QED BY <1>3, <3>1, <3>2 DEF NoneOvertaken
  <2> QED
    BY <1>1, <1>6, <1>7, <1>8, <2>3, <2>5, <2>6 DEF MInv
<1> QED BY <1>2, <1>9, <1>10

\* The chosen event leaves the heap, and its stream is the one awaited.
LEMMA MInvChoose == MInv /\ Choose => MInv'
<1> SUFFICES ASSUME MInv, Choose PROVE MInv'
  OBVIOUS
<1>1. TypeOK /\ TypeOK'
  BY TypeMerger DEF MInv, Merger
<1>2. /\ sync = "choose" /\ sync' = "next"
      /\ UNCHANGED <<tasks, gen, produced, channel>>
  BY DEF Choose, sources
<1>3. PICK h \in heap : /\ heap' = heap \ {h} /\ turn' = h.from
                        /\ inbox' = [inbox EXCEPT ![Home[h.from]] = Append(@, Process(h.from, h.event))]
  BY DEF Choose
<1>4. \A p \in Producers : Asked(p) /\ Asked(p)' /\ Passed(p) /\ Passed(p)'
  BY <1>2 DEF Asked, Passed
<1>5. \A g \in heap : g.from \in Producers
  BY <1>1 DEF TypeOK, Event
<1>6. RequestsInOrder'
  <2> SUFFICES ASSUME NEW c \in Contexts, NEW i \in DOMAIN inbox'[c], NEW p \in Producers,
                      inbox'[c][i].kind = "create", inbox'[c][i].to = p
               PROVE  /\ Asked(p)' /\ (i # 1 => gen'[p] = "none") /\ Home[p] = c
                      /\ \A j \in DOMAIN inbox'[c] :
                           inbox'[c][j].kind = "create" /\ inbox'[c][j].to = p => i = j
    BY DEF RequestsInOrder
  <2>1. \A j \in DOMAIN inbox'[c] :
          inbox'[c][j].kind = "create" => j \in DOMAIN inbox[c] /\ inbox'[c][j] = inbox[c][j]
    <3>1. CASE c = Home[h.from]
      <4>1. inbox'[c] = Append(inbox[c], Process(h.from, h.event)) /\ inbox[c] \in Seq(Request)
        BY <1>1, <1>3, <3>1 DEF TypeOK
      <4>2. \A j \in DOMAIN inbox'[c] :
              \/ j \in DOMAIN inbox[c] /\ inbox'[c][j] = inbox[c][j]
              \/ inbox'[c][j] = Process(h.from, h.event)
        BY <4>1
      <4>3. Process(h.from, h.event).kind # "create"
        BY DEF Process
      <4> QED BY <4>2, <4>3
    <3>2. CASE c # Home[h.from]
      <4>1. inbox'[c] = inbox[c]
        BY <1>1, <1>3, <3>2 DEF TypeOK
      <4> QED BY <4>1
    <3> QED BY <3>1, <3>2
  <2> QED
    BY <1>2, <1>4, <2>1 DEF MInv, RequestsInOrder
<1>7. GeneratorsInOrder'
  BY <1>2, <1>4 DEF MInv, GeneratorsInOrder
<1>8. TasksInOrder'
  BY <1>2 DEF MInv, TasksInOrder
<1>9. HeapInOrder'
  BY <1>2, <1>3, <1>4, <1>5 DEF MInv, HeapInOrder
<1>10. NoneOvertaken'
  <2> SUFFICES ASSUME NEW p \in Producers, p # turn'
               PROVE  (\E g \in heap' : g.from = p) \/ Ended(p)'
    BY <1>2 DEF NoneOvertaken
  <2>1. (\E g \in heap : g.from = p) \/ Ended(p)
    BY <1>2, <1>4 DEF MInv, NoneOvertaken
  <2> QED
    BY <1>2, <1>3, <2>1 DEF Ended
<1> QED
  BY <1>1, <1>2, <1>6, <1>7, <1>8, <1>9, <1>10 DEF MInv, OutputLater

\* A context is done with a message.
LEMMA MInvPop ==
  ASSUME NEW c \in Contexts, MInv, ProcessEvent(c) \/ (AnswerStream(c) /\ sync # "panicked")
  PROVE  MInv'
<1>1. TypeOK /\ TypeOK'
  BY TypeContext DEF MInv, Context
<1>2. /\ inbox[c] # <<>> /\ inbox' = [inbox EXCEPT ![c] = Tail(@)]
      /\ UNCHANGED <<sync, turn, gen, tasks, produced, channel, heap, output>>
  BY DEF ProcessEvent, AnswerStream, merging, sources
<1>3. \A p \in Producers : Asked(p)' = Asked(p) /\ Passed(p)' = Passed(p)
  BY <1>2 DEF Asked, Passed
<1>4. PICK m \in Request : m = Head(inbox[c]) /\ m = inbox[c][1] /\ 1 \in DOMAIN inbox[c] /\ m.to \in Producers
  BY <1>1, <1>2, HeadOfInbox, InboxTyped
\* What is left in the inboxes was there before, and is not the message taken.
<1>5. \A d \in Contexts : \A i \in DOMAIN inbox'[d] :
        \E j \in DOMAIN inbox[d] : inbox'[d][i] = inbox[d][j] /\ (IF d = c THEN j = i + 1 ELSE j = i)
  <2> SUFFICES ASSUME NEW d \in Contexts, NEW i \in DOMAIN inbox'[d]
               PROVE  \E j \in DOMAIN inbox[d] : inbox'[d][i] = inbox[d][j] /\ (IF d = c THEN j = i + 1 ELSE j = i)
    OBVIOUS
  <2>1. CASE d = c
    <3>1. inbox'[d] = Tail(inbox[c])
      BY <1>1, <1>2, <2>1 DEF TypeOK
    <3> QED BY <1>1, <1>2, <2>1, <3>1, HeadOfInbox
  <2>2. CASE d # c
    <3>1. inbox'[d] = inbox[d]
      BY <1>1, <1>2, <2>2 DEF TypeOK
    <3> QED BY <2>2, <3>1
  <2> QED BY <2>1, <2>2
\* So requests stay in order.
<1>6. ASSUME NEW p \in Producers, NEW d \in Contexts, NEW i \in DOMAIN inbox'[d],
             inbox'[d][i].kind = "create", inbox'[d][i].to = p
      PROVE  /\ Asked(p)' /\ (i # 1 => gen[p] = "none") /\ Home[p] = d
             /\ \A j \in DOMAIN inbox'[d] : inbox'[d][j].kind = "create" /\ inbox'[d][j].to = p => i = j
  <2>1. PICK k \in DOMAIN inbox[d] : inbox'[d][i] = inbox[d][k] /\ (IF d = c THEN k = i + 1 ELSE k = i)
    BY <1>5, <1>6
  <2>2. /\ Asked(p) /\ (k # 1 => gen[p] = "none") /\ Home[p] = d
        /\ \A j \in DOMAIN inbox[d] : inbox[d][j].kind = "create" /\ inbox[d][j].to = p => k = j
    BY <1>6, <2>1 DEF MInv, RequestsInOrder
  <2>3. i \in Nat \ {0}
    <3>1. inbox'[d] \in Seq(Request)
      BY <1>1 DEF TypeOK
    <3> QED BY <3>1
  <2>4. \A j \in DOMAIN inbox'[d] : inbox'[d][j].kind = "create" /\ inbox'[d][j].to = p => i = j
    <3>1. SUFFICES ASSUME NEW j \in DOMAIN inbox'[d], inbox'[d][j].kind = "create", inbox'[d][j].to = p
                   PROVE  i = j
      OBVIOUS
    <3>2. PICK l \in DOMAIN inbox[d] : inbox'[d][j] = inbox[d][l] /\ (IF d = c THEN l = j + 1 ELSE l = j)
      BY <1>5
    <3>3. k = l
      BY <2>2, <3>1, <3>2
    <3>4. j \in Nat
      <4>1. inbox'[d] \in Seq(Request)
        BY <1>1 DEF TypeOK
      <4> QED BY <4>1
    <3> QED BY <2>1, <2>3, <3>2, <3>3, <3>4
  <2>5. i # 1 => k # 1
    BY <2>1, <2>3
  <2> QED BY <1>3, <2>2, <2>4, <2>5
<1>7. RequestsInOrder'
  BY <1>2, <1>6 DEF RequestsInOrder
<1> QED
  BY <1>1, <1>2, <1>3, <1>7
     DEF MInv, GeneratorsInOrder, TasksInOrder, HeapInOrder, NoneOvertaken, OutputLater, Passed, Ended

LEMMA MInvContext == ASSUME NEW c \in Contexts, MInv, Context(c) PROVE MInv'
<1>1. TypeOK /\ TypeOK'
  BY TypeContext DEF MInv
<1>2. CASE ProcessEvent(c) \/ (AnswerStream(c) /\ sync # "panicked")
  BY <1>2, MInvPop
<1>3. CASE (AnswerStream(c) /\ sync = "panicked") \/ (CreateStream(c) /\ loop = "over")
  <2>1. UNCHANGED <<sync, turn, gen, produced, channel, heap, tasks, inbox, output>>
    BY <1>3 DEF AnswerStream, CreateStream, merging, sources
  <2> QED BY <1>1, <2>1, MInvFrame
<1>8. CASE CreateStream(c) /\ loop # "over"
  <2> DEFINE m == Head(inbox[c])
  <2>1. /\ m.kind = "create" /\ tasks' = Append(tasks, m.to) /\ gen' = [gen EXCEPT ![m.to] = "queued"]
        /\ inbox[c] # <<>> /\ gen[m.to] = "none"
        /\ UNCHANGED <<inbox, sync, turn, produced, channel, heap, output>>
    BY <1>8 DEF CreateStream, merging
  <2>1a. m \in Request /\ m = inbox[c][1] /\ 1 \in DOMAIN inbox[c] /\ m.to \in Producers
    BY <1>1, <2>1, HeadOfInbox, InboxTyped
  <2> HIDE DEF m
  <2>2. Asked(m.to) /\ Home[m.to] = c
    BY <2>1, <2>1a DEF MInv, RequestsInOrder
  <2>2a. \A p \in Producers : Asked(p)' = Asked(p) /\ Passed(p)' = Passed(p)
    BY <2>1 DEF Asked, Passed
  <2>3. \A p \in Producers : gen'[p] = IF p = m.to THEN "queued" ELSE gen[p]
    BY <1>1, <2>1 DEF TypeOK
  <2>4. GeneratorsInOrder'
    BY <2>1, <2>1a, <2>2, <2>2a, <2>3 DEF MInv, GeneratorsInOrder
  <2>5. RequestsInOrder'
    <3>1. ASSUME NEW d \in Contexts, NEW i \in DOMAIN inbox[d], i # 1,
                 inbox[d][i].kind = "create", inbox[d][i].to = m.to
          PROVE  FALSE
      <4>1. Home[m.to] = d
        BY <2>1a, <3>1 DEF MInv, RequestsInOrder
      <4>2. i = 1
        BY <2>1, <2>1a, <2>2, <3>1, <4>1 DEF MInv, RequestsInOrder
      <4> QED BY <3>1, <4>2
    <3> QED BY <2>1, <2>2a, <2>3, <3>1 DEF MInv, RequestsInOrder
  <2>6. \A p \in Producers : Ended(p) => Ended(p)'
    BY <2>1, <2>3 DEF Ended
  <2>7. TasksInOrder'
    <3>1. tasks \in Seq(Producers \cup {0}) /\ m.to # 0
      BY <1>1, <2>1a, ProducersAre DEF TypeOK
    <3>2. \A i \in DOMAIN tasks : tasks[i] \in Producers \cup {0} /\ tasks[i] # m.to
      BY <2>1, <3>1 DEF MInv, TasksInOrder
    <3>3. \A i \in DOMAIN tasks' :
            \/ i \in DOMAIN tasks /\ tasks'[i] = tasks[i]
            \/ i = Len(tasks) + 1 /\ tasks'[i] = m.to
      BY <2>1, <3>1
    <3> QED
      BY <2>1, <2>1a, <2>3, <3>1, <3>2, <3>3 DEF MInv, TasksInOrder
  <2> QED
    BY <1>1, <2>1, <2>2a, <2>4, <2>5, <2>6, <2>7 DEF MInv, HeapInOrder, NoneOvertaken, OutputLater, Passed
<1> QED
  BY <1>2, <1>3, <1>8 DEF Context

LEMMA MInvGenerator == ASSUME NEW k \in Producers, MInv, Generator(k) PROVE MInv'
<1>1. TypeOK /\ TypeOK'
  BY TypeGenerator DEF MInv
<1>2. gen[k] = "running" /\ UNCHANGED <<tasks, sync, turn, heap, inbox, output>>
  BY DEF Generator, SendEvent, GeneratorEnds, merging, contexts
<1>3. \A p \in Producers : Asked(p)' = Asked(p) /\ Passed(p)' = Passed(p)
  BY <1>2 DEF Asked, Passed
<1>4. CASE SendEvent(k)
  <2>1. gen' = gen
    BY <1>4 DEF SendEvent
  <2>2. /\ produced'[k] = produced[k] + 1
        /\ \A q \in Producers \ {k} : channel'[q] = channel[q] /\ produced'[q] = produced[q]
    BY <1>1, <1>4, SendEventIs
  <2>3. produced[k] \in Nat
    BY <1>1 DEF TypeOK
  <2>4. GeneratorsInOrder'
    BY <1>2, <1>3, <2>1, <2>2, <2>3 DEF MInv, GeneratorsInOrder
  <2>5. \A p \in Producers : Ended(p) => Ended(p)'
    BY <1>2, <2>1, <2>2 DEF Ended
  <2>6. HeapInOrder'
    BY <1>1, <1>2, <1>3, <2>2, <2>3 DEF MInv, HeapInOrder, TypeOK, Event
  <2> QED
    BY <1>1, <1>2, <1>3, <2>1, <2>4, <2>5, <2>6
       DEF MInv, TasksInOrder, RequestsInOrder, NoneOvertaken, OutputLater
<1>5. CASE GeneratorEnds(k)
  <2>1. /\ UNCHANGED <<produced, channel>>
        /\ \A p \in Producers \ {k} : gen'[p] = gen[p]
        /\ \/ gen'[k] = "done" /\ produced[k] = Len(Events[k])
           \/ gen'[k] = "panicked" /\ sync = "panicked"
    BY <1>1, <1>5 DEF GeneratorEnds, GivenUp, TypeOK
  <2>2. GeneratorsInOrder'
    BY <1>2, <1>3, <2>1 DEF MInv, GeneratorsInOrder
  <2>3. \A p \in Producers : Ended(p) => Ended(p)'
    BY <1>2, <2>1 DEF Ended
  <2>4. TasksInOrder'
    <3>1. \A i \in DOMAIN tasks : tasks[i] \in Producers \cup {0}
      BY <1>1 DEF TypeOK
    <3> QED BY <1>2, <2>1, <3>1 DEF MInv, TasksInOrder
  <2>5. RequestsInOrder'
    BY <1>2, <1>3, <2>1 DEF MInv, RequestsInOrder
  <2> QED
    BY <1>1, <1>2, <1>3, <2>1, <2>2, <2>3, <2>4, <2>5
       DEF MInv, HeapInOrder, NoneOvertaken, OutputLater, Passed
<1> QED
  BY <1>4, <1>5 DEF Generator

LEMMA MInvStep == MInv /\ [Next]_vars => MInv'
<1> SUFFICES ASSUME MInv, [Next]_vars PROVE MInv'
  OBVIOUS
<1>1. TypeOK'
  BY TypeStep DEF MInv
<1>2. CASE UNCHANGED vars \/ Interrupt \/ NoTask \/ NoSignal
  <2>1. UNCHANGED <<sync, turn, gen, produced, channel, heap, tasks, inbox, output>>
    BY <1>2 DEF vars, looping, merging, sources, contexts, Interrupt, NoTask, NoSignal
  <2> QED BY <1>1, <2>1, MInvFrame
<1> QED
  BY <1>2, MInvLaunch, MInvSpawn, MInvBreak, MInvAsk, MInvAskNobody, MInvMoves, MInvEvent, MInvChoose, MInvContext,
     MInvGenerator DEF Next, Loop, Merger, BreakOnSignal, BreakOnNone

------------------------------------------------------------------------------
(***************************************************************************)
(* Every step is one of Merge's, or a stutter.                             *)
(***************************************************************************)

Rest(p) == SubSeq(Events[p], produced[p] + 1, Len(Events[p]))

LEMMA RestTyped ==
  ASSUME NEW p \in Producers, TypeOK
  PROVE  /\ Rest(p) \in Seq(Nat) /\ channel[p] \in Seq(Nat)
         /\ produced[p] = Len(Events[p]) => Rest(p) = <<>>
BY ProducersAre, SubSeqProperties, SubSeqEmpty DEF TypeOK, Rest

\* An event in front of two sequences.
LEMMA ConsSeq ==
  ASSUME NEW e \in Nat, NEW c \in Seq(Nat), NEW r \in Seq(Nat)
  PROVE  /\ <<e>> \o c \o r # <<>> /\ Head(<<e>> \o c \o r) = e
         /\ Tail(<<e>> \o c \o r) = <<>> \o c \o r
<1>1. <<e>> \in Seq(Nat) /\ Len(<<e>>) = 1 /\ <<e>>[1] = e
  OBVIOUS
<1>2. <<e>> \o c \o r = <<e>> \o (c \o r) /\ <<>> \o c = c /\ c \o r \in Seq(Nat)
  BY <1>1, ConcatAssociative, ConcatEmptySeq, ConcatProperties
<1> DEFINE t == c \o r
           s == <<e>> \o t
<1> HIDE DEF t
<1>3. /\ s \in Seq(Nat) /\ Len(s) = 1 + Len(t) /\ t \in Seq(Nat)
      /\ \A i \in 1 .. Len(s) : s[i] = IF i <= 1 THEN e ELSE t[i - 1]
  BY <1>1, <1>2, ConcatProperties DEF t
<1> HIDE DEF s
<1>4. s # <<>> /\ Head(s) = e /\ Tail(s) \in Seq(Nat) /\ Len(Tail(s)) = Len(t)
      /\ \A i \in 1 .. Len(Tail(s)) : Tail(s)[i] = t[i]
  BY <1>3, HeadTailProperties
<1>5. Tail(s) = t
  BY <1>3, <1>4, SeqEqual
<1> QED
  BY <1>2, <1>4, <1>5 DEF s, t

\* What InHeap is: the one event of p in the heap, if there is one.
LEMMA InHeapIs ==
  ASSUME MInv, NEW p \in Producers
  PROVE  /\ \A h \in heap : h.from = p => InHeap(p) = <<h.event>> /\ h.event \in Nat
         /\ (\A h \in heap : h.from # p) => InHeap(p) = <<>>
<1>1. ASSUME NEW h \in heap, h.from = p PROVE InHeap(p) = <<h.event>> /\ h.event \in Nat
  <2>1. {g \in heap : g.from = p} = {h}
    BY <1>1 DEF MInv, HeapInOrder
  <2>2. InHeap(p) = <<(CHOOSE g \in {h} : TRUE).event>>
    BY <2>1 DEF InHeap, OneEvent
  <2>3. (CHOOSE g \in {h} : TRUE) = h
    OBVIOUS
  <2> QED BY <2>2, <2>3 DEF MInv, TypeOK, Event
<1>2. (\A h \in heap : h.from # p) => InHeap(p) = <<>>
  BY DEF InHeap, OneEvent
<1> QED BY <1>1, <1>2

\* A stream is left alone by steps that do not touch its events.
LEMMA LeftStays ==
  ASSUME NEW p \in Producers, Lost(p)' <=> Lost(p),
         {h \in heap' : h.from = p} = {h \in heap : h.from = p},
         channel'[p] = channel[p], produced'[p] = produced[p]
  PROVE  Left(p)' = Left(p)
<1>1. InHeap(p)' = InHeap(p)
  BY DEF InHeap
<1> QED BY <1>1 DEF Left

\* Stutters.
LEMMA StutterIs ==
  ASSUME output' = output, \A p \in Producers : Left(p)' = Left(p)
  PROVE  UNCHANGED <<[p \in Producers |-> Left(p)], output>>
OBVIOUS

\* Streams may be lost as long as nothing has come out.
LEMMA LoseIs ==
  ASSUME output = <<>>, output' = output,
         \A p \in Producers : Lost(p)' \/ Left(p)' = Left(p)
  PROVE  M!Next
<1> DEFINE S == {p \in Producers : Lost(p)'}
<1>1. \A p \in S : Left(p)' = <<>>
  BY DEF Left
<1>2. M!Lose(S)
  BY <1>1 DEF M!Lose, M!Producers, Producers
<1>3. S \in SUBSET M!Producers
  BY DEF M!Producers, Producers
<1> QED BY <1>2, <1>3 DEF M!Next

\* A step with the variables of the mapping unchanged, but that of background_task.
LEMMA MergeFrame ==
  ASSUME UNCHANGED <<channel, produced, heap, output>>, MInv,
         \A p \in Producers : Lost(p)' <=> Lost(p)
  PROVE  UNCHANGED <<[p \in Producers |-> Left(p)], output>>
<1>1. \A p \in Producers : Left(p)' = Left(p)
  BY LeftStays
<1> QED BY <1>1, StutterIs

LEMMA MergeLoop ==
  ASSUME MInv, Launch \/ Interrupt \/ Loop
  PROVE  M!Next \/ UNCHANGED <<[p \in Producers |-> Left(p)], output>>
<1>1. TypeOK /\ UNCHANGED <<channel, produced, heap, output>>
  BY DEF MInv, Launch, Interrupt, Loop, SpawnLocal, NoTask, NoSignal, BreakOnSignal, BreakOnNone, Break,
         merging, sources, contexts
<1>2. CASE Launch
  <2>1. output = <<>> /\ sync' \in {"queued", "aborted"} /\ sync = "unborn" /\ gen' = gen
    BY <1>2 DEF Launch, MInv, OutputLater, sources
  <2>2. CASE sync' = "queued"
    BY <1>1, <2>1, <2>2, MergeFrame DEF Lost
  <2>3. CASE sync' = "aborted"
    BY <1>1, <2>1, <2>3, LoseIs DEF Lost
  <2> QED BY <2>1, <2>2, <2>3
<1>3. CASE Interrupt \/ NoTask \/ NoSignal
  BY <1>1, <1>3, MergeFrame DEF Lost, Interrupt, NoTask, NoSignal, merging, sources
<1>4. CASE SpawnLocal
  <2>1. 1 \in DOMAIN tasks /\ Head(tasks) = tasks[1]
    BY <1>1, <1>4 DEF SpawnLocal, TypeOK
  <2>2. \/ sync = "queued" /\ sync' = "ask" /\ gen' = gen
        \/ sync' = sync /\ gen[Head(tasks)] = "queued" /\ gen' = [gen EXCEPT ![Head(tasks)] = "running"]
    BY <1>4, <2>1 DEF SpawnLocal, MInv, TasksInOrder
  <2>3. \A p \in Producers : Lost(p)' <=> Lost(p)
    BY <1>1, <2>2 DEF Lost, TypeOK
  <2> QED BY <1>1, <2>3, MergeFrame
<1>5. CASE Break
  <2>1. CASE output = <<>>
    <3>1. \A p \in Producers : Lost(p) => Lost(p)'
      BY <1>5 DEF Break, Lost, MInv, TasksInOrder
    <3>2. ASSUME NEW p \in Producers PROVE Lost(p)' \/ Left(p)' = Left(p)
      <4>1. CASE Lost(p)'
        BY <4>1
      <4>2. CASE ~ Lost(p)'
        BY <1>1, <3>1, <4>2, LeftStays
      <4> QED BY <4>1, <4>2
    <3> QED BY <1>1, <2>1, <3>2, LoseIs
  <2>2. CASE output # <<>>
    <3>1. sync \in {"choose", "next", "done"}
      BY <2>2 DEF MInv, OutputLater
    <3>2. \A p \in Producers : gen[p] # "queued"
      BY <3>1 DEF MInv, GeneratorsInOrder, Passed
    <3>3. \A i \in DOMAIN tasks : FALSE
      <4> SUFFICES ASSUME NEW i \in DOMAIN tasks PROVE FALSE
        OBVIOUS
      <4>1. tasks[i] \in Producers \cup {0}
        BY <1>1 DEF TypeOK
      <4>2. tasks[i] # 0 /\ gen[tasks[i]] = "queued"
        BY <3>1 DEF MInv, TasksInOrder
      <4> QED BY <3>2, <4>1, <4>2
    <3>4. sync' = sync /\ \A p \in Producers : gen'[p] = gen[p]
      BY <1>5, <3>3 DEF Break
    <3> QED BY <1>1, <3>4, MergeFrame DEF Lost
  <2> QED BY <2>1, <2>2
<1> QED
  BY <1>2, <1>3, <1>4, <1>5 DEF Loop, BreakOnSignal, BreakOnNone

\* The event that is chosen is the largest of the first ones of all streams.
LEMMA MergeChoose ==
  ASSUME MInv, Choose
  PROVE  M!Next
<1>1. TypeOK /\ sync = "choose" /\ sync' = "next" /\ UNCHANGED <<gen, produced, channel>>
  BY DEF MInv, Choose, sources
<1>2. PICK h \in heap : Pops(h) /\ heap' = heap \ {h} /\ output' = Append(output, h)
  BY DEF Choose
<1>3. PICK p \in Producers : p = h.from /\ h.event \in Nat /\ h = [from |-> p, event |-> h.event]
  BY <1>1 DEF TypeOK, Event
<1>4. \A q \in Producers : Passed(q)
  BY <1>1 DEF Passed
<1>5. \A q \in Producers : Lost(q)' <=> Lost(q)
  BY <1>1 DEF Lost
<1>6. \A q \in Producers \ {p} : Left(q)' = Left(q)
  <2>1. \A q \in Producers \ {p} : {g \in heap' : g.from = q} = {g \in heap : g.from = q}
    BY <1>2, <1>3
  <2> QED BY <1>1, <1>5, <2>1, LeftStays
<1>7. /\ Left(p) = <<h.event>> \o channel[p] \o Rest(p)
      /\ Left(p)' = <<>> \o channel[p] \o Rest(p)
  <2>1. ~ Lost(p) /\ ~ Lost(p)'
    BY <1>1, <1>2, <1>3 DEF Lost, MInv, HeapInOrder, GeneratorsInOrder
  <2>2. InHeap(p) = <<h.event>>
    BY <1>2, <1>3, InHeapIs
  <2>3. InHeap(p)' = <<>>
    <3>1. \A g \in heap' : g.from # p
      BY <1>2, <1>3 DEF MInv, HeapInOrder
    <3> QED BY <3>1 DEF InHeap, OneEvent
  <2> QED BY <1>1, <2>1, <2>2, <2>3 DEF Left, Rest
<1>8. Left(p) # <<>> /\ Head(Left(p)) = h.event /\ Left(p)' = Tail(Left(p))
  <2>1. channel[p] \in Seq(Nat) /\ Rest(p) \in Seq(Nat)
    BY <1>1, <1>3, RestTyped
  <2>2. LET all == <<h.event>> \o channel[p] \o Rest(p)
        IN  all # <<>> /\ Head(all) = h.event /\ Tail(all) = <<>> \o channel[p] \o Rest(p)
    BY <1>3, <2>1, ConsSeq
  <2> QED BY <1>7, <2>2, Zenon
<1>9. ASSUME NEW q \in Producers, Left(q) # <<>> PROVE Head(Left(q)) <= h.event
  <2>1. channel[q] \in Seq(Nat) /\ Rest(q) \in Seq(Nat) /\ ~ Lost(q)
    BY <1>1, <1>9, RestTyped DEF Left
  <2>2. CASE \E g \in heap : g.from = q
    <3>1. PICK g \in heap : g.from = q
      BY <2>2
    <3>2. InHeap(q) = <<g.event>> /\ g.event \in Nat /\ g.event <= h.event
      BY <1>2, <3>1, InHeapIs DEF Pops
    <3>3. Left(q) = <<g.event>> \o channel[q] \o Rest(q)
      BY <2>1, <3>2 DEF Left, Rest
    <3>4. Head(Left(q)) = g.event
      BY <2>1, <3>2, <3>3
    <3> QED BY <3>2, <3>4
  <2>3. CASE ~ \E g \in heap : g.from = q
    <3>1. Ended(q) /\ InHeap(q) = <<>>
      BY <1>1, <1>4, <2>3, InHeapIs DEF MInv, NoneOvertaken
    <3>2. gen[q] = "done" /\ channel[q] = <<>>
      BY <2>1, <3>1 DEF Ended, Lost
    <3>3. Rest(q) = <<>>
      BY <1>1, <3>2, RestTyped DEF MInv, GeneratorsInOrder
    <3>4. Left(q) = <<>>
      BY <2>1, <3>1, <3>2, <3>3 DEF Left, Rest
    <3> QED BY <1>9, <3>4
  <2> QED BY <2>2, <2>3
<1>10. M!Emit(p)
  <2> DEFINE L == [q \in Producers |-> Left(q)]
  <2>1. L' = [L EXCEPT ![p] = Tail(@)]
    BY <1>3, <1>6, <1>8
  <2>2. output' = Append(output, [from |-> p, event |-> Head(L[p])])
    BY <1>2, <1>3, <1>8
  <2> QED
    BY <1>3, <1>8, <1>9, <2>1, <2>2 DEF M!Emit, M!Producers, Producers
<1> QED
  BY <1>3, <1>10 DEF M!Next, M!Producers, Producers

\* Taking an event moves it from the channel to the heap, within its stream.
LEMMA MergeEvent ==
  ASSUME MInv, FirstEvent \/ NextEvent
  PROVE  UNCHANGED <<[p \in Producers |-> Left(p)], output>>
<1>1. /\ TypeOK /\ turn \in Producers /\ UNCHANGED <<gen, produced, output>>
      /\ sync \in {"first", "next"} /\ sync' \in {"await", "choose"}
      /\ TakeEvent(turn) \/ EndOfStream(turn)
  BY DEF MInv, TypeOK, FirstEvent, NextEvent, AwaitFrom, sources
<1>2. \A p \in Producers : Lost(p)' <=> Lost(p)
  BY <1>1 DEF Lost
<1>3. PICK k \in Producers : k = turn
  BY <1>1
<1>4. CASE EndOfStream(k)
  BY <1>1, <1>2, <1>4, MergeFrame DEF EndOfStream
<1>5. CASE TakeEvent(k)
  <2> DEFINE e == [from |-> k, event |-> Head(channel[k])]
  <2>1. /\ channel[k] # <<>> /\ channel[k] \in Seq(Nat) /\ channel'[k] = Tail(channel[k])
        /\ heap' = heap \cup {e} /\ \A q \in Producers \ {k} : channel'[q] = channel[q]
    BY <1>1, <1>5, TakeEventIs DEF TypeOK
  <2>2. ASSUME NEW q \in Producers \ {k} PROVE Left(q)' = Left(q)
    <3>1. {h \in heap' : h.from = q} = {h \in heap : h.from = q}
      BY <2>1, <2>2
    <3> QED BY <1>1, <1>2, <2>1, <3>1, LeftStays
  <2>3. \A h \in heap : h.from # k
    <3>1. sync = "first" => ~ Passed(k)
      BY <1>1, <1>3, ProducersAre DEF Passed
    <3> QED BY <1>1, <1>3, <3>1 DEF MInv, HeapInOrder
  <2>4. InHeap(k) = <<>>
    BY <2>3 DEF InHeap, OneEvent
  <2>5. InHeap(k)' = <<Head(channel[k])>>
    <3>1. {h \in heap' : h.from = k} = {e}
      BY <2>1, <2>3
    <3>2. (CHOOSE h \in {e} : TRUE) = e
      OBVIOUS
    <3> QED BY <3>1, <3>2 DEF InHeap, OneEvent
  <2>6. <<>> \o channel[k] = <<Head(channel[k])>> \o Tail(channel[k])
    <3>1. Head(channel[k]) \in Nat /\ Tail(channel[k]) \in Seq(Nat)
      BY <2>1, HeadTailProperties
    <3> DEFINE s == <<Head(channel[k])>> \o Tail(channel[k])
    <3>2. /\ s \in Seq(Nat) /\ Len(s) = Len(channel[k])
          /\ \A i \in 1 .. Len(s) : s[i] = channel[k][i]
      BY <2>1, <3>1, HeadTailProperties, ConcatProperties
    <3> HIDE DEF s
    <3>3. s = channel[k]
      BY <2>1, <3>2, SeqEqual
    <3> QED BY <2>1, <3>3, ConcatEmptySeq DEF s
  <2>7. Left(k)' = Left(k)
    BY <1>1, <1>2, <2>1, <2>4, <2>5, <2>6 DEF Left
  <2> QED BY <1>1, <2>2, <2>7, StutterIs
<1> QED BY <1>1, <1>3, <1>4, <1>5

LEMMA MergeMerger ==
  ASSUME MInv, Merger
  PROVE  M!Next \/ UNCHANGED <<[p \in Producers |-> Left(p)], output>>
<1>1. CASE Ask \/ AllAsked \/ TakeStream \/ Finish
  <2>1. UNCHANGED <<gen, produced, channel, heap, output>>
    BY <1>1 DEF Ask, AllAsked, TakeStream, Finish, sources
  <2>2. \A p \in Producers : Lost(p)' <=> Lost(p)
    BY <1>1, <2>1 DEF Ask, AllAsked, AwaitFrom, TakeStream, Finish, Lost
  <2> QED BY <2>1, <2>2, MergeFrame
<1>2. CASE NoStream \/ AskNobody
  <2>1. output = <<>> /\ output' = output /\ sync' \in {"panicked", "aborted"}
    BY <1>2 DEF NoStream, AskNobody, MInv, OutputLater
  <2> QED BY <2>1, LoseIs DEF Lost
<1> QED
  BY <1>1, <1>2, MergeChoose, MergeEvent DEF Merger

LEMMA MergeContext ==
  ASSUME NEW c \in Contexts, MInv, Context(c)
  PROVE  UNCHANGED <<[p \in Producers |-> Left(p)], output>>
<1>1. TypeOK /\ UNCHANGED <<sync, produced, channel, heap, output>>
  BY DEF MInv, Context, CreateStream, AnswerStream, ProcessEvent, merging, sources
<1>2. CASE UNCHANGED gen
  BY <1>1, <1>2, MergeFrame DEF Lost
<1>3. CASE CreateStream(c) /\ loop # "over"
  <2>1. gen' = [gen EXCEPT ![Head(inbox[c]).to] = "queued"]
    BY <1>3 DEF CreateStream
  <2>2. gen[Head(inbox[c]).to] = "none"
    BY <1>3 DEF CreateStream
  <2>3. \A p \in Producers : Lost(p)' <=> Lost(p)
    BY <1>1, <2>1, <2>2 DEF Lost, TypeOK
  <2> QED BY <1>1, <2>3, MergeFrame
<1> QED
  BY <1>2, <1>3 DEF Context, CreateStream, AnswerStream, ProcessEvent, sources

LEMMA AppendMoves ==
  ASSUME NEW c \in Seq(Nat), NEW r \in Seq(Nat), NEW e \in Nat
  PROVE  c \o (<<e>> \o r) = Append(c, e) \o r
OBVIOUS

\* Between two sequences, the first event of the second ends the first.
LEMMA AppendInside ==
  ASSUME NEW f \in Seq(Nat), NEW c \in Seq(Nat), NEW r \in Seq(Nat), NEW e \in Nat
  PROVE  f \o c \o (<<e>> \o r) = f \o Append(c, e) \o r
<1> DEFINE s == <<e>> \o r
           a == Append(c, e)
<1>1. s \in Seq(Nat) /\ a \in Seq(Nat)
  OBVIOUS
<1>2. c \o s = a \o r
  BY AppendMoves
<1> HIDE DEF s, a
<1>3. (f \o c) \o s = f \o (c \o s)
  BY <1>1
<1>4. (f \o a) \o r = f \o (a \o r)
  BY <1>1
<1> QED BY <1>2, <1>3, <1>4 DEF s, a

\* What a generator sends moves from what it has not sent to the channel.
LEMMA MergeGenerator ==
  ASSUME NEW k \in Producers, MInv, Generator(k)
  PROVE  UNCHANGED <<[p \in Producers |-> Left(p)], output>>
<1>1. TypeOK /\ gen[k] = "running" /\ UNCHANGED <<sync, heap, output>>
  BY DEF MInv, Generator, SendEvent, GeneratorEnds, merging
<1>2. CASE GeneratorEnds(k)
  <2>1. UNCHANGED <<channel, produced>> /\ \A p \in Producers : Lost(p)' <=> Lost(p)
    BY <1>1, <1>2 DEF GeneratorEnds, Lost, TypeOK
  <2> QED BY <1>1, <2>1, MergeFrame
<1>3. CASE SendEvent(k)
  <2>1. gen' = gen /\ \A p \in Producers : Lost(p)' <=> Lost(p)
    BY <1>1, <1>3 DEF SendEvent, Lost
  <2> DEFINE n == produced[k] + 1
             e == Events[k][n]
  <2>2. /\ n \in 1 .. Len(Events[k]) /\ channel'[k] = Append(channel[k], e) /\ produced'[k] = n
        /\ \A q \in Producers \ {k} : channel'[q] = channel[q] /\ produced'[q] = produced[q]
    BY <1>1, <1>3, SendEventIs
  <2>3. ASSUME NEW q \in Producers \ {k} PROVE Left(q)' = Left(q)
    BY <1>1, <2>1, <2>2, <2>3, LeftStays
  <2>4. InHeap(k)' = InHeap(k) /\ InHeap(k) \in Seq(Nat)
    <3>1. InHeap(k)' = InHeap(k)
      BY <1>1 DEF InHeap
    <3>2. CASE \E h \in heap : h.from = k
      <4>1. PICK h \in heap : h.from = k
        BY <3>2
      <4>2. InHeap(k) = <<h.event>> /\ h.event \in Nat
        BY <4>1, InHeapIs
      <4>3. <<h.event>> \in Seq(Nat)
        BY <4>2
      <4> QED BY <3>1, <4>2, <4>3
    <3>3. CASE ~ \E h \in heap : h.from = k
      <4>1. InHeap(k) = <<>>
        BY <3>3, InHeapIs
      <4> QED BY <3>1, <4>1, EmptySeq
    <3> QED BY <3>2, <3>3
  <2>5. channel[k] \in Seq(Nat) /\ Events[k] \in Seq(Nat) /\ e \in Nat
    BY <1>1, <2>2, ProducersAre DEF TypeOK
  <2>6. /\ SubSeq(Events[k], n, Len(Events[k])) = <<e>> \o SubSeq(Events[k], n + 1, Len(Events[k]))
        /\ SubSeq(Events[k], n + 1, Len(Events[k])) \in Seq(Nat)
    <3>1. Len(Events[k]) \in n .. Len(Events[k]) /\ n \in Nat
      BY <2>2, ProducersAre
    <3>2. n + 1 \in Int /\ \A i \in n + 1 .. Len(Events[k]) : Events[k][i] \in Nat
      BY <2>2, ProducersAre
    <3>3. SubSeq(Events[k], n + 1, Len(Events[k])) \in Seq(Nat)
      BY <3>1, <3>2, SubSeqProperties
    <3>4. SubSeq(Events[k], n, Len(Events[k])) = <<e>> \o SubSeq(Events[k], n + 1, Len(Events[k]))
      BY <2>2, <2>5, <3>1, SubSeqRecursiveFirst
    <3> QED BY <3>3, <3>4
  <2>7. Left(k)' = Left(k)
    <3> DEFINE r == SubSeq(Events[k], n + 1, Len(Events[k]))
               f == InHeap(k)
    <3>1. f \o channel[k] \o (<<e>> \o r) = f \o Append(channel[k], e) \o r
      <4>1. f \in Seq(Nat) /\ channel[k] \in Seq(Nat) /\ r \in Seq(Nat) /\ e \in Nat
        BY <2>4, <2>5, <2>6
      <4> HIDE DEF f, r, e
      <4> QED BY ONLY <4>1, AppendInside
    <3>2. CASE Lost(k)
      BY <2>1, <3>2 DEF Left
    <3>3. CASE ~ Lost(k)
      <4>1. Left(k) = f \o channel[k] \o (<<e>> \o r)
        BY <2>6, <3>3 DEF Left
      <4>2. Left(k)' = f \o Append(channel[k], e) \o r
        BY <2>1, <2>2, <2>4, <3>3 DEF Left
      <4> QED BY <3>1, <4>1, <4>2
    <3> QED BY <3>2, <3>3
  <2> QED BY <1>1, <2>3, <2>7, StutterIs
<1> QED
  BY <1>2, <1>3 DEF Generator

\* The synchronizer merges: with all its queues and awaits, each event it sends
\* is the greatest of the first ones of all streams that have not ended, and an
\* interrupt takes nothing from a replay that has begun (synchronizer.rs:59-125,
\* tokio_wrapper.rs:42-69).
THEOREM ReplayImplementsMerge == Spec => ImplementsMerge
<1>1. Init => M!Init
  <2> SUFFICES ASSUME Init PROVE M!Init
    OBVIOUS
  <2>1. ASSUME NEW p \in Producers PROVE Left(p) = Events[p]
    <3>1. InHeap(p) = <<>> /\ channel[p] = <<>> /\ produced[p] = 0 /\ ~ Lost(p)
      BY DEF Init, InHeap, OneEvent, Lost
    <3>2. SubSeq(Events[p], 1, Len(Events[p])) = Events[p]
      BY ProducersAre, SubSeqFull
    <3>3. <<>> \o <<>> \o Events[p] = Events[p]
      BY ProducersAre, EmptySeq, ConcatEmptySeq
    <3> QED BY <3>1, <3>2, <3>3 DEF Left
  <2>2. Events = [p \in Producers |-> Events[p]]
    BY EventsAssumption DEF Producers
  <2> QED BY <2>1, <2>2 DEF M!Init, Init
<1>2. MInv /\ [Next]_vars => [M!Next]_<<[p \in Producers |-> Left(p)], output>>
  <2> SUFFICES ASSUME MInv, [Next]_vars
               PROVE  M!Next \/ UNCHANGED <<[p \in Producers |-> Left(p)], output>>
    OBVIOUS
  <2>1. CASE UNCHANGED vars
    BY <2>1, MergeFrame DEF vars, merging, sources, Lost
  <2> QED
    BY <2>1, MergeLoop, MergeMerger, MergeContext, MergeGenerator DEF Next
<1> QED
  BY <1>1, <1>2, MInvInit, MInvStep, PTL DEF Spec, ImplementsMerge, M!Spec

------------------------------------------------------------------------------
(***************************************************************************)
(* Nothing is lost on the way.  The events of a producer are, one after    *)
(* the other: those it processed, those in its context's inbox, the one in *)
(* the heap, those in its channel and those its generator has not sent.    *)
(* Where one part ends and the next begins is a number; a step moves an    *)
(* event over such a border.                                               *)
(***************************************************************************)
\* The places in a queue of the events for producer p.
Mine(q, p) == {i \in DOMAIN q : q[i].kind = "process" /\ q[i].to = p}

\* e lists the n numbers of S, each once, in increasing order.
Listing(e, S, n) ==
  /\ e \in [1 .. n -> S]
  /\ \A i, j \in 1 .. n : i < j => e[i] < e[j]
  /\ \A x \in S : \E i \in 1 .. n : e[i] = x

\* What queue q holds for producer p are n of its events, those after the first h.
Holds(q, p, h, n) ==
  \E e \in [1 .. n -> Mine(q, p)] :
    /\ Listing(e, Mine(q, p), n)
    /\ \A k \in 1 .. n : q[e[k]].event = Events[p][h + k]

\* How many events of producer p are in the heap.
Held(p) == IF \E g \in heap : g.from = p THEN 1 ELSE 0

\* How many it was given to process.
Given(p) == produced[p] - Len(channel[p]) - Held(p)

\* What is in each place between the generator of producer p and the handler.
Flow(p) ==
  /\ Given(p) - Len(handled[p]) \in Nat
  /\ \A i \in 1 .. Len(handled[p]) : handled[p][i] = Events[p][i]
  /\ Holds(inbox[Home[p]], p, Len(handled[p]), Given(p) - Len(handled[p]))
  /\ \A g \in heap : g.from = p => g.event = Events[p][Given(p) + 1]
  /\ \A i \in 1 .. Len(channel[p]) : channel[p][i] = Events[p][Given(p) + Held(p) + i]

\* Events are only sent to the context of their producer.
Routed ==
  \A c \in Contexts : \A i \in DOMAIN inbox[c] :
    inbox[c][i].kind = "process" => Home[inbox[c][i].to] = c

\* The inductive invariant.
FInv == MInv /\ Routed /\ \A p \in Producers : Flow(p)

\* What is at the places of a queue.
LEMMA MineIs ==
  ASSUME NEW q \in Seq(Request), NEW p
  PROVE  /\ Len(q) \in Nat /\ DOMAIN q = 1 .. Len(q)
         /\ \A x : x \in Mine(q, p) <=> x \in 1 .. Len(q) /\ q[x].kind = "process" /\ q[x].to = p
         /\ Mine(q, p) \subseteq 1 .. Len(q)
BY DEF Mine

\* A request that is not an event for p changes nothing for p when it is queued.
LEMMA HoldsAppendOther ==
  ASSUME NEW q \in Seq(Request), NEW r \in Request, NEW p, NEW h \in Nat, NEW n \in Nat,
         ~ (r.kind = "process" /\ r.to = p), Holds(q, p, h, n)
  PROVE  Holds(Append(q, r), p, h, n)
<1> DEFINE s == Append(q, r)
<1>1. /\ s \in Seq(Request) /\ Len(q) \in Nat /\ Len(s) = Len(q) + 1 /\ s[Len(q) + 1] = r
      /\ \A i \in 1 .. Len(q) : s[i] = q[i]
  BY AppendProperties
<1> HIDE DEF s
<1>2. Mine(s, p) = Mine(q, p)
  <2>1. ASSUME NEW x PROVE x \in Mine(s, p) <=> x \in Mine(q, p)
    <3>1. x \in 1 .. Len(s) <=> x \in 1 .. Len(q) \/ x = Len(q) + 1
      BY <1>1
    <3> QED BY <1>1, <3>1, MineIs
  <2> QED BY <2>1
<1>3. PICK e \in [1 .. n -> Mine(q, p)] :
        Listing(e, Mine(q, p), n) /\ \A k \in 1 .. n : q[e[k]].event = Events[p][h + k]
  BY DEF Holds
<1>4. \A k \in 1 .. n : s[e[k]] = q[e[k]]
  BY <1>1, <1>3, MineIs
<1>5. Holds(s, p, h, n)
  BY <1>2, <1>3, <1>4 DEF Holds
<1> QED BY <1>5 DEF s

\* The next event for p may be queued.
LEMMA HoldsAppendMine ==
  ASSUME NEW q \in Seq(Request), NEW r \in Request, NEW p, NEW h \in Nat, NEW n \in Nat,
         r.kind = "process" /\ r.to = p, r.event = Events[p][h + n + 1], Holds(q, p, h, n)
  PROVE  Holds(Append(q, r), p, h, n + 1)
<1> DEFINE s == Append(q, r)
<1>1. /\ s \in Seq(Request) /\ Len(q) \in Nat /\ Len(s) = Len(q) + 1 /\ s[Len(q) + 1] = r
      /\ \A i \in 1 .. Len(q) : s[i] = q[i]
  BY AppendProperties
<1> HIDE DEF s
<1>2. \A x : x \in Mine(s, p) <=> x \in Mine(q, p) \/ x = Len(q) + 1
  <2> TAKE x
  <2>1. x \in 1 .. Len(s) <=> x \in 1 .. Len(q) \/ x = Len(q) + 1
    BY <1>1
  <2> QED BY <1>1, <2>1, MineIs
<1>3. PICK e \in [1 .. n -> Mine(q, p)] :
        Listing(e, Mine(q, p), n) /\ \A k \in 1 .. n : q[e[k]].event = Events[p][h + k]
  BY DEF Holds
<1>4. \A k \in 1 .. n : e[k] \in Mine(q, p) /\ e[k] \in 1 .. Len(q) /\ s[e[k]] = q[e[k]]
  BY <1>1, <1>3, MineIs
<1> DEFINE f == [k \in 1 .. n + 1 |-> IF k = n + 1 THEN Len(q) + 1 ELSE e[k]]
<1>5. /\ f[n + 1] = Len(q) + 1 /\ \A k \in 1 .. n : f[k] = e[k]
      /\ f \in [1 .. n + 1 -> Mine(s, p)]
  <2>1. \A k \in 1 .. n + 1 : k = n + 1 \/ k \in 1 .. n
    OBVIOUS
  <2> QED BY <1>2, <1>4, <2>1
<1> HIDE DEF f
<1>6. Listing(f, Mine(s, p), n + 1)
  <2>1. ASSUME NEW i \in 1 .. n + 1, NEW j \in 1 .. n + 1, i < j PROVE f[i] < f[j]
    <3>1. i \in 1 .. n
      BY <2>1
    <3>2. CASE j = n + 1
      BY <1>1, <1>4, <1>5, <3>1, <3>2
    <3>3. CASE j \in 1 .. n
      BY <1>3, <1>5, <2>1, <3>1, <3>3 DEF Listing
    <3> QED BY <3>2, <3>3
  <2>2. ASSUME NEW x \in Mine(s, p) PROVE \E i \in 1 .. n + 1 : f[i] = x
    <3>1. CASE x = Len(q) + 1
      BY <1>5, <3>1
    <3>2. CASE x \in Mine(q, p)
      <4>1. PICK i \in 1 .. n : e[i] = x
        BY <1>3, <3>2 DEF Listing
      <4>2. i \in 1 .. n + 1 /\ f[i] = x
        BY <1>5, <4>1
      <4> QED BY <4>2
    <3> QED BY <1>2, <3>1, <3>2
  <2> QED BY <1>5, <2>1, <2>2 DEF Listing
<1>7. \A k \in 1 .. n + 1 : s[f[k]].event = Events[p][h + k]
  <2> TAKE k \in 1 .. n + 1
  <2>1. CASE k = n + 1
    <3>1. h + (n + 1) = h + n + 1
      OBVIOUS
    <3> QED BY <1>1, <1>5, <2>1, <3>1
  <2>2. CASE k \in 1 .. n
    BY <1>3, <1>4, <1>5, <2>2
  <2> QED BY <2>1, <2>2
<1>8. Holds(s, p, h, n + 1)
  BY <1>5, <1>6, <1>7 DEF Holds
<1> QED BY <1>8 DEF s

\* The rest of a queue, and the places in it.
LEMMA TailIs ==
  ASSUME NEW q \in Seq(Request), q # <<>>, NEW p
  PROVE  /\ Tail(q) \in Seq(Request) /\ Head(q) = q[1] /\ Len(q) \in Nat \ {0}
         /\ Len(Tail(q)) = Len(q) - 1
         /\ \A x \in Mine(Tail(q), p) : x \in Nat \ {0} /\ x + 1 \in Mine(q, p) /\ Tail(q)[x] = q[x + 1]
         /\ \A x \in Mine(q, p) : x # 1 => x - 1 \in Mine(Tail(q), p) /\ Tail(q)[x - 1] = q[x]
         /\ 1 \in Mine(q, p) <=> Head(q).kind = "process" /\ Head(q).to = p
<1> DEFINE t == Tail(q)
<1>1. /\ t \in Seq(Request) /\ Head(q) = q[1] /\ Len(q) \in Nat \ {0} /\ Len(t) = Len(q) - 1
      /\ \A i \in 1 .. Len(t) : t[i] = q[i + 1]
  BY HeadTailProperties
<1> HIDE DEF t
<1>2. ASSUME NEW x \in Mine(t, p) PROVE x \in Nat \ {0} /\ x + 1 \in Mine(q, p) /\ t[x] = q[x + 1]
  <2>1. x \in 1 .. Len(t) /\ t[x].kind = "process" /\ t[x].to = p
    BY <1>1, <1>2, MineIs
  <2>2. x + 1 \in 1 .. Len(q) /\ t[x] = q[x + 1] /\ x \in Nat \ {0}
    BY <1>1, <2>1
  <2> QED BY <2>1, <2>2, MineIs
<1>3. ASSUME NEW x \in Mine(q, p), x # 1 PROVE x - 1 \in Mine(t, p) /\ t[x - 1] = q[x]
  <2>1. x \in 1 .. Len(q) /\ q[x].kind = "process" /\ q[x].to = p
    BY <1>3, MineIs
  <2>2. x - 1 \in 1 .. Len(t) /\ (x - 1) + 1 = x
    BY <1>1, <1>3, <2>1
  <2>3. t[x - 1] = q[x]
    BY <1>1, <2>2
  <2> QED BY <1>1, <2>1, <2>2, <2>3, MineIs
<1>4. 1 \in Mine(q, p) <=> Head(q).kind = "process" /\ Head(q).to = p
  BY <1>1, MineIs
<1> QED BY <1>1, <1>2, <1>3, <1>4 DEF t

\* A request that is not an event for p changes nothing for p when it is taken.
LEMMA HoldsTailOther ==
  ASSUME NEW q \in Seq(Request), q # <<>>, NEW p, NEW h \in Nat, NEW n \in Nat,
         ~ (Head(q).kind = "process" /\ Head(q).to = p), Holds(q, p, h, n)
  PROVE  Holds(Tail(q), p, h, n)
<1> DEFINE t == Tail(q)
<1>1. /\ \A x \in Mine(t, p) : x \in Nat \ {0} /\ x + 1 \in Mine(q, p) /\ t[x] = q[x + 1]
      /\ \A x \in Mine(q, p) : x \in Int /\ x - 1 \in Mine(t, p) /\ t[x - 1] = q[x]
  BY TailIs, MineIs
<1> HIDE DEF t
<1>2. PICK e \in [1 .. n -> Mine(q, p)] :
        Listing(e, Mine(q, p), n) /\ \A k \in 1 .. n : q[e[k]].event = Events[p][h + k]
  BY DEF Holds
<1> DEFINE f == [k \in 1 .. n |-> e[k] - 1]
<1>3. f \in [1 .. n -> Mine(t, p)] /\ \A k \in 1 .. n : f[k] = e[k] - 1 /\ e[k] \in Mine(q, p)
  BY <1>1, <1>2
<1> HIDE DEF f
<1>4. Listing(f, Mine(t, p), n)
  <2>1. ASSUME NEW i \in 1 .. n, NEW j \in 1 .. n, i < j PROVE f[i] < f[j]
    <3>1. e[i] < e[j] /\ e[i] \in Int /\ e[j] \in Int
      BY <1>1, <1>2, <1>3, <2>1 DEF Listing
    <3> QED BY <1>3, <3>1
  <2>2. ASSUME NEW x \in Mine(t, p) PROVE \E i \in 1 .. n : f[i] = x
    <3>1. PICK i \in 1 .. n : e[i] = x + 1
      BY <1>1, <1>2, <2>2 DEF Listing
    <3>2. f[i] = x
      BY <1>1, <1>3, <2>2, <3>1
    <3> QED BY <3>2
  <2> QED BY <1>3, <2>1, <2>2 DEF Listing
<1>5. \A k \in 1 .. n : t[f[k]].event = Events[p][h + k]
  <2> TAKE k \in 1 .. n
  <2>1. t[f[k]] = q[e[k]]
    BY <1>1, <1>3
  <2> QED BY <1>2, <2>1
<1>6. Holds(t, p, h, n)
  BY <1>3, <1>4, <1>5 DEF Holds
<1> QED BY <1>6 DEF t

\* The first event for p in a queue is the next of its events.
LEMMA HoldsTailMine ==
  ASSUME NEW q \in Seq(Request), q # <<>>, NEW p, NEW h \in Nat, NEW n \in Nat,
         Head(q).kind = "process" /\ Head(q).to = p, Holds(q, p, h, n)
  PROVE  n # 0 /\ Head(q).event = Events[p][h + 1] /\ Holds(Tail(q), p, h + 1, n - 1)
<1> DEFINE t == Tail(q)
<1>1. /\ \A x \in Mine(t, p) : x \in Nat \ {0} /\ x + 1 \in Mine(q, p) /\ t[x] = q[x + 1]
      /\ \A x \in Mine(q, p) : x \in Nat \ {0} /\ (x # 1 => x - 1 \in Mine(t, p) /\ t[x - 1] = q[x])
      /\ 1 \in Mine(q, p) /\ Head(q) = q[1]
  BY TailIs, MineIs
<1> HIDE DEF t
<1>2. PICK e \in [1 .. n -> Mine(q, p)] :
        Listing(e, Mine(q, p), n) /\ \A k \in 1 .. n : q[e[k]].event = Events[p][h + k]
  BY DEF Holds
<1>3. /\ \A i, j \in 1 .. n : i < j => e[i] < e[j]
      /\ \A i \in 1 .. n : e[i] \in Mine(q, p) /\ e[i] \in Nat \ {0}
      /\ \A x \in Mine(q, p) : \E i \in 1 .. n : e[i] = x
  BY <1>1, <1>2 DEF Listing
<1>4. n # 0 /\ 1 \in 1 .. n /\ e[1] = 1
  <2>1. PICK i \in 1 .. n : e[i] = 1
    BY <1>1, <1>3
  <2>2. 1 \in 1 .. n
    BY <2>1
  <2>3. i = 1
    <3>1. CASE 1 < i
      <4>1. e[1] < 1
        BY <1>3, <2>1, <2>2, <3>1
      <4> QED BY <1>3, <2>2, <4>1
    <3> QED BY <2>1, <3>1
  <2> QED BY <2>1, <2>2, <2>3
<1>5. Head(q).event = Events[p][h + 1]
  BY <1>1, <1>2, <1>4
<1>6. \A k \in 1 .. n - 1 : k + 1 \in 1 .. n /\ e[k + 1] # 1
  <2> TAKE k \in 1 .. n - 1
  <2>1. k + 1 \in 1 .. n /\ 1 < k + 1
    OBVIOUS
  <2>2. e[1] < e[k + 1]
    BY <1>3, <1>4, <2>1
  <2> QED BY <1>3, <1>4, <2>1, <2>2
<1> DEFINE f == [k \in 1 .. n - 1 |-> e[k + 1] - 1]
<1>7. f \in [1 .. n - 1 -> Mine(t, p)] /\ \A k \in 1 .. n - 1 : f[k] = e[k + 1] - 1
  BY <1>1, <1>3, <1>6
<1> HIDE DEF f
<1>8. Listing(f, Mine(t, p), n - 1)
  <2>1. ASSUME NEW i \in 1 .. n - 1, NEW j \in 1 .. n - 1, i < j PROVE f[i] < f[j]
    <3>1. i + 1 \in 1 .. n /\ j + 1 \in 1 .. n /\ i + 1 < j + 1
      BY <2>1
    <3>2. e[i + 1] < e[j + 1] /\ e[i + 1] \in Nat /\ e[j + 1] \in Nat
      BY <1>3, <3>1
    <3> QED BY <1>7, <3>2
  <2>2. ASSUME NEW x \in Mine(t, p) PROVE \E i \in 1 .. n - 1 : f[i] = x
    <3>1. x \in Nat \ {0} /\ x + 1 \in Mine(q, p)
      BY <1>1, <2>2
    <3>2. PICK i \in 1 .. n : e[i] = x + 1
      BY <1>3, <3>1
    <3>3. i # 1
      BY <1>4, <3>1, <3>2
    <3>4. i - 1 \in 1 .. n - 1 /\ (i - 1) + 1 = i
      BY <3>2, <3>3
    <3>5. f[i - 1] = x
      BY <1>7, <3>1, <3>2, <3>4
    <3> QED BY <3>4, <3>5
  <2> QED BY <1>7, <2>1, <2>2 DEF Listing
<1>9. \A k \in 1 .. n - 1 : t[f[k]].event = Events[p][(h + 1) + k]
  <2> TAKE k \in 1 .. n - 1
  <2>1. t[f[k]] = q[e[k + 1]]
    BY <1>1, <1>3, <1>6, <1>7
  <2>2. h + (k + 1) = (h + 1) + k
    OBVIOUS
  <2> QED BY <1>2, <1>6, <2>1, <2>2
<1>10. Holds(t, p, h + 1, n - 1)
  BY <1>7, <1>8, <1>9 DEF Holds
<1> QED BY <1>4, <1>5, <1>10 DEF t

\* The k-th number of a set is the k-th that lists it.
LEMMA ListingIs ==
  ASSUME NEW S \in SUBSET Nat, NEW n \in Nat, NEW e, Listing(e, S, n)
  PROVE  Cardinality(S) = n /\ \A k \in 1 .. n : Nth(S, k) = e[k]
<1>1. /\ e \in [1 .. n -> S] /\ \A x \in S : \E i \in 1 .. n : e[i] = x
      /\ \A i, j \in 1 .. n : i < j => e[i] < e[j]
      /\ \A i \in 1 .. n : e[i] \in Nat
  BY DEF Listing
<1>2. \A i, j \in 1 .. n : e[i] = e[j] => i = j
  <2> SUFFICES ASSUME NEW i \in 1 .. n, NEW j \in 1 .. n, e[i] = e[j], i # j PROVE FALSE
    OBVIOUS
  <2>1. CASE i < j
    <3>1. e[i] < e[j] /\ e[i] \in Nat
      BY <1>1, <2>1
    <3> QED BY <3>1
  <2>2. CASE j < i
    <3>1. e[j] < e[i] /\ e[i] \in Nat
      BY <1>1, <2>2
    <3> QED BY <3>1
  <2> QED BY <2>1, <2>2
<1>3. ASSUME NEW k \in 0 .. n PROVE Cardinality({e[i] : i \in 1 .. k}) = k
  <2> DEFINE f == [i \in 1 .. k |-> e[i]]
             T == {e[i] : i \in 1 .. k}
  <2>1. /\ f \in [1 .. k -> T] /\ \A i \in 1 .. k : f[i] = e[i] /\ i \in 1 .. n
        /\ \A x \in T : \E i \in 1 .. k : f[i] = x
    OBVIOUS
  <2> HIDE DEF f, T
  <2>2. f \in Bijection(1 .. k, T)
    BY <1>2, <2>1 DEF Bijection, Injection, Surjection, IsInjective
  <2>3. ExistsBijection(1 .. k, T)
    BY <2>2 DEF ExistsBijection
  <2>4. Cardinality(T) = k
    BY <2>3, FS_CountingElements
  <2> QED BY <2>4 DEF T
<1>4. Cardinality(S) = n
  <2>1. S = {e[i] : i \in 1 .. n}
    BY <1>1
  <2>2. n \in 0 .. n
    OBVIOUS
  <2> QED BY <1>3, <2>1, <2>2
<1>5. ASSUME NEW k \in 1 .. n PROVE Cardinality({j \in S : j <= e[k]}) = k
  <2>1. ASSUME NEW i \in 1 .. n PROVE e[i] <= e[k] <=> i \in 1 .. k
    <3>1. CASE i < k
      <4>1. e[i] < e[k] /\ e[i] \in Nat /\ e[k] \in Nat /\ i \in 1 .. k
        BY <1>1, <3>1
      <4> QED BY <4>1
    <3>2. CASE k < i
      <4>1. e[k] < e[i] /\ e[i] \in Nat /\ e[k] \in Nat /\ i \notin 1 .. k
        BY <1>1, <3>2
      <4> QED BY <4>1
    <3>3. CASE i = k
      BY <1>1, <3>3
    <3> QED BY <3>1, <3>2, <3>3
  <2>2. {j \in S : j <= e[k]} = {e[i] : i \in 1 .. k}
    <3>1. ASSUME NEW x \in S, x <= e[k] PROVE x \in {e[i] : i \in 1 .. k}
      BY <1>1, <2>1, <3>1
    <3>2. ASSUME NEW i \in 1 .. k PROVE e[i] \in S /\ e[i] <= e[k]
      <4>1. i \in 1 .. n
        OBVIOUS
      <4> QED BY <1>1, <2>1, <4>1
    <3> QED BY <3>1, <3>2
  <2>3. k \in 0 .. n
    OBVIOUS
  <2> QED BY <1>3, <2>2, <2>3
<1>6. ASSUME NEW k \in 1 .. n PROVE Nth(S, k) = e[k]
  <2>1. e[k] \in S /\ Cardinality({j \in S : j <= e[k]}) = k
    BY <1>1, <1>5
  <2>2. ASSUME NEW x \in S, Cardinality({j \in S : j <= x}) = k PROVE x = e[k]
    <3>1. PICK i \in 1 .. n : e[i] = x
      BY <1>1
    <3>2. i = k
      BY <1>5, <2>2, <3>1
    <3> QED BY <3>1, <3>2
  <2> QED BY <2>1, <2>2 DEF Nth
<1> QED BY <1>4, <1>6

\* The numbers in Flow.
LEMMA FlowNumbers ==
  ASSUME TypeOK, NEW p \in Producers
  PROVE  /\ produced[p] \in 0 .. Len(Events[p]) /\ Len(Events[p]) \in Nat
         /\ channel[p] \in Seq(Nat) /\ Len(channel[p]) \in Nat
         /\ handled[p] \in Seq(Nat) /\ Len(handled[p]) \in Nat
         /\ Held(p) \in {0, 1} /\ Given(p) \in Int
         /\ Given(p) + Held(p) + Len(channel[p]) = produced[p]
         /\ Home[p] \in Contexts /\ inbox[Home[p]] \in Seq(Request)
<1>1. /\ produced[p] \in Nat /\ produced[p] <= Len(Events[p]) /\ Len(Events[p]) \in Nat
      /\ channel[p] \in Seq(Nat) /\ handled[p] \in Seq(Nat)
      /\ Home[p] \in Contexts /\ inbox[Home[p]] \in Seq(Request)
  BY ProducersAre DEF TypeOK
<1>2. Len(channel[p]) \in Nat /\ Len(handled[p]) \in Nat /\ Held(p) \in {0, 1}
  BY <1>1 DEF Held
<1> QED BY <1>1, <1>2 DEF Given

\* A producer whose channel, heap and handler a step leaves alone.
LEMMA FlowStays ==
  ASSUME NEW p \in Producers, Flow(p),
         handled'[p] = handled[p], channel'[p] = channel[p], produced'[p] = produced[p],
         {g \in heap' : g.from = p} = {g \in heap : g.from = p},
         \A n \in Nat : Holds(inbox[Home[p]], p, Len(handled[p]), n)
                  => Holds(inbox'[Home[p]], p, Len(handled[p]), n)
  PROVE  Flow(p)'
<1>1. \A g : g \in heap' /\ g.from = p <=> g \in heap /\ g.from = p
  OBVIOUS
<1>2. Held(p)' = Held(p)
  BY <1>1 DEF Held
<1>3. Given(p)' = Given(p)
  BY <1>2 DEF Given
<1> QED BY <1>1, <1>2, <1>3 DEF Flow

\* A step that leaves all of it alone.
LEMMA FlowFrame ==
  ASSUME FInv, UNCHANGED <<inbox, handled, channel, produced, heap>>
  PROVE  Routed' /\ \A p \in Producers : Flow(p)'
<1>1. Routed'
  BY DEF FInv, Routed
<1>2. ASSUME NEW p \in Producers PROVE Flow(p)'
  BY FlowStays DEF FInv
<1> QED BY <1>1, <1>2

\* A request is queued for the context of its producer.
LEMMA RoutedAppend ==
  ASSUME TypeOK, Routed, NEW c \in Contexts, NEW r \in Request,
         inbox' = [inbox EXCEPT ![c] = Append(@, r)], Home[r.to] = c
  PROVE  Routed'
<1>1. inbox[c] \in Seq(Request) /\ inbox \in [Contexts -> Seq(Request)]
  BY DEF TypeOK
<1>2. ASSUME NEW d \in Contexts, NEW i \in DOMAIN inbox'[d], inbox'[d][i].kind = "process"
      PROVE  Home[inbox'[d][i].to] = d
  <2>1. CASE d = c
    <3>1. inbox'[d] = Append(inbox[c], r)
      BY <1>1, <2>1
    <3>2. (i \in 1 .. Len(inbox[c]) /\ inbox'[d][i] = inbox[c][i]) \/ inbox'[d][i] = r
      BY <1>1, <1>2, <3>1, AppendProperties
    <3> QED BY <1>1, <1>2, <2>1, <3>2 DEF Routed
  <2>2. CASE d # c
    BY <1>1, <1>2, <2>2 DEF Routed
  <2> QED BY <2>1, <2>2
<1> QED BY <1>2 DEF Routed

\* The first request of an inbox is taken.
LEMMA RoutedTail ==
  ASSUME TypeOK, Routed, NEW c \in Contexts, inbox[c] # <<>>,
         inbox' = [inbox EXCEPT ![c] = Tail(@)]
  PROVE  Routed'
<1>1. inbox[c] \in Seq(Request) /\ inbox \in [Contexts -> Seq(Request)]
  BY DEF TypeOK
<1>2. ASSUME NEW d \in Contexts, NEW i \in DOMAIN inbox'[d], inbox'[d][i].kind = "process"
      PROVE  Home[inbox'[d][i].to] = d
  <2>1. CASE d = c
    <3>1. i \in DOMAIN Tail(inbox[c]) /\ inbox'[d] = Tail(inbox[c])
      BY <1>1, <2>1
    <3>2. i + 1 \in DOMAIN inbox[c] /\ inbox'[d][i] = inbox[c][i + 1]
      BY <3>1, HeadOfInbox
    <3> QED BY <1>2, <2>1, <3>2 DEF Routed
  <2>2. CASE d # c
    BY <1>1, <1>2, <2>2 DEF Routed
  <2> QED BY <2>1, <2>2
<1> QED BY <1>2 DEF Routed

\* A request for a stream is no event.
LEMMA FlowAsk ==
  ASSUME FInv, Ask
  PROVE  Routed' /\ \A p \in Producers : Flow(p)'
<1>1. TypeOK /\ Routed
  BY DEF FInv, MInv
<1>2. PICK k \in Producers : k = turn
  BY <1>1, ProducersAre DEF Ask, TypeOK
<1>3. /\ Home[k] \in Contexts /\ Create(k) \in Request /\ Create(k).to = k /\ Create(k).kind = "create"
      /\ inbox' = [inbox EXCEPT ![Home[k]] = Append(@, Create(k))]
      /\ UNCHANGED <<handled, channel, produced, heap>>
  BY <1>2, ProducersAre DEF Ask, Create, Request, sources
<1>4. Routed'
  BY <1>1, <1>3, RoutedAppend
<1>5. ASSUME NEW p \in Producers PROVE Flow(p)'
  <2>1. inbox'[Home[p]] \in {inbox[Home[p]], Append(inbox[Home[p]], Create(k))}
    BY <1>1, <1>3, FlowNumbers DEF TypeOK
  <2>2. ASSUME NEW n \in Nat, Holds(inbox[Home[p]], p, Len(handled[p]), n)
        PROVE  Holds(inbox'[Home[p]], p, Len(handled[p]), n)
    <3>1. Holds(Append(inbox[Home[p]], Create(k)), p, Len(handled[p]), n)
      BY <1>1, <1>3, <2>2, FlowNumbers, HoldsAppendOther
    <3> QED BY <2>1, <2>2, <3>1
  <2>3. Flow(p)
    BY DEF FInv
  <2> QED BY <1>3, <2>2, <2>3, FlowStays
<1> QED BY <1>4, <1>5

\* An event taken from a channel goes to the heap.
LEMMA FlowEvent ==
  ASSUME FInv, FirstEvent \/ NextEvent
  PROVE  Routed' /\ \A p \in Producers : Flow(p)'
<1>1. /\ MInv /\ TypeOK /\ turn \in Producers /\ UNCHANGED <<inbox, handled, produced>>
      /\ sync \in {"first", "next"}
      /\ TakeEvent(turn) \/ EndOfStream(turn)
  BY DEF FInv, MInv, TypeOK, FirstEvent, NextEvent, AwaitFrom, sources, contexts
<1>2. PICK k \in Producers : k = turn
  BY <1>1
<1>3. CASE EndOfStream(k)
  BY <1>1, <1>3, FlowFrame DEF EndOfStream
<1>4. CASE TakeEvent(k)
  <2> DEFINE e == [from |-> k, event |-> Head(channel[k])]
  <2>1. /\ channel[k] # <<>> /\ channel'[k] = Tail(channel[k]) /\ heap' = heap \cup {e}
        /\ \A q \in Producers \ {k} : channel'[q] = channel[q]
    BY <1>1, <1>4, TakeEventIs
  <2>2. Routed'
    BY <1>1 DEF FInv, Routed
  <2>3. ASSUME NEW p \in Producers \ {k} PROVE Flow(p)'
    <3>1. {g \in heap' : g.from = p} = {g \in heap : g.from = p}
      BY <2>1, <2>3
    <3> QED BY <1>1, <2>1, <3>1, FlowStays DEF FInv
  <2>4. \A h \in heap : h.from # k
    <3>1. sync = "first" => ~ Passed(k)
      BY <1>1, <1>2, ProducersAre DEF Passed
    <3>2. HeapInOrder /\ sync \in {"first", "next"}
      BY <1>1 DEF MInv
    <3> QED BY <1>2, <3>1, <3>2 DEF HeapInOrder
  <2>5. Held(k) = 0 /\ Held(k)' = 1 /\ \A g \in heap' : g.from = k => g = e
    <3>1. e \in heap' /\ e.from = k
      BY <2>1
    <3>2. \A g \in heap' : g.from = k => g = e
      BY <2>1, <2>4
    <3> HIDE DEF e
    <3> QED BY <2>4, <3>1, <3>2 DEF Held
  <2>6. /\ channel[k] \in Seq(Nat) /\ Len(channel[k]) \in Nat \ {0} /\ Len(channel'[k]) = Len(channel[k]) - 1
        /\ Head(channel[k]) = channel[k][1] /\ \A i \in 1 .. Len(channel'[k]) : channel'[k][i] = channel[k][i + 1]
    BY <1>1, <2>1, FlowNumbers, HeadTailProperties
  <2>7. Given(k)' = Given(k) /\ Given(k) \in Int
    BY <1>1, <2>5, <2>6, FlowNumbers DEF Given
  <2>8. Flow(k)
    BY DEF FInv
  <2>9. Head(channel[k]) = Events[k][Given(k) + 1]
    <3>1. 1 \in 1 .. Len(channel[k]) /\ Given(k) + 0 + 1 = Given(k) + 1
      BY <2>6, <2>7
    <3> QED BY <2>5, <2>6, <2>8, <3>1 DEF Flow
  <2>10. ASSUME NEW i \in 1 .. Len(channel'[k]) PROVE channel'[k][i] = Events[k][Given(k)' + Held(k)' + i]
    <3>1. i + 1 \in 1 .. Len(channel[k]) /\ Given(k) + 0 + (i + 1) = Given(k) + 1 + i
      BY <2>6, <2>7
    <3>2. channel[k][i + 1] = Events[k][Given(k) + 0 + (i + 1)]
      BY <2>5, <2>8, <3>1 DEF Flow
    <3> QED BY <2>5, <2>6, <2>7, <3>1, <3>2
  <2>11. Flow(k)'
    BY <1>1, <2>5, <2>7, <2>8, <2>9, <2>10 DEF Flow
  <2> QED BY <2>2, <2>3, <2>11
<1> QED BY <1>1, <1>2, <1>3, <1>4

\* The event that is chosen goes from the heap to its producer's inbox.
LEMMA FlowChoose ==
  ASSUME FInv, Choose
  PROVE  Routed' /\ \A p \in Producers : Flow(p)'
<1>1. MInv /\ TypeOK /\ Routed
  BY DEF FInv, MInv
<1>2. PICK h \in heap : /\ heap' = heap \ {h}
                        /\ inbox' = [inbox EXCEPT ![Home[h.from]] = Append(@, Process(h.from, h.event))]
  BY DEF Choose
<1>3. UNCHANGED <<handled, channel, produced>>
  BY DEF Choose, sources
<1>4. PICK k \in Producers : k = h.from /\ h \in Event
  BY <1>1 DEF TypeOK, Event
<1> DEFINE r == Process(k, h.event)
<1>5. r \in Request /\ r.kind = "process" /\ r.to = k /\ r.event = h.event
  BY <1>4 DEF Process, Request, Event
<1> HIDE DEF r
<1>6. Home[k] \in Contexts /\ inbox' = [inbox EXCEPT ![Home[k]] = Append(@, r)]
  BY <1>2, <1>4, ProducersAre DEF r
<1>7. Routed'
  BY <1>1, <1>5, <1>6, RoutedAppend
<1>8. ASSUME NEW p \in Producers \ {k} PROVE Flow(p)'
  <2>1. {g \in heap' : g.from = p} = {g \in heap : g.from = p}
    BY <1>2, <1>4, <1>8
  <2>2. inbox'[Home[p]] \in {inbox[Home[p]], Append(inbox[Home[p]], r)}
    BY <1>1, <1>6, FlowNumbers DEF TypeOK
  <2>3. ASSUME NEW n \in Nat, Holds(inbox[Home[p]], p, Len(handled[p]), n)
        PROVE  Holds(inbox'[Home[p]], p, Len(handled[p]), n)
    <3>1. Holds(Append(inbox[Home[p]], r), p, Len(handled[p]), n)
      BY <1>1, <1>5, <1>8, <2>3, FlowNumbers, HoldsAppendOther
    <3> QED BY <2>2, <2>3, <3>1
  <2>4. Flow(p)
    BY DEF FInv
  <2> QED BY <1>3, <2>1, <2>3, <2>4, FlowStays
<1>9. Flow(k)'
  <2>1. Flow(k)
    BY DEF FInv
  <2>2. Held(k) = 1
    BY <1>4 DEF Held
  <2>3. Held(k)' = 0 /\ \A g \in heap' : g.from # k
    BY <1>1, <1>2, <1>4 DEF Held, MInv, HeapInOrder
  <2>4. Given(k) \in Int /\ Given(k)' = Given(k) + 1
    <3>1. produced'[k] = produced[k] /\ channel'[k] = channel[k]
      BY <1>3
    <3> QED BY <1>1, <2>2, <2>3, <3>1, FlowNumbers DEF Given
  <2> DEFINE n == Given(k) - Len(handled[k])
  <2>5. /\ n \in Nat /\ Len(handled[k]) \in Nat /\ Given(k)' - Len(handled'[k]) = n + 1
        /\ Len(handled[k]) + n + 1 = Given(k) + 1
    <3>1. handled'[k] = handled[k] /\ Len(handled[k]) \in Nat /\ Given(k) - Len(handled[k]) \in Nat
      BY <1>1, <1>3, <2>1, FlowNumbers DEF Flow
    <3> QED BY <2>4, <3>1
  <2>6. r.event = Events[k][Len(handled[k]) + n + 1]
    BY <1>4, <1>5, <2>1, <2>5 DEF Flow
  <2>7. Holds(inbox[Home[k]], k, Len(handled[k]), n)
    BY <2>1 DEF Flow
  <2> HIDE DEF n
  <2>8. Holds(Append(inbox[Home[k]], r), k, Len(handled[k]), n + 1)
    BY <1>1, <1>5, <2>5, <2>6, <2>7, FlowNumbers, HoldsAppendMine
  <2>9. inbox'[Home[k]] = Append(inbox[Home[k]], r)
    BY <1>1, <1>6 DEF TypeOK
  <2>10. ASSUME NEW i \in 1 .. Len(channel'[k]) PROVE channel'[k][i] = Events[k][Given(k)' + Held(k)' + i]
    <3>1. channel'[k] = channel[k] /\ i \in 1 .. Len(channel[k])
      BY <1>3
    <3>2. channel[k][i] = Events[k][Given(k) + 1 + i]
      BY <2>1, <2>2, <3>1 DEF Flow
    <3>3. Given(k)' + Held(k)' + i = Given(k) + 1 + i
      BY <2>3, <2>4
    <3> QED BY <3>1, <3>2, <3>3
  <2>11. handled'[k] = handled[k] /\ \A i \in 1 .. Len(handled[k]) : handled[k][i] = Events[k][i]
    BY <1>3, <2>1 DEF Flow
  <2> QED BY <2>3, <2>5, <2>8, <2>9, <2>10, <2>11 DEF Flow
<1> QED BY <1>7, <1>8, <1>9

\* A request for a stream was answered and leaves an inbox.
LEMMA FlowAnswer ==
  ASSUME FInv, NEW c \in Contexts, AnswerStream(c), sync # "panicked"
  PROVE  Routed' /\ \A p \in Producers : Flow(p)'
<1>1. /\ TypeOK /\ Routed /\ inbox[c] # <<>> /\ inbox' = [inbox EXCEPT ![c] = Tail(@)]
      /\ Head(inbox[c]).kind # "process" /\ UNCHANGED <<handled, channel, produced, heap>>
  BY DEF FInv, MInv, AnswerStream, merging, sources
<1>2. Routed'
  BY <1>1, RoutedTail
<1>3. ASSUME NEW p \in Producers PROVE Flow(p)'
  <2>1. CASE Home[p] # c
    <3>1. inbox'[Home[p]] = inbox[Home[p]]
      BY <1>1, <2>1, FlowNumbers DEF TypeOK
    <3> QED BY <1>1, <3>1, FlowStays DEF FInv
  <2>2. CASE Home[p] = c
    <3>1. inbox'[Home[p]] = Tail(inbox[Home[p]])
      BY <1>1, <2>2 DEF TypeOK
    <3>2. ASSUME NEW n \in Nat, Holds(inbox[Home[p]], p, Len(handled[p]), n)
          PROVE  Holds(Tail(inbox[Home[p]]), p, Len(handled[p]), n)
      BY <1>1, <2>2, <3>2, FlowNumbers, HoldsTailOther
    <3> QED BY <1>1, <3>1, <3>2, FlowStays DEF FInv
  <2> QED BY <2>1, <2>2
<1> QED BY <1>2, <1>3

\* A producer processes the first of its events that are queued.
LEMMA FlowProcess ==
  ASSUME FInv, NEW c \in Contexts, ProcessEvent(c)
  PROVE  Routed' /\ \A p \in Producers : Flow(p)'
<1> DEFINE m == Head(inbox[c])
<1>1. /\ TypeOK /\ Routed /\ inbox[c] # <<>> /\ inbox' = [inbox EXCEPT ![c] = Tail(@)]
      /\ m.kind = "process" /\ handled' = [handled EXCEPT ![m.to] = Append(@, m.event)]
      /\ UNCHANGED <<channel, produced, heap>>
  BY DEF FInv, MInv, ProcessEvent, merging, sources
<1>2. m \in Request /\ m.to \in Producers /\ m.event \in Nat /\ Home[m.to] = c
  <2>1. m \in Request /\ 1 \in DOMAIN inbox[c] /\ m = inbox[c][1]
    BY <1>1, HeadOfInbox
  <2> QED BY <1>1, <2>1 DEF Request, Routed
<1> HIDE DEF m
<1>3. Routed'
  BY <1>1, RoutedTail
<1>4. PICK k \in Producers : k = m.to
  BY <1>2
<1>5. ASSUME NEW p \in Producers \ {k} PROVE Flow(p)'
  <2>1. handled'[p] = handled[p]
    BY <1>1, <1>4, <1>5 DEF TypeOK
  <2>2. CASE Home[p] # c
    <3>1. inbox'[Home[p]] = inbox[Home[p]]
      BY <1>1, <2>2, FlowNumbers DEF TypeOK
    <3> QED BY <1>1, <2>1, <3>1, FlowStays DEF FInv
  <2>3. CASE Home[p] = c
    <3>1. inbox'[Home[p]] = Tail(inbox[Home[p]])
      BY <1>1, <2>3 DEF TypeOK
    <3>2. ASSUME NEW n \in Nat, Holds(inbox[Home[p]], p, Len(handled[p]), n)
          PROVE  Holds(Tail(inbox[Home[p]]), p, Len(handled[p]), n)
      <4>1. ~ (Head(inbox[Home[p]]).kind = "process" /\ Head(inbox[Home[p]]).to = p)
        BY <1>4, <1>5, <2>3 DEF m
      <4> QED BY <1>1, <2>3, <3>2, <4>1, FlowNumbers, HoldsTailOther
    <3> QED BY <1>1, <2>1, <3>1, <3>2, FlowStays DEF FInv
  <2> QED BY <2>2, <2>3
<1>6. Flow(k)'
  <2> DEFINE q == inbox[Home[k]]
             h == Len(handled[k])
             n == Given(k) - Len(handled[k])
  <2>1. Flow(k)
    BY DEF FInv
  <2>2. /\ q \in Seq(Request) /\ q # <<>> /\ Head(q) = m /\ inbox'[Home[k]] = Tail(q)
        /\ h \in Nat /\ n \in Nat /\ Holds(q, k, h, n) /\ handled[k] \in Seq(Nat)
        /\ handled'[k] = Append(handled[k], m.event) /\ Given(k) \in Int
    BY <1>1, <1>2, <1>4, <2>1, FlowNumbers DEF Flow, TypeOK, m
  <2>3. n # 0 /\ m.event = Events[k][h + 1] /\ Holds(Tail(q), k, h + 1, n - 1)
    <3> HIDE DEF q, h, n
    <3>1. Head(q).kind = "process" /\ Head(q).to = k
      BY <1>1, <1>4, <2>2
    <3> QED BY <2>2, <3>1, HoldsTailMine
  <2>4. /\ Len(handled'[k]) = h + 1 /\ handled'[k][h + 1] = m.event
        /\ \A i \in 1 .. h : handled'[k][i] = handled[k][i]
    BY <1>2, <2>2, AppendProperties
  <2>5. Held(k)' = Held(k) /\ Given(k)' = Given(k)
    BY <1>1 DEF Held, Given
  <2>6. Given(k)' - Len(handled'[k]) = n - 1 /\ n - 1 \in Nat
    BY <2>2, <2>3, <2>4, <2>5
  <2>7. ASSUME NEW i \in 1 .. h + 1 PROVE handled'[k][i] = Events[k][i]
    <3>1. CASE i = h + 1
      BY <2>3, <2>4, <3>1
    <3>2. CASE i \in 1 .. h
      BY <2>1, <2>4, <3>2 DEF Flow
    <3> QED BY <2>2, <3>1, <3>2
  <2>8. /\ \A g \in heap' : g.from = k => g.event = Events[k][Given(k)' + 1]
        /\ \A i \in 1 .. Len(channel'[k]) : channel'[k][i] = Events[k][Given(k)' + Held(k)' + i]
    BY <1>1, <2>1, <2>5 DEF Flow
  <2>9. Holds(inbox'[Home[k]], k, Len(handled'[k]), Given(k)' - Len(handled'[k]))
    BY <2>2, <2>3, <2>4, <2>6
  <2> HIDE DEF q, h, n
  <2> QED BY <2>4, <2>6, <2>7, <2>8, <2>9 DEF Flow
<1> QED BY <1>3, <1>5, <1>6

\* A generator's next event goes to its channel.
LEMMA FlowSend ==
  ASSUME FInv, NEW k \in Producers, SendEvent(k)
  PROVE  Routed' /\ \A p \in Producers : Flow(p)'
<1>1. TypeOK /\ UNCHANGED <<inbox, handled, heap>>
  BY DEF FInv, MInv, SendEvent, merging, contexts
<1>2. /\ channel'[k] = Append(channel[k], Events[k][produced[k] + 1])
      /\ produced[k] + 1 \in 1 .. Len(Events[k]) /\ produced'[k] = produced[k] + 1
      /\ \A q \in Producers \ {k} : channel'[q] = channel[q] /\ produced'[q] = produced[q]
  BY <1>1, SendEventIs
<1>3. Routed'
  BY <1>1 DEF FInv, Routed
<1>4. ASSUME NEW p \in Producers \ {k} PROVE Flow(p)'
  BY <1>1, <1>2, FlowStays DEF FInv
<1>5. Flow(k)'
  <2>1. Flow(k)
    BY DEF FInv
  <2>2. /\ channel[k] \in Seq(Nat) /\ Len(channel[k]) \in Nat /\ produced[k] \in Nat
        /\ Given(k) \in Int /\ Held(k) \in {0, 1} /\ Given(k) + Held(k) + Len(channel[k]) = produced[k]
    BY <1>1, FlowNumbers
  <2>3. /\ Len(channel'[k]) = Len(channel[k]) + 1
        /\ channel'[k][Len(channel[k]) + 1] = Events[k][produced[k] + 1]
        /\ \A i \in 1 .. Len(channel[k]) : channel'[k][i] = channel[k][i]
    <3>1. Events[k][produced[k] + 1] \in Nat
      BY <1>2, ProducersAre
    <3> QED BY <1>2, <2>2, <3>1, AppendProperties
  <2>4. Held(k)' = Held(k) /\ Given(k)' = Given(k)
    <3>1. Held(k)' = Held(k)
      BY <1>1 DEF Held
    <3>2. Given(k)' = produced'[k] - Len(channel'[k]) - Held(k)
      BY <3>1 DEF Given
    <3>3. Given(k) = produced[k] - Len(channel[k]) - Held(k)
      BY DEF Given
    <3>4. produced'[k] = produced[k] + 1 /\ Len(channel'[k]) = Len(channel[k]) + 1
      BY <1>2, <2>3
    <3>5. produced[k] \in Nat /\ Len(channel[k]) \in Nat /\ Held(k) \in {0, 1}
      BY <2>2
    <3> QED BY ONLY <3>1, <3>2, <3>3, <3>4, <3>5
  <2>5. ASSUME NEW i \in 1 .. Len(channel'[k]) PROVE channel'[k][i] = Events[k][Given(k)' + Held(k)' + i]
    <3>1. CASE i = Len(channel[k]) + 1
      <4>1. Given(k) + Held(k) + i = produced[k] + 1
        BY ONLY <2>2, <3>1
      <4>2. Given(k)' + Held(k)' + i = produced[k] + 1
        BY ONLY <2>4, <4>1
      <4>3. channel'[k][i] = Events[k][produced[k] + 1]
        BY ONLY <2>3, <3>1
      <4> QED BY ONLY <4>2, <4>3
    <3>2. CASE i \in 1 .. Len(channel[k])
      BY <2>1, <2>3, <2>4, <3>2 DEF Flow
    <3> QED BY <2>2, <2>3, <3>1, <3>2
  <2> QED BY <1>1, <2>1, <2>4, <2>5 DEF Flow
<1> QED BY <1>3, <1>4, <1>5

\* Every step keeps each event in its part.
LEMMA FInvStep == FInv /\ [Next]_vars => FInv'
<1> SUFFICES ASSUME FInv, [Next]_vars PROVE FInv'
  OBVIOUS
<1>1. MInv'
  BY MInvStep DEF FInv
<1>2. ASSUME UNCHANGED <<inbox, handled, channel, produced, heap>> PROVE FInv'
  BY <1>1, <1>2, FlowFrame DEF FInv
<1>3. CASE UNCHANGED vars \/ Launch \/ Interrupt \/ Loop
  BY <1>2, <1>3 DEF vars, Launch, Interrupt, Loop, SpawnLocal, NoTask, NoSignal, BreakOnSignal,
                    BreakOnNone, Break, merging, sources, contexts
<1>4. CASE AskNobody \/ AllAsked \/ TakeStream \/ NoStream \/ Finish
  BY <1>2, <1>4 DEF AskNobody, AllAsked, TakeStream, NoStream, Finish, sources, contexts
<1>5. CASE Ask \/ FirstEvent \/ Choose \/ NextEvent
  BY <1>1, <1>5, FlowAsk, FlowEvent, FlowChoose DEF FInv
<1>6. ASSUME NEW c \in Contexts, Context(c) PROVE FInv'
  <2>1. CASE CreateStream(c) \/ (AnswerStream(c) /\ sync = "panicked")
    BY <1>2, <2>1 DEF CreateStream, AnswerStream, merging, sources
  <2>2. CASE ProcessEvent(c) \/ (AnswerStream(c) /\ sync # "panicked")
    BY <1>1, <2>2, FlowAnswer, FlowProcess DEF FInv
  <2> QED BY <1>6, <2>1, <2>2 DEF Context
<1>7. ASSUME NEW p \in Producers, Generator(p) PROVE FInv'
  <2>1. CASE SendEvent(p)
    BY <1>1, <2>1, FlowSend DEF FInv
  <2>2. CASE GeneratorEnds(p)
    BY <1>2, <2>2 DEF GeneratorEnds, merging, contexts
  <2> QED BY <1>7, <2>1, <2>2 DEF Generator
<1> QED
  BY <1>3, <1>4, <1>5, <1>6, <1>7 DEF Next, Merger

\* At first there is nothing anywhere.
LEMMA FInvInit == Init => FInv
<1> SUFFICES ASSUME Init PROVE FInv
  OBVIOUS
<1>1. MInv
  BY MInvInit
<1>2. heap = {} /\ inbox = [c \in Contexts |-> <<>>]
  BY DEF Init
<1>3. ASSUME NEW p \in Producers PROVE Flow(p)
  <2>1. handled[p] = <<>> /\ channel[p] = <<>> /\ produced[p] = 0 /\ inbox[Home[p]] = <<>>
    BY <1>2, ProducersAre DEF Init
  <2>2. Len(<<>>) = 0 /\ Given(p) = 0 /\ 1 .. 0 = {}
    <3>1. Held(p) = 0
      BY <1>2 DEF Held
    <3>2. Given(p) = 0 - Len(<<>>) - 0
      BY <2>1, <3>1 DEF Given
    <3>3. Len(<<>>) = 0
      BY EmptySeq
    <3>4. 0 - 0 - 0 = 0 /\ 1 .. 0 = {}
      OBVIOUS
    <3>5. Given(p) = 0
      BY ONLY <3>2, <3>3, <3>4
    <3> QED BY <3>3, <3>4, <3>5
  <2>3. Holds(<<>>, p, 0, 0)
    <3>1. Mine(<<>>, p) = {}
      BY DEF Mine
    <3> DEFINE e == [k \in 1 .. 0 |-> 0]
    <3>2. e \in [1 .. 0 -> Mine(<<>>, p)]
      BY <2>2
    <3>3. Listing(e, Mine(<<>>, p), 0)
      BY <2>2, <3>1, <3>2 DEF Listing
    <3> QED BY <2>2, <3>2, <3>3 DEF Holds
  <2> QED BY <1>2, <2>1, <2>2, <2>3 DEF Flow
<1>4. Routed
  BY <1>2 DEF Routed
<1> QED BY <1>1, <1>3, <1>4 DEF FInv

\* What a producer is still to process are the events after those it has.
LEMMA QueuedIs ==
  ASSUME FInv, NEW p \in Producers
  PROVE  Queued(p) = SubSeq(Events[p], Len(handled[p]) + 1, Given(p))
<1> DEFINE q == inbox[Home[p]]
           h == Len(handled[p])
           n == Given(p) - h
<1>1. TypeOK /\ Flow(p)
  BY DEF FInv, MInv
<1>2. /\ q \in Seq(Request) /\ h \in Nat /\ n \in Nat /\ Given(p) \in Int /\ Given(p) = h + n
      /\ Holds(q, p, h, n) /\ Given(p) <= Len(Events[p]) /\ Events[p] \in Seq(Nat)
  <2>1. Given(p) - Len(handled[p]) \in Nat /\ Holds(q, p, h, n)
    BY <1>1 DEF Flow
  <2>2. /\ q \in Seq(Request) /\ Len(handled[p]) \in Nat /\ Given(p) \in Int /\ Held(p) \in {0, 1}
        /\ Len(channel[p]) \in Nat /\ Given(p) + Held(p) + Len(channel[p]) <= Len(Events[p])
    BY <1>1, FlowNumbers
  <2>3. Events[p] \in Seq(Nat) /\ Len(Events[p]) \in Nat
    BY ProducersAre
  <2> QED BY <2>1, <2>2, <2>3
<1>3. Waiting(p) = Mine(q, p)
  BY DEF Waiting, Mine
<1>4. Queued(p) = [k \in 1 .. Cardinality(Mine(q, p)) |-> q[Nth(Mine(q, p), k)].event]
  BY <1>3 DEF Queued
<1> HIDE DEF q, h, n
<1>5. PICK e \in [1 .. n -> Mine(q, p)] :
        Listing(e, Mine(q, p), n) /\ \A k \in 1 .. n : q[e[k]].event = Events[p][h + k]
  BY <1>2 DEF Holds
<1>6. Cardinality(Mine(q, p)) = n /\ \A k \in 1 .. n : Nth(Mine(q, p), k) = e[k]
  <2>1. Mine(q, p) \in SUBSET Nat
    BY <1>2, MineIs
  <2>2. n \in Nat /\ Listing(e, Mine(q, p), n)
    BY <1>2, <1>5
  <2> QED BY ONLY <2>1, <2>2, ListingIs
<1>7. Queued(p) = [k \in 1 .. n |-> Events[p][h + k]]
  BY <1>4, <1>5, <1>6
<1>8. /\ SubSeq(Events[p], h + 1, Given(p)) \in Seq(Nat)
      /\ Len(SubSeq(Events[p], h + 1, Given(p))) = n
      /\ \A k \in 1 .. n : SubSeq(Events[p], h + 1, Given(p))[k] = Events[p][h + k]
  <2>1. \A i \in h + 1 .. Given(p) : Events[p][i] \in Nat
    BY <1>2
  <2>2. h + 1 \in Int /\ Given(p) - (h + 1) + 1 = n
    BY <1>2
  <2>3. \A k \in 1 .. n : (h + 1) + k - 1 = h + k
    BY <1>2
  <2>4. Len(SubSeq(Events[p], h + 1, Given(p))) = n
    <3>1. h + 1 <= Given(p) <=> n # 0
      BY <1>2
    <3> QED BY <1>2, <2>1, <2>2, <3>1, SubSeqProperties
  <2> QED BY <1>2, <2>1, <2>2, <2>3, <2>4, SubSeqProperties
<1>9. SubSeq(Events[p], h + 1, Given(p)) = [k \in 1 .. n |-> Events[p][h + k]]
  <2> DEFINE s == SubSeq(Events[p], h + 1, Given(p))
  <2>1. s \in Seq(Nat) /\ Len(s) = n /\ \A k \in 1 .. n : s[k] = Events[p][h + k]
    BY <1>8
  <2> HIDE DEF s
  <2>2. s = [k \in 1 .. n |-> Events[p][h + k]]
    BY <2>1
  <2> QED BY <2>2 DEF s
<1> QED BY <1>7, <1>9 DEF h

\* A sequence that agrees with a part of another is that part.
LEMMA PartIs ==
  ASSUME NEW all \in Seq(Nat), NEW s \in Seq(Nat), NEW m \in Nat,
         m + Len(s) <= Len(all), \A i \in 1 .. Len(s) : s[i] = all[m + i]
  PROVE  s = SubSeq(all, m + 1, m + Len(s))
<1> DEFINE t == SubSeq(all, m + 1, m + Len(s))
<1>1. Len(s) \in Nat /\ m + 1 \in Int /\ m + Len(s) \in Int
      /\ \A i \in m + 1 .. m + Len(s) : all[i] \in Nat
  OBVIOUS
<1>2. /\ t \in Seq(Nat) /\ Len(t) = IF m + 1 <= m + Len(s) THEN m + Len(s) - (m + 1) + 1 ELSE 0
      /\ \A i \in 1 .. m + Len(s) - (m + 1) + 1 : t[i] = all[(m + 1) + i - 1]
  BY <1>1, SubSeqProperties
<1> HIDE DEF t
<1>3. Len(t) = Len(s) /\ m + Len(s) - (m + 1) + 1 = Len(s)
  BY <1>1, <1>2
<1>4. \A i \in 1 .. Len(s) : (m + 1) + i - 1 = m + i
  OBVIOUS
<1>5. \A i \in 1 .. Len(s) : t[i] = s[i]
  BY <1>2, <1>3, <1>4
<1>6. t = s
  BY <1>2, <1>3, <1>5, SeqEqual
<1> QED BY <1>6 DEF t

\* Four parts of a sequence, one after the other.
LEMMA FourParts ==
  ASSUME NEW all \in Seq(Nat), NEW a \in Nat, NEW b \in Nat, NEW c \in Nat, NEW d \in Nat,
         a <= b, b <= c, c <= d, d <= Len(all)
  PROVE  SubSeq(all, 1, a) \o SubSeq(all, a + 1, b) \o SubSeq(all, b + 1, c) \o SubSeq(all, c + 1, d)
           = SubSeq(all, 1, d)
<1>1. SubSeq(all, 1, a) \o SubSeq(all, a + 1, b) = SubSeq(all, 1, b)
  BY ConcatAdjacentSubSeq
<1>2. SubSeq(all, 1, b) \o SubSeq(all, b + 1, c) = SubSeq(all, 1, c)
  BY ConcatAdjacentSubSeq
<1>3. SubSeq(all, 1, c) \o SubSeq(all, c + 1, d) = SubSeq(all, 1, d)
  BY ConcatAdjacentSubSeq
<1> QED BY <1>1, <1>2, <1>3

\* What a producer is given to process are its own events, each once and in
\* their order, and the rest of what its generator has sent is on its way, one
\* event at most in the heap (synchronizer.rs:94-124, replay_mock/src/lib.rs:59-72).
THEOREM NothingIsLostOnTheWay == Spec => []PipelineIsExact
<1>1. FInv => PipelineIsExact
  <2> SUFFICES ASSUME FInv, NEW p \in Producers
               PROVE  /\ Cardinality({h \in heap : h.from = p}) <= 1
                      /\ handled[p] \o Queued(p) \o InHeap(p) \o channel[p] = SubSeq(Events[p], 1, produced[p])
    BY DEF PipelineIsExact
  <2>1. MInv /\ TypeOK /\ Flow(p) /\ Events[p] \in Seq(Nat)
    BY ProducersAre DEF FInv, MInv
  <2>2. Cardinality({h \in heap : h.from = p}) <= 1
    <3>1. CASE \A h \in heap : h.from # p
      <4>1. {h \in heap : h.from = p} = {}
        BY <3>1
      <4> QED BY <4>1, FS_EmptySet
    <3>2. CASE \E h \in heap : h.from = p
      <4>1. PICK h \in heap : h.from = p
        BY <3>2
      <4>2. {g \in heap : g.from = p} = {h}
        BY <2>1, <4>1 DEF MInv, HeapInOrder
      <4>3. Cardinality({h}) = 1
        BY FS_Singleton
      <4> QED BY <4>2, <4>3
    <3> QED BY <3>1, <3>2
  <2> DEFINE a == Len(handled[p])
             b == Given(p)
             c == Given(p) + Held(p)
             d == produced[p]
  <2>3. /\ a \in Nat /\ b \in Nat /\ c \in Nat /\ d \in Nat
        /\ a <= b /\ b <= c /\ c <= d /\ d <= Len(Events[p])
        /\ c + Len(channel[p]) = d
    <3>1. Given(p) - Len(handled[p]) \in Nat
      BY <2>1 DEF Flow
    <3>2. /\ Len(handled[p]) \in Nat /\ Given(p) \in Int /\ Held(p) \in {0, 1} /\ Len(channel[p]) \in Nat
          /\ Given(p) + Held(p) + Len(channel[p]) = produced[p]
          /\ produced[p] \in Nat /\ produced[p] <= Len(Events[p])
      BY <2>1, FlowNumbers
    <3> QED BY ONLY <3>1, <3>2
  <2>4. handled[p] = SubSeq(Events[p], 1, a)
    <3>1. \A i \in 1 .. a : handled[p][i] = Events[p][0 + i]
      BY <2>1 DEF Flow
    <3>2. handled[p] = SubSeq(Events[p], 0 + 1, 0 + a)
      BY <2>1, <2>3, <3>1, FlowNumbers, PartIs
    <3> QED BY <2>3, <3>2
  <2>5. Queued(p) = SubSeq(Events[p], a + 1, b)
    BY QueuedIs
  <2>6. channel[p] = SubSeq(Events[p], c + 1, d)
    <3>1. \A i \in 1 .. Len(channel[p]) : channel[p][i] = Events[p][c + i]
      BY <2>1 DEF Flow
    <3>2. channel[p] \in Seq(Nat)
      BY <2>1, FlowNumbers
    <3> HIDE DEF c, d
    <3>3. channel[p] = SubSeq(Events[p], c + 1, c + Len(channel[p]))
      BY <2>1, <2>3, <3>1, <3>2, PartIs
    <3> QED BY <2>3, <3>3
  <2>7. InHeap(p) = SubSeq(Events[p], b + 1, c)
    <3>1. CASE \A h \in heap : h.from # p
      <4>1. InHeap(p) = <<>> /\ c = b
        BY <2>1, <2>3, <3>1, InHeapIs DEF Held
      <4> QED BY <2>3, <4>1, SubSeqEmpty
    <3>2. CASE \E h \in heap : h.from = p
      <4>1. PICK h \in heap : h.from = p
        BY <3>2
      <4>2. InHeap(p) = <<h.event>> /\ h.event \in Nat /\ h.event = Events[p][b + 1]
        BY <2>1, <4>1, InHeapIs DEF Flow
      <4>3. c = b + 1
        BY <2>3, <4>1 DEF Held
      <4> DEFINE s == <<h.event>>
      <4>4. s \in Seq(Nat) /\ Len(s) = 1 /\ \A i \in 1 .. Len(s) : s[i] = Events[p][b + i]
        BY <4>2
      <4> HIDE DEF s
      <4>5. s = SubSeq(Events[p], b + 1, b + Len(s))
        BY <2>1, <2>3, <4>3, <4>4, PartIs
      <4> QED BY <4>2, <4>3, <4>4, <4>5 DEF s
    <3> QED BY <3>1, <3>2
  <2> HIDE DEF a, b, c, d
  <2>8. handled[p] \o Queued(p) \o InHeap(p) \o channel[p] = SubSeq(Events[p], 1, d)
    <3>1. SubSeq(Events[p], 1, a) \o SubSeq(Events[p], a + 1, b) \o SubSeq(Events[p], b + 1, c)
            \o SubSeq(Events[p], c + 1, d) = SubSeq(Events[p], 1, d)
      BY ONLY <2>1, <2>3, FourParts
    <3> QED BY ONLY <2>4, <2>5, <2>6, <2>7, <3>1
  <2> QED BY <2>2, <2>8 DEF d
<1> QED BY <1>1, FInvInit, FInvStep, PTL DEF Spec
==============================================================================
