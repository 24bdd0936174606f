# Formal models of meowire

meowire runs an agent's decision loop: a brain decides, tools act, a membrane
rules on both, and the host consumes a stream of events it may stop, pause,
suspend and resume. This directory holds TLA+ models of that program, the TLC
runs that check them on small instances, and TLAPS proofs of what matters most
about the loop for every instance. `PROJECT.json` lists the runs, the source
lines behind every definition, the hazards, the findings and the theorems.

## The system

| Part | Source | State | Operations |
|---|---|---|---|
| Decision loop | `internal/nerve/loop.go`, `feedback.go`, `hooks.go`, `invocation.go` | `LoopContext` (state, outcome, the Context and ToolResults tracks), `actBatch` (round, calls, output) | `Cycle`, `Resume`, one round's Think and Act, error emission, settlement |
| Membrane | `gate.go`, `sandbox.go` | none of its own | ruling on a call, ruling on a draft, resolving a confirmation |
| Suspension and pause | `pause.go` | `Session` handles; the request flag of the Agent | gap points, `suspend`, `pause`, `snapshot` |
| Parallel batch | `parallel.go` | batch, denials, results | gating, bounded execution, feedback |
| Retry | `retry.go` | attempt counters | `thinkWithRetry`, `actWithRetry`, `truncateText` |
| Cell | `internal/cell/cell.go` | ports, config, queued audits, event number, closed flag, wire lock | `Stimulate`, `Resume`, `Replace`, `UpdateConfig`, `Close` |
| Agent | `api/meow.go` | the pause flag | the facade over the cell, `Pause`, `Unpause` |
| Assembly | `api/assemble.go`, `api/wiring.go`, `nerve/wire.go`, `nerve/lifecycle.go` | none after `New`; the organs live on in the cell's slots | validate, boot in order, clean up |
| Codecs | `nerve/port.go`, `nerve/eventwire.go` | none | `Marshal`, `UnmarshalSession`, `EncodeEvent`, `DecodeEvent` |
| Composition | `nerve/compose.go`, `api/compose.go` | none | guard stack, fallback effector |
| Brain | `internal/brain` | none between Thinks; one request, its stream and its fold within one | prompt to request, stream to decision |

How they interact. `Agent` calls `Cell`; `Cell.Stimulate` and `Cell.Resume`
snapshot ports, configuration and queued audits under the wire lock into a
`LoopContext` and run the loop on it. The loop calls the organs (brain, tools,
membrane, memory, hooks) synchronously, except for the execution phase of a
parallel batch, which starts one goroutine per admitted call. Every event goes
through `yield` to the consumer, which may stop there. A suspension leaves
through an event that carries a `Session`; the host brings it back with
`Resume`. Host goroutines may call `Replace`, `UpdateConfig`, `Close`, `Pause`,
`Unpause`, and start further invocations, at any time.

What is hard: the consumer may stop at every yield; four kinds of suspension
interrupt a round at different depths and their tails have to come back exactly
once, also when the process died meanwhile and a journal brings them back; a
provider may fail at any frame of its stream, and the attempts above it, like the
stacks beside it, try again or try the next; a batch mixes refusals, asks and
waits; pause requests arrive from other goroutines; overlapping invocations share queue, event numbers and pause flag.
The hazards in `PROJECT.json` list these at their lines.

## The modules

### DecisionLoop

One chain: a `Stimulate` and the `Resume`s that continue it. The variable `pc`
names what the running invocation does next. One action runs from there to the
next point where somebody else may act, a yield or a call into an organ, so
every interleaving the host can cause is a behaviour of the model. The yield
operator lets the consumer take the event and go on, or stop, which leaves only
the deferred settlement (`CycleGuarantees`).

- `Cycle`, `Resume`, `ResumeRefused`, then `CyclePrelude`, `EmitAudit`,
  `EnterLoop`: the entry and the prelude. Each invocation snapshots any
  configuration of `Configs`, so the host may swap it between a suspension and
  its resumption.
- `Round`, `Prepare`, `Think`, `ReportUsage`, `EmitGate`, `UtterAsk`, `Utter`,
  `Acting`, `AnnounceDone`, `DoneEvent`: one round.
- `Serial*`, `Admitted`, `Feedback`: `actBatch.run`. `Announce`, `BatchGap`,
  `GatePhase`, `Batch*`, `Exec*`, `FeedbackPhase*`: `runParallel`. The goroutines
  of the execution phase start and return in any order inside the window.
- `Suspend`, `WaitInput`, `PauseState`, `PausedEvent`: the handles.
  `ResolveCallAsk`, `Approved`, `ResolveUtteranceAsk`, `SayResolved`, `Rest`: what
  a resumed run does first.
- `OrganFails`: an organ or hook that answers with an error, wherever the loop
  checks one. `Cancel`, `Pause`, `Unpause`: the host, at any time.

Abstractions. Calls are numbered as the brain issues them; every slice the loop
builds keeps that order, so a slice is the set of its numbers. A draft is the
number of its Think. An execution is one call of `actWithRetry`, whatever
attempts it makes, so "executes once" counts entries into it: `ToolMaxRetries`
may call the tool port again after an effector error. The tracks are what the
loop itself writes into them: what the host's regulator trims, or a
`BeforeStimulate` hook rewrites, is not counted. Handles of other cells and the
zero handle are one refused resumption. Each handle is used once, as the
documents ask of the host; in `Journal` a restarted host uses one again.

`DecisionLoopProperties` states what the loop must guarantee. `CallContract` is
the abstract specification of tool calls (issued, executed at most once,
answered once, issued again only when none is open, parked and continued with
the same ones), and `KeepsCallContract` is its refinement. `DecisionLoopLedger`
holds the inductive strengthenings, `DecisionLoopCalls` and `DecisionLoopProofs` the
proofs. `MCDecisionLoop` holds the configurations for TLC.

### Journal

`DecisionLoop` under a host that writes the stream to a journal and dies at any
moment, up to `MaxRestarts` times in a chain. `Step` is the loop's step with the
bookkeeping of what the consumer has taken: results, the questions of suspended
tools, handles. Two history variables count per call the restarts that found it
open (`reopened`) and what it had executed by the last of them (`before`). `Crash`
keeps the journal and the chain's history and loses all the rest: the run, the
pause request, the cell. The handle that comes back is the newest one yielded
or, when the run that used it had not finished, that one a second time, which
`port.go:160-164` allows at the price of replaying its remaining calls. What the
host itself is like is no part of the source; the model gives it the least it
needs. That a handle comes back as it was written is checked in `EventWire`.
`JournalLedger` holds the inductive strengthenings, `JournalProofs` the proofs.

### Cell

Overlapping invocations and host goroutines around one cell. An invocation is
its boundary: closed check, `Snapshot` under the lock, a prelude that may die,
audits one by one, loop events, and the hand-back of what was not delivered.
`Authored` takes the event number in one step and `Deliver` hands the event over
in another. A host's `Replace` is `Ask`, `Boot`, `ReplaceLock` and
`ReplaceStore`, so `Close`, which takes no lock, can fall between any two;
`UpdateConfig` reads the flag and stores in two steps. Ports and configurations
are the numbers of the swaps that stored them, which makes the history of swaps
readable from the state. A swap that its slot refuses is left out: it changes
nothing.

`CellProperties` states the properties: one copy of every audit, swap order, no
effect before it is told, event numbers. Two of them say more while invocations
follow one another than where they overlap, and state the guard: swap order
(`AuditsInSwapOrder`) is promised only then, and `EffectIsTold` has one exception
under overlap, the swaps in `blind`, whose audits another invocation held when this
one took its snapshot. `blind` is a history variable; no action reads it. `AuditTrack` is the abstract specification
of the audits of one kind of swap (committed, queued, drained with the whole queue,
received in order or handed back in front); the cell implements it for organ
swaps and for configurations. `CellLedger` holds the refinement mapping and the
inductive strengthenings, `CellProofs` the proofs.

### Attempts

What the loop's modules take as one step: the attempts inside one Think
(`thinkWithRetry`) or one tool call (`actWithRetry`), the port of the latter being
a fallback stack (`FallbackEffector`; a plain port is a stack of one). `Cancel` and
`TimerFires` may happen at any time. `Release` reads the attempt's own context and
then releases it, `Decide` reads the caller's; a cancellation may fall between.
A Think and a tool call differ in where the context is read: before every Think,
but only after a tool call failed. `ThinkChecks` reads it (`retry.go:48`) and `Think`
calls the Thinker (`retry.go:52`) in two steps, as `Decide` and `AskMember` are two,
so on either path a cancellation may fall behind the check and one more call begin:
`CancelBoundsWork` bounds the calls begun late by one Think, or one attempt's
members. It is checked as a part of `Turn`.

### Turn, with Brain and GuardStack

One turn of the loop through its organs: `Attempts` composed with the membrane in
front of a call (`gate`) or behind a draft (`utter`) and with the bundled brain as
the Thinker whose answer an attempt returns. `Turn` extends `Attempts`, whose actions
it uses as they are, and instantiates the other two; each of its actions is a
step of one component, or a handover between two (`GateRuled`, `Thought`,
`TurnThinkReturns`, `DraftRuled`, `ToolWaits`, `Feedback`). `thinker = "other"` is
any other implementation of the port.

`GuardStack` is `GuardStack(layers...)`: layer after layer, each of which rules,
fails, or answers a number without a name. `Brain` is `Think` on both wires, chat
completions and Responses, blocking and streaming: rendering the tool schemas,
the request, the frames one by one, the fold. The provider speaks as the tests'
scripted endpoint does (`fakebrain.go`), and beyond that the connection may break,
the stream may end early and the SDK's accumulator may refuse a chunk at any
point. The SDK's accumulator is external: it appends texts and calls. Messages,
arguments and call ids are left out.

`Feedback` cuts the tool's text with `truncateText`, which works on bytes: a text is
the sequence of its bytes, each the length of the rune it starts or 0. `WellFormed`
is the independent definition of what a text of whole runes is.

### EventWire

The portable shape of an event, through one journal after another. `Encode` and
`Decode` are `EncodeEvent` and `DecodeEvent` with the tables of names, the
framework's sentinel errors, the verdict and the handle inside; `Relay` hands a
restored event to another journal. `Alter` replaces a record by one another build
or a crash in mid-line leaves: other versions, names this build does not know,
an unknown error code, an absent or older handle, no JSON at all. A text is
abstracted to whether JSON carries it (bytes that are not UTF-8 are replaced), an
error to the identities `errors.Is` finds in it and its text. `EventValues` and
`Records` are the types of the two sides. `EventWireProofs` holds the proofs.

### Assembly

An agent from `New` to `Close`, as far as organ instances go: `Validate`, `BootNext`
in port order, `CleanupAfterBoot` or `Assemble`; then hosts that run `Replace`, `Boot`,
`ReplaceLoad` and `ReplaceStore`, or `Close` and `RunCloser`. `Cell` has the same swap
from the side of the audits; here the old and new instance are followed, which
were brought up and who got which back. The framework's own structs (hooks and
budget) may lack parts and have no Boot; the other ports may be nil and may have
one. Validation's findings are one verdict per port and one for the agent's name
and brain parameters; `brain.New`, which only builds a value, is not a step.

`AttemptsProofs`, `TurnProofs` and `AssemblyProofs` hold the proofs of these modules.

## The runs

| Run | Bounds | What it shows |
|---|---|---|
| `DecisionLoopSerial` | 3 calls, batches of 2, 2 decisions, 1 audit; round caps 0 (the default), 1, 2 | Answers, drafts, output, outcome, round budget, pause requests; about a million states |
| `DecisionLoopBatch` | 3 calls in one batch, 2 decisions; serial with cap 2 or parallel with cap 1 and window 2, swapped between resumes | The ledger of calls, execution under Allow, handles, the window, refinement of `CallContract` |
| `Journal` | 2 calls in one batch, 1 decision, 1 death of the host; serial, or parallel without a window, swapped between resumes | What a restart replays, what the journal misses, and that every invocation settles; 680 thousand states |
| `DecisionLoopSuspended` | 2 calls, 1 decision, serial | A counterexample, see below |
| `DecisionLoopStanding` | 2 calls, 1 decision, serial | A counterexample, see below |
| `Cell` | 2 invocations at a time and 3 in all, 2 hosts, 3 swaps, 2 slots, 1 loop event each | Audits, their order and effect, event numbers; 5.2 million states |
| `Turn` | retries -1 to 2; fallback stacks of 0 to 3, membrane stacks of 0 to 2; both wires, blocking or streaming, 8 answers of the provider; 12 texts of up to 6 bytes under 6 limits | Attempts, requests, decisions, the membrane, truncation, and that a turn ends; 540 thousand states |
| `Assembly` | every blueprint; 2 hosts, 3 swaps, slots `act`, `hooks` and the unknown `closer` | Boot order, readiness, the Closer, the fate of displaced organs |
| `AssemblyRefused` | 2 hosts, 1 swap | A counterexample, see below |
| `CellOrder` | 2 invocations, 1 host, 2 swaps | A counterexample, see below |
| `EventWire` | up to 3 journals; both ends of every table of names and a value past each; 5 errors | What is lost is named, what is written can be read, nothing is guessed |
| `EventLoss` | as `EventWire` | A counterexample, see below |

Why the bounds are enough. Three calls give a batch with one call before, at and
behind the call that suspends it. Two decisions give a round behind the
suspended one, where a lost answer is seen. The number of resumptions is not
bounded: pauses may repeat without end. Window 2 under a batch of 3 makes
the ceiling bind. Three swaps and three invocations give two invocations that
both drain and hand back, and one that comes after them. Ends of the bounded
counters (`MaxThinks`, `MaxCalls`) only make the brain stop deciding; the
organ failure that is always possible there keeps the run going.
One death of the host falls between any two steps of a chain, and the restarted
host meets every handle again. With `MaxRestarts = 2` the invariants hold as well
(3 million states, too slow for a regular run). A membrane
stack of two has a layer before and a layer behind every answer. The provider's
answers are no text, one rune and two, no call, one and two, with usage or
without, and each way to fail. The texts to truncate have runes of one to
four bytes in every place, and bytes that are no rune; the limits are none,
inside the first rune, inside a later one, at a boundary and past the end.
Three journals give a loss that is new, one that is carried, and one that is
carried on.
A stack of three under three attempts has a first, a middle and a last of each;
-1 is every negative value. Three swaps by two hosts give two that meet in one
slot and one that finds what they left; `act` stands for the interface ports,
`hooks` for the structs, `closer` for a name without a slot.
A turn ends, an event arrives, the assembly may be over, and the cell may really
stop when the bounds on swaps and starts are used up, so these runs do not check
for deadlock; the loop's runs do.

### Where documents and code differ

- `DecisionLoopSuspended`: `suspend` (`pause.go:97`) marks the outcome before the
  consumer has taken `StateWaiting`. A consumer that stops there makes
  `OnCycleEnd` report Suspended with no handle given out, while `api/types.go:191`
  says the handle was yielded. The pause path marks it one event later.
- `DecisionLoopStanding`: an approved call runs without a gap point
  (`gate.go:172`) although a pause request stands, while `pause.go:11` names every
  tool execution as a gap point. The work done under the request is still
  bounded, which `PauseBoundsWork` checks.
- `CellOrder`: with two overlapping invocations the hand-back
  (`cell.go:156`) may put newer audits in front of older ones, while the comment
  above it promises swap order. Nothing is lost, which `AuditsConserved` checks.
- `AssemblyRefused`: `Agent.Replace` (`api/meow.go:61`) boots the organ between two
  reads of the closed flag. A `Close` in between refuses the swap of an organ that
  is up, while the comment says the refused port is left untouched; the Closer
  may have run before the Boot it would have to clean up after.
- `EventLoss`: `eventwire.go:13-14` says that whatever the wire cannot carry is
  reported in Dropped. A text that is not UTF-8 comes back with replacement
  characters (`json.Marshal`, line 185), and of an error that holds two identities
  only the first sentinel of the table comes back (lines 99-106); neither is
  reported. Everything else is, which `RestoredSaysWhatItLost` checks.

Smaller ones, seen while modelling and without a run of their own:

- `brain.go:24-27` calls the mode a transport choice. A chat stream that ends early
  is folded as it stands once a choice has arrived; a Responses stream without its
  terminal event is an error. `DecisionIsTheAnswer` states both.
- A wait record whose handle is absent decodes to a wait with the zero handle
  (`decodeWait`), which `EncodeEvent` then refuses, so such an event can be read and
  not relayed. `OnlyReadableRecords` names the exception.
- `truncateText` marks a text as truncated though its single rune is kept whole,
  when the limit falls inside it. `TruncationKeepsRunes` allows the mark.
- `cell.go:168-173` calls the start of an invocation, where the audits are emitted,
  the moment the swaps take effect (as `cell.go:60-63` does of a port swap and
  `UpdateConfig` of a configuration). Where two invocations overlap, one may have drained the audits
  without having delivered them when the other takes its snapshot: the other then
  works with the swapped ports and has no audit to emit, so the effect precedes the
  telling. `EffectIsTold` names this exception and allows no other; without it TLC
  finds the case after one swap and two snapshots.
- `UpdateConfig` (`cell.go:227`) reads the closed flag outside the lock, so one that
  overlaps a `Close` may store after it. It may as well be taken to come
  before that `Close`, so nothing promised is broken.

### Fairness

Safety runs assume none. `Journal` uses `WF_jvars(Step)`: the consumer comes back from
every yield and every organ call returns, so a run that can take a step takes
one. The loop runs on the consumer's goroutine, and the batch's goroutines are
awaited by a `WaitGroup`, so this asks only for a scheduler that runs a runnable
goroutine and for organs that return. Nothing is assumed of the host: it may
never pause, resume or cancel, and need not die.

`Turn` uses `WF_tvars(TStep)` for the same reason: membranes, tools and other Thinkers
return. Nothing is assumed of the provider, whose frames are not in `TStep`; the
bundled brain has no timeout of its own. So `TurnEnds` promises the end
of a Think by the bundled brain only once the caller cancels, where the SDK ends
its request because the context is done. Neither the timer nor the caller need
ever fire or cancel.

## The proofs

Everything below is proved with TLAPS for every value of the constants.

### The loop

`DecisionLoopCalls` and `DecisionLoopProofs` prove every safety property of the loop that a passing run checks: `TypeCorrect`,
`ExecutesOnce`, `HandlesCarryOpenCalls`, `AnswersSeen`, `DraftsWithheld`,
`OutputHeard`, `OutcomeMatches`, `RoundsBudgeted`, `PauseBounded`, `WindowKept`, the
action properties `RequestOwned` and `TerminalEnds`, and the refinement
`ContractKept`. Assumptions: the bounds are natural numbers (`BoundsAssumption`) and
the configurations are records of a cap, a flag and a window
(`ConfigsAssumption`).

The argument about calls. "Executes once" is not inductive: nothing in it says
that a call about to execute has not executed already. `CallLedger` says at every
control point which calls are unanswered, namely those the run still has in hand
(the current call, the rest of the pass, the admitted batch, the tail of the
handle it resumes), and which of these have executed. Each conjunct is one region
of the control flow (`OwesRound`, `OwesSerial`, `OwesBatch`, `OwesSuspension` and so
on); `Shapes`, `Passes` and `Stages` say how the slices of a pass relate;
`Answers`, `Executions` and `Handles` carry the account across suspensions. Types
need the ledger too: a pause hands on the current call together with the rest of
the pass, and that the current call is a call at all is a conjunct of `Passes`.
So `LedgerInvariant` proves `TypeOK /\ CallLedger` as one invariant. There is one
lemma per action, with a step per conjunct the action can disturb, and lemmas
about the account itself (an answer moves a call out of the set, an execution
marks it).

On top of it, `LedgersInvariant` proves five more, one per concern. Each rests on
types and the ledger of calls; of the others, only the final output needs the
drafts, and the spent ceiling the stream. So each has its own lemmas:

- `DraftLedger`: the one draft that may be waiting is the newest, newer than all
  that was heard, and its handle is about it; the output of a run and of its handle
  is what was heard. Without it a resumed handle could say an older draft again.
- `StreamLedger`: which outcome and which last event go with a control point. The
  consumer may stop between the two, which the property at the end of the cycle
  does not see.
- `RoundLedger`: how many decisions lie behind the run, given the round its handle
  started in; a resumed batch belongs to a round already decided, so the count
  differs by one with `stage`.
- `LateLedger`: where a call may still execute before the next gap point, none has
  under the standing request, except in a batch, where as many as have started.
- `WindowLedger`: the goroutines that run were admitted and are no more than the
  window.

### The cell

`CellProofs` proves `CellTypeCorrect`, `AuditsKept`, `AuditsOrdered`, `EffectTold`,
`NumbersUnique` and, for each kind of swap, `CellImplementsTracks`: the cell with
what its runs hold implements `AuditTrack`. Assumptions: those of `Cell` on hosts,
runs, slots and bounds.

The argument. `Conserved` says that every committed audit is received, queued or
held by one run, once; it is stated over sets and injective sequences, since a
hand-back in front of newer audits keeps neither order nor position. A swap's
number is its audit's identity, so a new one must be fresh: `Numbered` bounds the
numbers by what has been stored, and `Hostbook` reserves room for the hosts that
have asked (two hosts that asked while one number was left would store a third).
`Phases` says where a run can hold audits at all. Order holds only while
invocations follow one another: then `InOrder` has one active run, and received,
held and queued in a row are the history. `Tell` adds up what a run's consumer
was told and is about to be told, and gets its configuration and ports;
`Wired` says the same of the whole history and the cell. `EffectTold` needs a part
that does not stop at the first overlap: `Owed` accounts for every swap a run works
with by the audits received, those in the run's own hand, and `blind`. At a snapshot
it follows from `Conserved` (the audit of a swap the cell is wired with is received,
queued, and so drained by this run, or in another's hand), later because a run's audits
leave its hand only to a consumer until it hands them back, and a loop that has
begun has none left. `Numbers` makes an event
number on its way fresh, for which two runs may not share one.

### Attempts and the turn

`AttemptsProofs` proves, for every set of retries and stack lengths,
`NoEarlyFailure` (`GivesUpForAReason`), `CancelIsBounded`, `FailureCaused`,
`ResultIsFinal` and `NoRetryAfterTimeout`. The invariant adds where the timer can be
armed (`Timers`), what the last answer can have been at each control point
(`LastAnswer`), and how many members a cancelled call can have asked by then
(`LateCalls`: none at a new attempt of a tool call, since `Decide` would have ended
it, and none where a Think has just checked the context; the Think it then begins
may be the one late call).
Assumption: retries are integers and stack lengths naturals.

`TurnProofs` proves that a turn implements the attempts: `TurnImplementsAttempts`
(`TSpec => Spec`), since every step of a turn is one of theirs or leaves their
variables alone. So the five invariants and action properties of `AttemptsProofs`
hold of a turn (`TurnAttempts`) with no proof of their own. Five more are proved for
every stack, every provider, every text and every number of retries:

- `MembraneKept` (`MembraneHolds`). The invariant `Ruled` says of the stack what its
  votes so far are (no denial before a ruling, the first question in `asked`), and
  `Phases` that a turn past its gate has an Allow, since only `GateRuled` opens it
  and no ruling is ever replaced.
- `RequestsBounded` (`RequestBudget`). The invariant `Budget` counts the requests
  against the attempts by the brain's stage: at rest and just called it has sent
  no more than one per finished attempt, later one more. Of a caller that is gone it
  counts the late ones (`lateRequests`, a history variable): one at most, sent by the Think
  under way, and none may follow, since the next check ends the turn.
- `AnswerDecides` (`DecisionIsTheAnswer`). The invariant `Wire` says of a stream how
  far it is: there is a number of frames that have arrived, the frames left are the
  rest of the answer's script, and what the fold and the sink hold is a function
  of that number (`Arrived`). The lemmas compute one frame of each wire; that the
  last one completes the answer is arithmetic on the length of the script.
- `TruncationSound` (`TruncationKeepsRunes`). The cut falls on the start of a rune
  because the bytes of a rune are marked by its length; the last start at or before
  the limit exists since a set of positions has a greatest element, which is where the
  argument needs the well-foundedness of the natural numbers and no induction over
  the text.
- `TurnTypeCorrect` (`TurnTypeOK`), from all of these and `Rest`, which says that only a
  turn that is over has fed anything back.

Assumptions: stack sizes are naturals, the provider's answers are of the shape
`Reply`, texts are sequences of rune lengths.

### The assembly

`AssemblyProofs` proves, for every number of hosts and swaps, types
(`AssemblyTypeCorrect`), `OrgansKept` (`NoOrganLost`), `ClosedOnce` (`ReleasedOnce`),
`WiredOrgansAreUp` (`WiredIsReady`) and `StartupsAreEarned` (`BootsAreEarned`). The
argument is ownership: an incoming organ is in the hands of one host only (`Swapping`), who holds the lock while it
stores and so knows which organ it displaces (`Locked`), and no two slots share an
organ (`Wiring`). Assumption: `Free` is no host, so that a free lock is nobody's.

### The journal

`JournalProofs` proves the two invariants of `Journal` for every number of calls,
batch size, configuration and death of the host: `RestartsKept`
(`RestartsKeepTheLedger`) and `EffectsAreJournalled` (`UnjournalledWorkIsBounded`).
Assumptions: those of the loop, and that `MaxRestarts` is a natural number.

The argument. A run that resumes a saved handle does not know that its
predecessor died: it looks like a run of a chain nobody interrupted, in which a
reopened call has not executed yet and a call the dead run issued and no handle
knows was settled long ago. So the ledger of calls is not proved again. `Kept` is
an instance of `DecisionLoopCalls` with `acted` counted since the last restart that
found the call open (`ActedSince`) and the lost calls counted as answered wherever
answers are (`Marked`). Every step of the loop under a journal is a step of `Kept`,
which is what the first half of the module shows, action by action, and keeps the
ledger by the lemmas of `DecisionLoopCalls`. `Crash` is no such step and is
proved on its own. For it the handle in use must still be a handle of the
chain when it comes back a second time, though the run that used it has issued and
executed calls meanwhile; `UnderWay` says so while that run goes on. `Lineage` says
that only a resumed chain can have lost calls and that an execution counts as past
only where a restart found the call open. All of it is `RestartLedger`, proved by
`RestartsAccounted`.

`JournalLedgers` says at each control point what the world has seen and the journal has
not: the call whose result is on its way, the handle about to be yielded, the
members of the batch that have run and are not yet fed back. Only an execution
adds to it; a result that was taken, or a tool's question saved with its handle, takes
away.

### The event codec

`EventWireProofs` proves `LossesNamedOnce` (`RestoredSaysWhatItLost`) and
`RecordsReadable` (`OnlyReadableRecords`) for every number in an enum field, named or
not, every error, every number of journals. Assumptions: enum values are integers
(`TablesAssumption`), nil is no value (`NilAssumption`), errors are records of
identities and a text (`ErrorsAssumption`), and the strings the source names are strings
(`StringsAssumption`).

The argument. A table of names that holds no name twice and no empty one makes
names and values restore each other (`NameRestores`, `ValueRestores`); the four
tables of the source are such tables. From this the lemmas follow an event through
`EncodeEvent` and `DecodeEvent` part by part: an event restored from a record of this
build can be written again, and restoring it a second time changes nothing more;
a record that was read and written again is the same but for unknown error codes
and `Dropped`. So without a foreign record there are only two events, the yielded one
and the restored one, however many journals follow: `Faithful`. `Sourced` ties a
restored event to its record, `Refusals` the refused ones to foreign records.
`Restored` is the composition of the two directions, and the loss of an error is named
once because the restored one is lost again and its name is already there.

### What is checked and not proved

TLC checked every inductive invariant above before its proof: `CallLedger` in the
run `DecisionLoopBatch`, the others as invariants under the constants of
`DecisionLoopSerial`, `DecisionLoopBatch`, `Cell` (with two swaps), `Turn`,
`Assembly`, `Journal` and `EventWire`.

Every safety invariant and every action property that a passing run checks is a
theorem. Only model-checked is liveness (`RunsSettle`, `TurnEnds`), which needs
fairness and ENABLED and stays with TLC.

## Not modelled

Panics of organs and consumers, which unwind through the iterator (the hazard
at `cell.go:80` has no property for that reason). Prompt contents: rendering tracks
and history into messages (`render.go`) and schemas into tool parameters
(`tools.go`, of which only that it may fail is modelled). The regulator's choice of
what to trim. The blueprint's static table and its renderings (`wire.go`), the
aliases and error values of `api`, and the stubs of the tests. The map in
`PROJECT.json` names the modelled lines.

## The plan

1. Done: the decision loop with membrane, suspensions, pause and batches; the
   cell under overlapping invocations; the call ledger and its proofs.
2. Done: `Attempts` and `Assembly`, with their proofs.
3. Done: `Turn`, the composition of attempts, membrane stack and bundled brain,
   with the refinement to `Attempts`; `EventWire`; `Journal`, the loop under a host
   that dies and restarts.
4. Done: the proofs about the loop, with the refinement of `CallContract`; about the
   cell, with `AuditTrack` and its refinement; about a turn, its wire, its texts and
   its types; about the types of the assembly; about restarts and the journal, for
   every number of deaths; about the event codec, for every event.
5. Left: a journalled chain as a refinement of a contract of its own, as
   `KeepsCallContract` is for a chain nobody interrupts; the handles of `Journal`
   carried through the codec of `EventWire` in one composition.
