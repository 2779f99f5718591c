# http-body in TLA+

A verification project for the two crates of this repository: `http-body`, the
trait `Body` with its `Frame` and `SizeHint`, and `http-body-util`, the bodies
and combinators built on it. Paths below are relative to the root of the
repository; `util/` stands for `src/http-body-util/src/`.

A `Body` is an asynchronous stream. A task calls `poll_frame`, which gives a
data frame, a trailers frame, an error, `Ready(None)` for the end, or `Pending`,
in which case some waker must fire before it makes sense to ask again. Beside
it `is_end_stream` and `size_hint` say what is still to come. Everything that is
hard here comes from three sources: the contract of `poll_frame` is a protocol,
with rules for both sides that types do not express; a combinator keeps state
from one call to the next while another body moves on below it; and one body,
the `Channel`, is shared by two tasks that may run on two threads.

## 1. Inventory

| Component | State | Operations | Module |
|---|---|---|---|
| `Body` (`src/http-body/src/lib.rs`) | none, a contract | `poll_frame`, `is_end_stream`, `size_hint`; forwarding through `&mut T`, `Pin`, `Box`, `Request`, `Response`; `String` is a body | `FrameStream` (the contract), `BodyTask` (the consumer), `Bodies` (bodies to wrap), `Adapters` (`String`) |
| `Frame` (`frame.rs`) | data or a header map | constructors, accessors, `map_data` | `Bodies` |
| `SizeHint` (`size_hint.rs`) | two bounds, u64 | `new`, `with_exact`, `set_lower`, `set_upper`, `set_exact`, `+` | `SizeHints`, `SizeHintOps`, `SizeHintProofs` |
| `Channel`, `Sender` (`util/channel.rs`) | a tokio mpsc and a tokio oneshot, two handles on either side | `send`, `try_send`, `capacity`, `abort`, drop; `poll_frame`, drop | `Channel`, `ChannelProofs` |
| `Chain` (`util/combinators/chain.rs`) | `First`, `Second` with kept trailers, `Finished` | `poll_frame`, `is_end_stream`, `size_hint` | `Chain`, `ChainProofs` |
| `WithTrailers` (`util/combinators/with_trailers.rs`) | `PollBody`, `PollTrailers` with kept trailers, `Done` | `poll_frame`, `size_hint` | `WithTrailers`, `WithTrailersProofs` |
| `Fuse` (`util/combinators/fuse.rs`) | the body, or nothing | `new`, `poll_frame`, `is_end_stream`, `size_hint` | `Fuse` |
| `Limited` (`util/limited.rs`) | bytes that remain, usize | `new`, `poll_frame`, `is_end_stream`, `size_hint` | `Limited` |
| `TryFutureBody` (`util/future.rs`) | `Future`, `Body`, `Failed` | `new`, `poll_frame`, `is_end_stream`, `size_hint` | `TryFutureBody` |
| `MapFrame`, `MapErr`, `InspectFrame`, `InspectErr`, `Either`, `BoxBody`, `UnsyncBoxBody` | none of their own | `poll_frame`, `is_end_stream`, `size_hint` | `Adapters` |
| `StreamBody`, `BodyStream`, `BodyDataStream` (`util/stream.rs`) | none of their own | `poll_frame`, `poll_next` | `Adapters` |
| `Full`, `Empty`, `Pending`, `ErrorBody` | at most one result | `new`, `poll_frame`, `is_end_stream`, `size_hint` | `Adapters` |
| `Collect`, `Collected`, `BufList` (`util/combinators/collect.rs`, `util/collected.rs`, `util/util.rs`) | a list of buffers, trailers | the future's `poll`; `poll_frame`, `take_trailers`, `aggregate`, `to_bytes`; `chunk`, `chunks_vectored`, `advance`, `copy_to_bytes`, `remaining` | `Collect`, `CollectProofs` |
| `BodyExt`, the `Frame` future (`util/lib.rs`, `util/combinators/frame.rs`) | none of their own | `frame().await` and its cancellation, `with_trailers`, `fuse`, the other adapters | `Pipeline` (the composition), `PipelineProofs`, `Adapters` |

How they interact: a task calls a body, a body calls the bodies it wraps in the
same call, and news travels back only through wakers. Only the two halves of a
`Channel` share state between tasks. A combinator also owns what it wraps: a
`WithTrailers` or a `Fuse` that drops its body drops the receiving half of a `Channel`,
which the Sender notices.

What makes each correct, and where it is hard:

- **Channel.** Frames arrive once and in order; the end means that the Sender is
  gone and nothing is buffered; an abort never looks like an end; slots of the
  buffer are neither lost nor made; no wake-up is missed. Hard because
  `poll_frame` asks two tokio channels one after the other, and `abort` and the
  drops touch two handles one after the other, while the other task runs.
- **A Channel behind combinators.** All of that must survive `with_trailers`, `fuse` and
  a `frame()` future that is dropped while it is pending. Hard because the waker has
  to follow the layer that is being read, the change of layer happens in the middle of
  a poll while the Sender and the task behind the trailers go on, and a body that is
  complete must be let go before anything waits for the trailers, or its Sender waits too.
- **Chain, WithTrailers.** One stream out of two sources: all data, then one
  merged trailers frame, no frame after an error. Hard because trailers are kept
  over many calls, and because the call in which a source completes has nothing
  to return by itself: it must poll the next source, or nobody wakes the task.
- **Fuse.** The body is left alone once it has ended, whatever it would do and
  whatever the task does. **Limited.** The error comes exactly when the limit is
  exceeded, and the hint accounts for it. **TryFutureBody.** The future is polled
  until it resolves and never again.
- **Collect.** Either every byte and all trailers, or the error; and the reader of
  the result always makes progress.
- **SizeHint.** Sums that fit are exact, and the bounds do not cross. Hard because each
  setter looks at one bound only and `+` at neither: a release build, where a sum wraps,
  can make bounds cross, after which `set_lower` and `set_upper` panic.
- **Hints of all bodies.** At every moment `size_hint` bounds what is still
  delivered, and `is_end_stream` is true only when nothing is.

An error is a result that ends a stream; nothing here retries, times out or
persists, so there are no restarts and no lost messages to model. What can panic
(a oneshot or a future polled again, bounds that cross, `BufList::push` of an empty
buffer) is modelled where it can happen or is what a property excludes.

## 2. Modules

```
FrameStream                     the contract: an abstract stream of frames
Channel ── MCChannel            refines FrameStream on one thread
  ├ Pipeline ── MCPipeline      a Channel behind WithTrailers and Fuse
  └ ChannelProofs ── PipelineProofs
SizeHints                       the arithmetic of hints
  ├ SizeHintOps ── MCSizeHintOps        └ SizeHintProofs
  └ Bodies                      frames, results, scripted bodies and their hints
      ├ BodiesProofs            what their operators compute
      ├ Collect ── MCCollect                └ CollectProofs
      └ BodyTask                the task that polls a body
          ├ Chain ── MCChain                └ ChainProofs
          ├ WithTrailers ── MCWithTrailers  └ WithTrailersProofs
          └ Wrapped             a body that wraps one other
              ├ Fuse ┐
              ├ Limited ├ Wrappers ── MCWrappers  └ WrappersProofs
              ├ TryFutureBody │
              └ Adapters ┘
```

**FrameStream** says what a body promises: frames of its source once each and in
order; the end after all of them and only from a source that finished; an error
after the frames before it and only from a source that failed; both final. The
source may go on producing while it is read.

**Channel** has one variable per handle and per thing a handle remembers. The
mpsc is `queue`, `permits`, `txFrame`, `rxFrame`; the oneshot is `slot`,
`rxError`; `sender` and `body` say where each task is in its call, `frameWaker`,
`errorWaker` and `notified` where its waker is. Every call on one tokio channel
is one step, which is as fine as the code can be seen from outside: `poll_frame`
is `PollRecv` then `PollError`, `abort` is `Abort` then `DropTxFrame`, the drop
of a Sender is `DropTxFrame` then `DropTxError`, the drop of a body `DropRxFrame`
then `DropRxError`. `send().await` is `Send`, and if it has to wait `ResumeSend`
or `CancelSend`. The constant `Preemptive` says whether the two tasks are on
different threads; on one thread a synchronous call is not interrupted.

**Pipeline** puts a Channel behind `with_trailers(..)`, `fuse()`, both (Fuse outside) or
neither, and reads it with `frame().await`. It EXTENDS `Channel` and adds the state of
the two combinators (`state`, `kept`, `inner`), the trailers future with its waker,
which a background task resolves (`Resolve`), and `call`, where the poll of the whole
is. One poll is several steps here: `PollChannel`, `PollChannelError`, then, when the
body turns out complete, the drop of the Channel (`DropChannelFrames`,
`DropChannelError`), which the assignment of the next state performs, and `PollFuture`.
The Sender and the background task may run between any two of them, unless `oneThread`
says that all tasks share a thread. `CancelFrame` drops a pending `frame()`, as a timeout
or a `select!` does, and `DropStack` the whole, also in the middle of its life or after a
panic. Every step is a step of `Channel` or leaves its variables alone.

**Bodies** models a body that is wrapped as the *script* of the results its next
polls give. Scripts are arbitrary sequences of frames, `Pending`, `End` and
`Failure`; a script may go on after its end, and a combinator that promises more
than it is promised has to keep its word over such a script too. A hint of a
scripted body is honest and says more or less: nothing, the exact length, an upper
bound, or the largest upper bound there is.

**BodyTask** is the consumer. It polls until the end and may poll after it, as
the contract allows. After an error it polls on only where the code says what happens:
`Fuse` is documented to bear it, the tests of `Chain` and of `ErrorBody` do it
(`util/combinators/chain.rs:457`, `:484`), and `TryFutureBody` has its state
`Failed` for it. Any other body it discards, as the contract asks
(`src/http-body/src/lib.rs:58`); a `WithTrailers` whose future has failed would poll a future
that has resolved. After `Pending` it sleeps
until a waker fires, and a waker fires only if what the call polled last was
pending itself. So a combinator that returns `Pending` on its own makes the
task sleep for ever, and liveness fails.

**Chain, WithTrailers, Fuse, Limited, TryFutureBody, Adapters** have the states of
the code under its names and one action for `poll_frame`; loops and recursion
within a call are unfolded, so that a call stays one step. The bodies that wrap
at most one other are put together in **Wrappers**, where the variable `wrapper`
says which one a behaviour is about; the state of the others is constant.

**Collect** follows the bytes of a body into the list of buffers and out again
through every reader. A byte is known by the size of the frame it came in and its
place in it, so a lost, doubled or displaced byte shows. `ReadVectored` takes any number
of the bytes that `chunks_vectored` shows, for any room the caller has.

What correctness of a combinator means is stated the same way each time: `Left` is
the sequence of frames it still owes its task, defined from what is left of its
sources and not from what the combinator does, `Fails` whether an error is to
come. `ImplementsStream` says that `returned \o Left` is the constant content of a
`FrameStream`: no step may lose, double, invent or reorder a frame, or end early,
late, or twice. `HintsAreSound` compares the hints with `Left`.

## 3. What is checked

| Run | Question | Instance |
|---|---|---|
| `ChannelThreads` | Two threads: are frames, slots, wake-ups, aborts and ends kept, and does every pending call get its answer? | 2 frame values, 2 slots, 4 frames sent |
| `ChannelOneThread` | One thread: is a Channel a `FrameStream`? | the same |
| `ChannelTruncates`, `ChannelRepoll` | violations, see section 5 | the same |
| `Pipeline` | Behind `Fuse`, `WithTrailers`, both or neither: is every frame delivered once, does the waker follow the layer that is read, is a Sender ever kept waiting by a reader that waits for trailers, are ends and failures told as what they are, and are they told? | one data and one trailers frame, 2 slots, 4 frames sent, 4 stacks, one thread and several |
| `SizeHintOps` | Which sequences of calls make a hint that no body can keep? Are sums that fit exact? | 2 hints, width 0..5, a build with overflow checks and one without |
| `Chain` | Is a chain one stream with the merged trailers? | every pair of scripts of up to 3 results, trailers that conflict in one name |
| `WithTrailers` | The same of a body and a future | every script of up to 4 results, futures pending 0 to 2 times |
| `Wrappers` | Is each wrapper the stream it owes? Fuse's, Limited's and TryFutureBody's own promises; is no task left asleep? | every script of up to 3 results with frames of 0, 1 and 2 bytes; limits 0, 1, 2, 3 and the maximum; 4 kinds of hints |
| `Collect` | Are all bytes and trailers kept, through every way of reading? | every script of up to 4 results |
| `ChainOverflow`, `WithTrailersRepoll` | violations, see section 5 | scripts of 1 and 2 results |

Why the bounds are enough. A second frame value makes reordering visible; the
channel never looks into frames, so more values add nothing; `WithTrailers` only asks
whether a frame is trailers, so one of either kind is enough for `Pipeline`. Two slots are the
least at which the buffer is empty, partly full and full; four frames fill it twice,
so that slots are reused after waits and cancellations. A combinator looks at one
result at a time, and what it remembers is one of a few states with at most one
trailers frame: three results take it through every state, and one result further,
with every kind of result in every state; bodies of two frames followed by an
error or an end after trailers are among them. The limits are below, at
and above the bytes of a body, with empty frames and trailers on either side. Widths of
integers are parameters; the small ones make overflow happen.
`MaxPush`, `MaxResults` and `MaxU64` are the only bounds.

The type invariants of `Pipeline`, `Chain` and `WithTrailers` are not listed with the runs:
they are proved for all instances (section 4), as parts of the invariants there, and so
is that of `Collect`; `BytesConserved` and `TrailersConserved` say more of every variable
that a reader can see.

Every property is accompanied in `PROJECT.json` by at least one mutant, a
definition marked `Mutant:` in the modules that stands for a plausible bug in the
code, under which the run finds the property violated.

**Fairness.** In `Channel`: synchronous calls return (`PollError`, `DropRxError`,
`DropTxError`, the end of `abort`), a send future that may go on is polled, and the
consumer polls when a waker has fired or when it was given a frame
(`OwedPoll`). That is what an executor does and what a consumer that reads
on does. Polls that no waker asked for happen but are not relied on. Nothing
makes a Sender send, abort, cancel or drop. In `Pipeline` the same holds: a poll that has begun goes on
(`CallGoesOn`), so do an `abort`, a drop and a send that may (`SenderGoesOn`), and the
reader polls after a frame and when a waker of the layer being read has fired
(`StackOwedPoll`), as long as it has been told no end. Nobody has to send, to resolve the
future, to cancel or to drop. In the bodies over scripts: a ready
task is run while the stream is open, and what was pending gets ready and fires
the waker that it was given. Nothing fires a waker that was not left with anybody.
All fairness is weak.

## 4. What is proved

`ChannelProofs` proves, for every set of frames, every capacity, every number of
sends and both values of `Preemptive`, that the safety properties which hold of
the channel hold in every behaviour: `TypeOK`, `FrameConservation`,
`CapacityConserved`, `NoLostWakeup`, `NoMutualWait`, `AbortIsNotEnd` and
`EndCoversPoll`; and, assuming `~Preemptive`, `EndIsComplete` and the refinement
of `FrameStream`. The assumptions are those of the module: a capacity that is
not zero (`mpsc::channel` panics on zero) and a bound that is a number.

None of the properties is inductive by itself, since a task in the middle of a call
has already changed one handle and not the other. The inductive invariant `IInv`
adds what the handles say of one another. `SenderHandles`: the oneshot is empty
unless `abort` has begun or the Sender is gone, `tx_frame` is dropped exactly from
the first step of a drop or the end of an abort, and a send waits only when no slot
is free. `BodyHandles`: the same of the receiving side. `Verdicts`: an end was reported
only of a oneshot that was dropped, an error only of one that has an error.
`BetweenPolls`, the heart of it: a `poll_frame` that has asked the mpsc has
seen every frame accepted before it began, and unless a waker has fired since
there is nothing to read and its waker is in place. There is one lemma per action;
`Invariance` puts them together, and the properties follow. `NoMutualWait` follows
by counting: a send waits, so no slot is free, so by `CapacityConserved` the buffer
has a frame, so by `NoLostWakeup` the task is awake. On one thread
`OneThreadInv` adds that the buffer is still empty at the second poll of a
`poll_frame` that found it so, since the Sender does not run in between, and
that an end came after every frame;
the refinement goes action by action.

`SizeHintProofs` proves, for every width, every set of variables and both kinds of build,
when the bounds of a hint are in order (`HintsOrdered`) and that sums which fit allow
exactly the sums of the allowed lengths (`SumsArePerfect`). With overflow checks they are in
order always, since a sum that overflows panics. Without, a sum of which both bounds wrap is
wrong but in order; one of which the upper bound alone wraps may cross, and so may what is
added to it. The history variable `skewed` holds the variables whose hint comes from such a
sum, until a setter or a constructor puts it right, and `Ordered` claims nothing of those. The invariant
is `TypeOK`, `Ordered` and that a build with overflow checks skews nothing. The
second theorem rests on the first: a hint whose bounds have crossed allows nothing, and its
sums might allow something.

`PipelineProofs` carries all of this over. `StackStep` shows that a pipeline takes no
step with its Channel that a Channel does not take, so `IInv` holds in it for free; what
remains is how the layers agree, in five parts. `Layers`: which layer a poll is in, and
which still has its body. `FutureWaits`: a `frame()` that is pending on the future has
left its waker there. `FuseHolds`: what a Fuse still has has not ended. `Outcomes`: what
the reader was told is what the Channel and the future came to. `Uninterrupted`: on one
thread nothing is pushed in the middle of a poll. From these follow, for every set of
frames, capacity and stack, `StackNoLostWakeup`, `StackNoMutualWait`, `FuseIsFinal`,
`EndOfStackIsWhole` and `FailureOfStackIsNotEnd`.
`NothingLostInStack` needs a sixth part, `Handed`, about the frames themselves: each that the
Channel returned is at its place with the reader or is the one that is kept, and the
trailers of the future are in the last one exactly when the future has been polled to its
end. It is stated by places in the sequences and not by selecting from them, which is
both closer to what it means and what the prover can follow.

The proofs about combinators speak of bodies of every length and rest on
`BodiesProofs`. What is left of a body is computed by recursive functions over
sequences, so facts about it need induction, and they get it in first-order form:
a set of numbers that is not empty has a least one (`LeastOfSome`, from the library's
`WFMin`), so what is handed on from each number to the next holds of all (`HandedOn`). With it
`LeftOfComputes` shows that the recursive function exists and `LeftOfUnfolds` that the
frames left of a body are those of the next result and of the rest; `BytesAppend`
does the same for sums of bytes. `BodyUnfolds` says all that a combinator goes by: what
`Pending`, a data frame, trailers, the end or an error leaves of a body. `FollowedUnfolds`
lifts that to a body after which something else is owed.

`ChainProofs` and `WithTrailersProofs` prove `ImplementsStream`, the refinement of
`FrameStream`, for every two bodies, and for every body and future. The invariants say
which trailers are kept, that nothing has been told while something is left and, for
`WithTrailers`, that the future is there until it is resolved and not polled after that but
by a task that has seen the end. Each answer then falls under one of the four forms of
`Leaves`, and each form is a step or a stutter of the stream (`AnswersStep`). The one
hypothesis on bodies is `TrailersLast`, that their trailers come last among their frames.

`WrappersProofs` proves, for every body, `NeverPolledAgain` of Fuse (over bodies that keep
to nothing), `ResolvesOnce` of TryFutureBody, `LimitIsExact` of Limited, and `TypeOK`, which
says above all that `remaining` never underflows. `LimitIsExact` is about the steps of
`poll_frame`: they give an error exactly when the body does or when the bytes returned and the
next frame together exceed the limit. The code compares the frame with `remaining` only, so the
proof needs that the bytes returned and `remaining` make up the limit (`LimitInv`). It proves `ImplementsStream` of every
wrapper, adapter and leaf body at once. `StreamInv` says what a body is when its task has
been told something: but for a Fuse, a body has nothing after its end or its error; a Fuse that
has told one has dropped its body; what a `TryFutureBody` told is what its future resolved to;
what a `Limited` returned and what remains make up the limit. For `Limited` the frames it owes are
the longest prefix of the body's that is within the limit; `WithinFits` says that what fits into
the limit behind what was returned is what fits into what remains, so that taking one frame
from the body takes one from the prefix. A frame that does not fit cuts the rest off,
whatever the body would still give.

**Hints.** `HintsAreSound` is proved in three modules: a hint says of what is still to
come no less than the lower bound and no more than the upper one. `HintsHold` shows it of a wrapped
body, `BytesOwed` and `BytesConcat` that the bytes owed are the sum of those of the parts,
`LimitedHintsHold` that the smaller of the body's bound and `remaining` is a bound. Sums and
hints have the width of the code, so each theorem has a hypothesis about it. If some body may
name the largest number as its upper bound (`"max"`), every body must be `Representable`, its
bytes plus two at most `MaxU64`; of a chain, by `NoOverflow`, no body names the
largest bound and the bytes of any two bodies plus four, the slack of both hints, are at most
`MaxU64`. The instances that TLC checks meet the hypotheses: with `MaxU64` = 15, 3 + 6 + 4
in `Chain` and 6 + 2 in `Wrappers`. They are needed:
`ChainOverflow` (section 5) is what happens to a chain without.

`CollectProofs` proves all the safety of `Collect`. `NoPartForTheWhole`: however
often the future is polled, it fails exactly if its body does. `EveryByteOnce`,
`TrailersReadOnce`, `ChunkShowsRest`, `CollectTypes`: an invariant `CollectedInv` with
four parts. While the future collects, the bytes that are kept followed by those the body has
left (`BytesAhead`), and the trailers kept joined with those it has left
(`TrailersAhead`), are those of the whole (`CollectingAll`); afterwards the bytes read
followed by those kept are (`ReadingAll`), and the trailers are in one of two places
(`TrailersOnce`); no buffer is ever empty (`CollectedTypes`), which is what makes `chunk()`
tell the truth. None of the properties is inductive: they say nothing while the future
is collecting, nor of empty buffers, which a zero-length copy or an `advance` that ends at a
boundary could leave. The loops of the code are folds, of which the library says nothing; `FoldExists`
shows that the function a fold is defined by exists, and one lemma for each fold
(`PushFrameFolds`, `SkipFolds`, `SlicesFold`) that its values follow one another. From these
`PollCollects` (a poll loses nothing, by induction over the frames it takes),
`AdvanceSkips` (advance leaves the list without exactly the bytes asked for) and `VectoredIs`
(the slices are the first buffers). `JoinAssociative` and `LastHaving` relate trailers that are
joined one frame at a time to each header's last value.

**What is safe about waiting.** The liveness properties need two things that are safety, and
those are proved. No task sleeps without a waker that will fire: `ChainWakeupsKept`,
`WithTrailersWakeupsKept`, `WrappersWakeupsKept`, `CollectWakeupsKept` (a parked task was told
`Pending` by something that was pending itself; the body called `Pending` is the exception, as
documented), beside `NoLostWakeup` of the Channel and `StackNoLostWakeup` of a stack. And what
is to be done gets less: `PollsShorten` (every poll of `Collect` resolves it or leaves less
of the body) and `ReadsShorten` (every `advance` leaves fewer bytes, so that a reader that
reads while something remains is done at last).

Every safety property that a run checks is thereby proved for all instances. Only
model-checked are the liveness properties, `PendingSendResolves`, `AcceptedIsReturned`,
`SenderGoneIsReported`, `Finishes`, `Resolves` and `StackFinishes`: they rest on fairness, hence on
`ENABLED`, which this prover does not reach.

## 5. Where code and documentation differ

1. `ChannelTruncates`: when the Sender, on another thread, sends a frame and is
   dropped between the two polls of `poll_frame` (`util/channel.rs:50` and `:56`),
   `Ready(None)` is returned with the frame still buffered. The contract
   (`src/http-body/src/lib.rs:55`) has `Ready(None)` mean that all frames have
   been returned. What does hold is `EndCoversPoll`: the end covers the frames that
   were there when the call began; and on one thread the end is complete. Both are proved.
2. `ChannelRepoll`: `poll_frame` after `Ready(None)` polls a oneshot receiver that has
   completed, which panics. The contract (`lib.rs:60`) has implementations return
   `Ready(None)` again.
3. `WithTrailersRepoll`: when neither the body nor the future has trailers, the state
   is left at `PollTrailers` (`util/combinators/with_trailers.rs:93`), and the next
   `poll_frame` polls a future that has resolved.
4. `ChainOverflow`: hints are added with `+` (`src/http-body/src/size_hint.rs:92`),
   which overflows for the largest upper bound, the one a `Limited` with `usize::MAX`
   has; in a release build the chain then hints fewer bytes than it delivers. When only the
   upper bound wraps the bounds may even cross: `{0, Some(u64::MAX)} + {2, Some(2)}`
   is `{2, Some(1)}`. `SizeHintOps` has that sum among its calls, and
   `Ordered` says that nothing else makes bounds cross.

An observation that no document decides: `Chain` and `WithTrailers` take the trailers
of a body for its end and do not poll it again; an error that would come after
trailers is not seen. The reference streams say so (`CutShort` in `Bodies`).

## 6. Abstractions, and what is not modelled

- A data buffer is its length, a header map a function from names to values
  (one value per name, so that `extend` is an update), an error is an error.
  Closures are a constant function (`MapFrame`) or invisible.
- tokio's channels, wakers and schedulers are external: they are modelled from how
  `channel.rs` uses them and from their documented behaviour (wakers are one-shot, a
  freed slot goes to a waiting send before it counts as capacity, dropping the
  receiver drains the buffer). tokio's cooperative budget, which may make `poll_recv`
  pending early after waking the task, is left out: it adds polls, no outcomes.
- The value of a frame is chosen when it enters the buffer. A send that waits holds its
  frame from the beginning; nobody can look at it before.
- `usize` has the width of `u64`, so the `Err` branch of `u64::try_from` in
  `Limited::size_hint` is not taken.
- `into_inner`, `get_ref` and the like hand out parts; `Debug`, `Display`, `Default`,
  `From` and the boxed error have no state. The methods of `BodyExt` other than `frame`
  construct what the modules above model.
- In `Pipeline` a frame is a value, merged trailers are the set of what was merged (what
  merging computes is the matter of `Chain` and `WithTrailers`), the body of `WithTrailers`
  and of `Fuse` is the Channel and nothing else, and a `Fuse` inside a `WithTrailers` is left
  out: it is dropped with its body. `outcome` there is set in the step that decides
  it, the drop of the body inside the same call may follow.
- The `size_hint` and `is_end_stream` of a `Channel` and of a `Collected` are the
  defaults, which promise nothing.

## 7. Plan

Done in this order: the contract and the channel, because it is the only part two
threads share; proofs about it; hints and proofs about them; the combinators that
keep state; collecting; the adapters; the channel behind combinators, with proofs;
proofs about the combinators over bodies of every length; proofs of the remaining safety:
the streams of all wrappers, hints, the frames in a stack, collecting and reading, waiting.

Left to do, the most useful first:

1. **Trees**: bodies as trees of combinators, polled recursively in a module for TLC
   only, with the contract at the root for every tree of bounded depth: `Limited` over
   `Chain`, `Chain` over `WithTrailers`, `Collect` over all of them.
2. **Towards liveness**: what is proved of `Collect`, that every step a scheduler owes leaves
   less to do, also of the combinators and of the Channel.
