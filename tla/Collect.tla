------------------------------ MODULE Collect ------------------------------
(***************************************************************************)
(* The future that collects a body (combinators/collect.rs), what it       *)
(* collects (collected.rs) and the list of buffers this is kept in         *)
(* (util.rs). A task polls the future; what it resolves to is read as a    *)
(* body, or, once aggregate() or to_bytes() has taken it, as a Buf.        *)
(*                                                                         *)
(* A buffer is the sequence of its bytes; a byte is known by the size of   *)
(* the frame it came in and its place there.                               *)
(***************************************************************************)
EXTENDS Bodies

CONSTANT Script    \* the bodies to collect

ASSUME ScriptAssumption == Script \subseteq Seq(Result)

VARIABLES
  body,      \* what is left of the body
  bufs,      \* BufList::bufs
  trailers,  \* Collected::trailers: a trailers frame, End for none
  phase,     \* "collecting", then "failed" or "body"; "buf" once aggregated
  task,      \* the task that polls the future: "ready" or "parked"
  woken,     \* what the future polled last has kept the task's waker
  script,    \* history: the body that is collected
  read,      \* history: the bytes read out of bufs, in order
  taken      \* history: the trailers read or taken, End for none

collectVars == <<body, bufs, trailers, phase, task, woken>>
vars == <<collectVars, script, read, taken>>

Content(f) == [i \in 1..f.size |-> <<f.size, i>>]
Byte == UNION {{<<f.size, i>> : i \in 1..f.size} : f \in DataFrame}
AllBytes(buffers) == FlattenSeq(buffers)

TypeOK ==
  /\ body \in Seq(Result)
  /\ bufs \in Seq(Seq(Byte)) /\ read \in Seq(Byte)
  /\ trailers \in AnyFrame \cup {End} /\ taken \in AnyFrame \cup {End}
  /\ phase \in {"collecting", "failed", "body", "buf"}
  /\ task \in {"ready", "parked"} /\ woken \in BOOLEAN
  /\ script \in Script

\* BodyExt::collect, Collected::default
Init ==
  /\ script \in Script /\ body = script
  /\ bufs = <<>> /\ trailers = End
  /\ phase = "collecting" /\ task = "ready" /\ woken = FALSE
  /\ read = <<>> /\ taken = End

-----------------------------------------------------------------------------
(* Collect::poll.                                                          *)

\* Mutant: an empty buffer is kept.
PushFrameEmpty(kept, f) ==
  IF IsData(f)
  THEN [kept EXCEPT !.bufs = Append(@, Content(f))]
  ELSE [kept EXCEPT !.trailers = Join(@, f)]

\* Collected::push_frame: an empty buffer is not kept, BufList::push asserts
\* that; trailers after trailers extend them.
PushFrame(kept, f) ==
  IF IsData(f)
  THEN IF f.size > 0 THEN [kept EXCEPT !.bufs = Append(@, Content(f))] ELSE kept
  ELSE [kept EXCEPT !.trailers = Join(@, f)]

\* How many frames the body gives before it is pending, ends or fails.
ReadyFrames(s) ==
  LET stop == {i \in DOMAIN s : ~IsFrame(s[i])}
  IN IF stop = {} THEN Len(s) ELSE Min(stop) - 1

\* Mutant: the body is polled once.
PollsOnce == 1

\* The loop: how often one poll of the future polls the body.
Polls == ReadyFrames(body) + 1

\* Mutant: an error ends the loop, and what was collected is returned.
ResolvedAnyway(last) == "body"

\* The end resolves the future, an error fails it.
Resolved(last) == IF last = End THEN "body" ELSE "failed"

PollCollect ==
  LET last == Poll(SubSeq(body, Polls, Len(body)))
      frames == SubSeq(body, 1, Min({Polls, ReadyFrames(body)}))
      kept == FoldLeft(PushFrame, [bufs |-> bufs, trailers |-> trailers], frames)
  IN
  /\ phase = "collecting" /\ task = "ready"
  /\ body' = SubSeq(body, Polls + 1, Len(body))
  /\ bufs' = kept.bufs /\ trailers' = kept.trailers
  /\ \/ /\ last \notin {End, Failure}
        /\ task' = "parked" /\ woken' = (last = Pending)
        /\ UNCHANGED phase
     \/ /\ last \in {End, Failure}
        /\ phase' = Resolved(last)
        /\ UNCHANGED <<task, woken>>
  /\ UNCHANGED <<script, read, taken>>

\* The waker fires.
Wake ==
  /\ task = "parked" /\ woken /\ task' = "ready"
  /\ UNCHANGED <<body, bufs, trailers, phase, woken, script, read, taken>>

-----------------------------------------------------------------------------
(* Collected and BufList.                                                  *)

\* Collected::poll_frame: the buffers, then the trailers, then None.
PollFrame ==
  /\ phase = "body"
  /\ \/ /\ bufs # <<>>
        /\ bufs' = Tail(bufs) /\ read' = read \o Head(bufs)
        /\ UNCHANGED <<trailers, taken>>
     \/ /\ bufs = <<>>
        /\ trailers' = End
        /\ taken' = IF trailers = End THEN taken ELSE trailers
        /\ UNCHANGED <<bufs, read>>
  /\ UNCHANGED <<body, phase, task, woken, script>>

\* Collected::take_trailers
TakeTrailers ==
  /\ phase = "body" /\ trailers # End
  /\ trailers' = End /\ taken' = trailers
  /\ UNCHANGED <<body, bufs, phase, task, woken, script, read>>

\* Collected::aggregate, and the start of to_bytes: the trailers are dropped.
Aggregate ==
  /\ phase = "body"
  /\ phase' = "buf" /\ trailers' = End
  /\ UNCHANGED <<body, bufs, task, woken, script, read, taken>>

Remaining == Len(AllBytes(bufs))

\* BufList::chunk
Chunk == IF bufs = <<>> THEN <<>> ELSE Head(bufs)

\* BufList::chunks_vectored: a slice for each buffer, as many as dst has room for.
ChunksVectored(room) ==
  FoldLeft(LAMBDA vecs, b : IF Len(vecs) = room THEN vecs ELSE Append(vecs, b),
           <<>>, bufs)

\* Mutant: the buffer in which the bytes end is popped with them.
AdvancePopping(buffers, cnt) ==
  FoldLeft(LAMBDA acc, b :
             IF acc.cnt > 0 THEN [acc EXCEPT !.cnt = @ - Min({@, Len(b)})]
             ELSE [acc EXCEPT !.kept = Append(@, b)],
           [cnt |-> cnt, kept |-> <<>>], buffers).kept

\* BufList::advance: while bytes are to be skipped the front buffer is skipped
\* whole and popped, or in part and kept.
Advance(buffers, cnt) ==
  FoldLeft(LAMBDA acc, b :
             IF acc.cnt > 0 /\ Len(b) <= acc.cnt
             THEN [acc EXCEPT !.cnt = @ - Len(b)]
             ELSE [cnt |-> 0,
                   kept |-> Append(acc.kept, SubSeq(b, acc.cnt + 1, Len(b)))],
           [cnt |-> cnt, kept |-> <<>>], buffers).kept

\* A reader takes bytes of the front buffer, or skips some, and advances; it
\* may not advance past the end.
ReadAndAdvance ==
  \E cnt \in 1..Remaining :
    /\ phase = "buf"
    /\ read' = read \o (IF cnt <= Len(Chunk) THEN SubSeq(Chunk, 1, cnt)
                        ELSE SubSeq(AllBytes(bufs), 1, cnt))
    /\ bufs' = Advance(bufs, cnt)
    /\ UNCHANGED <<body, trailers, phase, task, woken, script, taken>>

\* A vectored write: the slices are written, whole or in part, then skipped.
ReadVectored ==
  \E room \in 0..(Len(bufs) + 1) :
    LET slices == AllBytes(ChunksVectored(room)) IN
    \E cnt \in 0..Len(slices) :
      /\ phase = "buf"
      /\ read' = read \o SubSeq(slices, 1, cnt)
      /\ bufs' = Advance(bufs, cnt)
      /\ UNCHANGED <<body, trailers, phase, task, woken, script, taken>>

\* BufList::copy_to_bytes: from the front buffer when that suffices, which is
\* popped when nothing is left of it, from all of them otherwise.
CopyToBytes ==
  \E len \in 0..Remaining :
    /\ phase = "buf"
    /\ IF bufs # <<>> /\ len <= Len(Chunk)
       THEN /\ read' = read \o SubSeq(Chunk, 1, len)
            /\ bufs' = IF len = Len(Chunk) THEN Tail(bufs)
                       ELSE <<SubSeq(Chunk, len + 1, Len(Chunk))>> \o Tail(bufs)
       ELSE /\ read' = read \o SubSeq(AllBytes(bufs), 1, len)
            /\ bufs' = Advance(bufs, len)
    /\ UNCHANGED <<body, trailers, phase, task, woken, script, taken>>

\* What was collected is dropped with the future that failed.
Failed == phase = "failed" /\ UNCHANGED vars

Next ==
  \/ PollCollect \/ Wake \/ Failed
  \/ PollFrame \/ TakeTrailers \/ Aggregate
  \/ ReadAndAdvance \/ ReadVectored \/ CopyToBytes

Fairness == WF_vars(PollCollect) /\ WF_vars(Wake)

Spec == Init /\ [][Next]_vars /\ Fairness
-----------------------------------------------------------------------------
(* What the whole body holds, by the frames it gives.                      *)
DataOf(s) == DataLeft(s)
TrailersOf(s) == {f \in ToSet(FramesLeft(s)) : ~IsData(f)}

TotalBytes ==
  AllBytes([i \in DOMAIN DataOf(script) |-> Content(DataOf(script)[i])])

\* Each header as the last trailers frame that has it gives it.
TotalTrailers ==
  LET frames == FramesLeft(script)
      with(n) == {i \in DOMAIN frames :
                    ~IsData(frames[i]) /\ n \in DOMAIN frames[i].map}
  IN IF TrailersOf(script) = {} THEN End
     ELSE Trailers([n \in UNION {DOMAIN f.map : f \in TrailersOf(script)} |->
                      frames[Max(with(n))].map[n]])

\* Every byte of every data frame is read once and in order, through whichever
\* of the readers and however far each goes.
BytesConserved ==
  phase \in {"body", "buf"} => read \o AllBytes(bufs) = TotalBytes

\* Buf asks of chunk() that it be empty only when nothing remains: a reader that
\* loops until then would not end otherwise. Every step keeps it, the copy of
\* zero bytes too; and chunks_vectored with room for one slice shows the same.
ChunkShowsProgress ==
  /\ Chunk = <<>> <=> Remaining = 0
  /\ AllBytes(ChunksVectored(1)) = Chunk /\ ChunksVectored(0) = <<>>

\* The trailers of all frames are read at most once; they are lost only with
\* aggregate() and to_bytes(), which drop them before they are read.
TrailersConserved ==
  /\ phase = "body" => {trailers, taken} = {TotalTrailers, End}
  /\ phase = "buf" => taken \in {TotalTrailers, End}

\* A body that fails does not resolve to what it gave before, one that ends
\* does: nothing that was collected passes for a whole body.
FailureIsNotEnd ==
  phase # "collecting" => (phase = "failed" <=> FailsLater(script))

\* The future resolves, with the whole body in one call if that is ready.
Resolves == <>(phase # "collecting")
=============================================================================
