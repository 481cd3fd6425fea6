------------------------------- MODULE VpiWrites -------------------------------
(***************************************************************************)
(* Writes of foreign (cocotb) code through VPI: vpi_put_value with its     *)
(* deposit, force and release flags, the queue of pending writes with its  *)
(* edge batches, and flush_pending_writes, which replays the batches one   *)
(* settlement at a time, lets value-change callbacks run in between and    *)
(* calls itself for what those callbacks write.                            *)
(*                                                                         *)
(* A signal's value is abstracted to the logic level of its bit 0.  The    *)
(* reflected aliases of one signal are one element of Sigs.  Callbacks are *)
(* foreign code: whenever they are given control they may write, force,    *)
(* release and request the finish as they like.                            *)
(***************************************************************************)
EXTENDS Integers, Sequences

CONSTANTS
  Sigs,         \* NativeSignalIdentity
  Kind,         \* Kind[s]: the DomainKind of s
  Driven,       \* signals of direction Output or Internal; some may be clocks, too
  Levels,       \* logic levels in use, a subset of LogicLevel
  Flags,        \* flags in use: "deposit", "force", "release"
  MaxPuts,      \* bound: calls of vpi_put_value
  WriteDepth,   \* bound: value-change callbacks inside more flushes than this do not write
  SettleLimit,  \* the cap on settlements after one batch (1000000 in the code)
  MayFail       \* whether a settlement may end with a fatal error

LogicLevel == {"Zero", "One", "X", "Z"}

ASSUME VpiWritesAssumption ==
  /\ Driven \subseteq Sigs
  /\ Kind \in [Sigs -> {"ClockPosedge", "ClockNegedge", "ResetAsyncHigh", "ResetAsyncLow", "Other"}]
  /\ Levels \subseteq LogicLevel /\ "Zero" \in Levels
  /\ Flags \subseteq {"deposit", "force", "release"}
  /\ MaxPuts \in Nat /\ WriteDepth \in Nat /\ SettleLimit \in Nat
  /\ MayFail \in BOOLEAN

VARIABLES
  val,      \* the backend's value of each signal
  forced,   \* FORCED_VALUES: for each signal, whether forced, to what, and what was deposited
  pend,     \* PENDING_WRITES
  stack,    \* the active calls of flush_pending_writes, outermost first
  pc,       \* "host", "callback" (foreign code runs), "begin", "replay" or "dispatched"
  running,  \* callbacks::is_running
  finish,   \* callbacks::finish_requested
  puts,     \* calls of vpi_put_value so far
  hist      \* history, read by properties only

vars == <<val, forced, pend, stack, pc, running, finish, puts, hist>>

NoWrites == [deposits |-> <<>>, batches |-> <<>>, open |-> FALSE, settle |-> FALSE]
NotForced == [on |-> FALSE, value |-> "Zero", deposited |-> "Zero"]

(* f with the entries of g put over it. *)
Over(f, g) ==
  [s \in DOMAIN f \cup DOMAIN g |-> IF s \in DOMAIN g THEN g[s] ELSE f[s]]

One(s, v) == [x \in {s} |-> v]

(***************************************************************************)
(* The history: the value foreign code last deposited on each signal, the  *)
(* signals whose last deposit the code loses (see Strays), the value       *)
(* each had at the last settlement, the active edges recorded but neither  *)
(* executed nor overridden, the signals whose edge the last step executed, *)
(* the signals with a pending write, the values the executed edge was      *)
(* written with, the signals whose value at the last settlement was        *)
(* written after the batch it settled had closed, and whether a finish or  *)
(* an error cut a flush short.                                             *)
(***************************************************************************)
InitHist(v) ==
  [last |-> v, stray |-> {}, at |-> v, due |-> [s \in Sigs |-> 0], ran |-> {}, wrote |-> {},
   sampled |-> <<>>, ahead |-> {}, cut |-> FALSE]

Init ==
  /\ val \in [Sigs -> Levels]
  /\ forced = [s \in Sigs |-> NotForced]
  /\ pend = NoWrites /\ stack = <<>> /\ pc = "host"
  /\ running = FALSE /\ finish = FALSE /\ puts = 0
  /\ hist = InitHist(val)

---------------------------------------------------------------------------
(* Recording a write *)

IsActiveEdge(kind, old, new) ==
  CASE kind \in {"ClockPosedge", "ResetAsyncHigh"} ->
         (old = "Zero" /\ new # "Zero") \/ (old \in {"X", "Z"} /\ new = "One")
    [] kind \in {"ClockNegedge", "ResetAsyncLow"} ->
         (old = "One" /\ new # "One") \/ (old \in {"X", "Z"} /\ new = "Zero")
    [] OTHER -> FALSE

EventTransition(s, old, new) == Kind[s] # "Other" /\ old # new

OpenBatch(p) == p.batches[Len(p.batches)]

(* Faulty variant: a batch stays open when one of its signals moves again. *)
StaysOpenAlways(p, s, old, new) == p.open

(* A second transition of a signal closes the open batch. *)
StaysOpen(p, s, old, new) ==
  p.open /\ ~(EventTransition(s, old, new) /\ s \in OpenBatch(p).transitions)

(* The pending writes after record_pending_write.  The field raw of a batch *)
(* is history: the signals with a pending write, as they stood at the       *)
(* batch's latest write.                                                    *)
Record(p, s, old, new) ==
  LET transition == EventTransition(s, old, new)
      active == IF IsActiveEdge(Kind[s], old, new) THEN {s} ELSE {}
      open == StaysOpen(p, s, old, new)
      deposits == Over(p.deposits, One(s, new))
      raw == [x \in hist.wrote \cup {s} |-> IF x = s THEN new ELSE val[x]]
  IN  [deposits |-> deposits,
       batches |->
         IF open
         THEN [p.batches EXCEPT ![Len(p.batches)] =
                 [active |-> @.active \cup active,
                  transitions |-> @.transitions \cup IF transition THEN {s} ELSE {},
                  deposits |-> deposits, raw |-> raw]]
         ELSE IF transition
              THEN Append(p.batches, [active |-> active, transitions |-> {s},
                                      deposits |-> deposits, raw |-> raw])
              ELSE p.batches,
       open |-> open \/ transition,
       settle |-> TRUE]

---------------------------------------------------------------------------
(* vpi_put_value *)

(* Foreign code has control: outside run(), in a region callback, or in a   *)
(* value-change callback that some flush dispatched.                        *)
Foreign ==
  \/ pc = "host"
  \/ pc = "callback" /\ Len(stack) <= WriteDepth

CountPut == puts < MaxPuts /\ puts' = puts + 1

(* Outside run() a write is flushed before the call returns. *)
AfterPut == pc' = IF running THEN pc ELSE "begin"

Edge(s, old, new) == IF IsActiveEdge(Kind[s], old, new) THEN 1 ELSE 0

Note(s, old, new) ==
  [hist EXCEPT !.due[s] = @ + Edge(s, old, new), !.ran = {}, !.wrote = @ \cup {s}]

(* History: a flush outside the innermost one will put s back. *)
OuterHolds(s) ==
  \E k \in 1..(Len(stack) - 1) : s \in DOMAIN stack[k].final \cup DOMAIN stack[k].nested

(* History: the last deposit on s is lost if the write is made where an     *)
(* outer flush will put s back, or if a force remembers something else in   *)
(* its place (missed).                                                      *)
Strays(s, missed) ==
  IF missed \/ OuterHolds(s) THEN hist.stray \cup {s} ELSE hist.stray

(* History: a deposit made anywhere else is kept. *)
Deposited(s) == IF OuterHolds(s) THEN hist.stray \cup {s} ELSE hist.stray \ {s}

Write(s, v) ==
  /\ val' = [val EXCEPT ![s] = v]
  /\ pend' = Record(pend, s, val[s], v)

(* A deposit on a forced signal is only remembered. *)
Deposit(s, v) ==
  /\ Foreign /\ CountPut /\ "deposit" \in Flags
  /\ IF forced[s].on
     THEN /\ forced' = [forced EXCEPT ![s].deposited = v]
          /\ hist' = [hist EXCEPT !.last[s] = v, !.ran = {}, !.stray = Deposited(s)]
          /\ UNCHANGED <<val, pend, pc>>
     ELSE /\ Write(s, v)
          /\ hist' = [Note(s, val[s], v) EXCEPT !.last[s] = v, !.stray = Deposited(s)]
          /\ AfterPut
          /\ UNCHANGED forced
  /\ UNCHANGED <<stack, running, finish>>

(* What a force remembers as deposited is the value it finds, which in the  *)
(* middle of a replay may be that of an older batch.                        *)
ForceValue(s, v) ==
  /\ Foreign /\ CountPut /\ "force" \in Flags
  /\ Write(s, v)
  /\ forced' = [forced EXCEPT ![s] =
       [on |-> TRUE, value |-> v, deposited |-> IF @.on THEN @.deposited ELSE val[s]]]
  /\ hist' = [Note(s, val[s], v) EXCEPT
                !.stray = Strays(s, ~forced[s].on /\ val[s] # hist.last[s])]
  /\ AfterPut
  /\ UNCHANGED <<stack, running, finish>>

(* Faulty variant: the signal keeps the value it was forced to. *)
ReleasedValueForced(s) == forced[s].value

(* Released variables keep the forced value, inputs return to the deposit. *)
ReleasedValue(s) == IF s \in Driven THEN forced[s].value ELSE forced[s].deposited

Release(s) ==
  /\ Foreign /\ CountPut /\ "release" \in Flags
  /\ IF forced[s].on
     THEN /\ forced' = [forced EXCEPT ![s] = NotForced]
          /\ Write(s, ReleasedValue(s))
          /\ hist' = [Note(s, val[s], ReleasedValue(s)) EXCEPT !.stray = Strays(s, FALSE)]
     ELSE UNCHANGED <<forced, val, pend, hist>>
  /\ AfterPut
  /\ UNCHANGED <<stack, running, finish>>

(* vpi_control(vpiFinish) *)
Finish ==
  /\ Foreign /\ ~finish
  /\ finish' = TRUE
  /\ UNCHANGED <<val, forced, pend, stack, pc, running, puts, hist>>

---------------------------------------------------------------------------
(* run() and the runtime's life *)

RunBegins ==
  /\ pc = "host" /\ ~running /\ ~finish
  /\ running' = TRUE /\ pc' = "callback"
  /\ UNCHANGED <<val, forced, pend, stack, finish, puts, hist>>

(* The callbacks of a region are through: flush what they wrote. *)
RegionEnds ==
  /\ pc = "callback" /\ stack = <<>> /\ ~finish
  /\ pc' = "begin"
  /\ UNCHANGED <<val, forced, pend, stack, running, finish, puts, hist>>

(* The end-of-simulation callbacks are through; what they wrote stays pending. *)
RunEnds ==
  /\ pc = "callback" /\ stack = <<>>
  /\ running' = FALSE /\ pc' = "host"
  /\ UNCHANGED <<val, forced, pend, stack, finish, puts, hist>>

(* install_runtime: a new instance, everything kept about the old one is dropped. *)
InstallRuntime ==
  /\ pc = "host" /\ puts = MaxPuts
  /\ val' \in [Sigs -> Levels]
  /\ forced' = [s \in Sigs |-> NotForced]
  /\ pend' = NoWrites /\ finish' = FALSE /\ puts' = 0
  /\ hist' = InitHist(val')
  /\ UNCHANGED <<stack, pc, running>>

---------------------------------------------------------------------------
(* flush_pending_writes *)

Top == stack[Len(stack)]
Outer == SubSeq(stack, 1, Len(stack) - 1)
SetTop(frame) == Append(Outer, frame)

(* Where control is once the outermost flush has returned. *)
Returned == IF running THEN "callback" ELSE "host"

(* What eval_comb leaves of v: forced signals keep the forced value, driven *)
(* ones may take any.                                                       *)
Settled(v) ==
  {w \in [Sigs -> Levels] :
     \A s \in Sigs : IF forced[s].on THEN w[s] = forced[s].value
                     ELSE s \in Driven \/ w[s] = v[s]}

BeginFlush ==
  /\ pc = "begin"
  /\ pend' = NoWrites
  /\ IF pend.settle
     THEN /\ stack' = Append(stack, [todo |-> pend.batches, final |-> pend.deposits,
                                     overrides |-> <<>>, nested |-> <<>>, turns |-> 0])
          /\ pc' = "replay"
     ELSE /\ pc' = Returned
          /\ UNCHANGED stack
  /\ hist' = [hist EXCEPT !.ran = {}, !.wrote = {}]
  /\ UNCHANGED <<val, forced, running, finish, puts>>

(* Faulty variant: an overridden clock still runs its domain. *)
LiveEdgesAll(batch, overrides) == batch.active

(* An active edge whose signal a callback has overridden is looked at again. *)
LiveEdges(batch, overrides) ==
  {s \in batch.active :
     s \in DOMAIN overrides => IsActiveEdge(Kind[s], val[s], overrides[s])}

(* Faulty variant: only the signals that moved in the batch are put back. *)
RestoredClocks(batch, overrides) ==
  Over([s \in batch.transitions |-> batch.deposits[s]], overrides)

(* What a batch puts back before it is settled. *)
Restored(batch, overrides) == Over(batch.deposits, overrides)

Minus(due, S) == [s \in Sigs |-> due[s] - IF s \in S THEN 1 ELSE 0]

(* History: the values the batch was written with and no callback overrode. *)
Sampled(batch, overrides) == [s \in DOMAIN batch.raw \ DOMAIN overrides |-> batch.raw[s]]

(* One batch: deposits, settlement with its edges; callbacks run next. *)
ReplayBatch ==
  /\ pc = "replay" /\ Top.todo # <<>>
  /\ LET batch == Head(Top.todo)
     IN  /\ val' \in Settled(Over(val, Restored(batch, Top.overrides)))
         /\ stack' = SetTop([Top EXCEPT !.todo = Tail(@), !.turns = 0])
         /\ hist' = [hist EXCEPT !.at = val', !.due = Minus(@, batch.active),
                                 !.ran = LiveEdges(batch, Top.overrides),
                                 !.ahead = (@ \cup DOMAIN Top.final)
                                             \ DOMAIN Restored(batch, Top.overrides),
                                 !.sampled = Sampled(batch, Top.overrides)]
  /\ pc' = IF running THEN "callback" ELSE "replay"
  /\ UNCHANGED <<forced, pend, running, finish, puts>>

(* dispatch_value_changes returns to the flush that called it. *)
CallbacksReturn ==
  /\ pc = "callback" /\ stack # <<>>
  /\ pc' = "dispatched"
  /\ UNCHANGED <<val, forced, pend, stack, running, finish, puts, hist>>

(* Every active flush returns without its final settlement. *)
Unwind(h) ==
  /\ stack' = <<>> /\ pc' = Returned
  /\ hist' = [h EXCEPT !.cut = TRUE, !.ran = {}]

FinishSeen ==
  /\ pc = "dispatched" /\ finish
  /\ Unwind(hist)
  /\ UNCHANGED <<val, forced, pend, running, finish, puts>>

(* The callbacks wrote: flush that first, remembering what they wrote. *)
FlushNested ==
  /\ pc = "dispatched" /\ ~finish /\ pend.settle /\ Top.turns < SettleLimit
  /\ stack' = SetTop([Top EXCEPT !.nested = pend.deposits, !.turns = @ + 1])
  /\ pc' = "begin"
  /\ UNCHANGED <<val, forced, pend, running, finish, puts, hist>>

(* callback_pending is dropped with the call. *)
TooManySettlements ==
  /\ pc = "dispatched" /\ ~finish /\ pend.settle /\ Top.turns >= SettleLimit
  /\ pend' = NoWrites /\ finish' = TRUE
  /\ Unwind([hist EXCEPT !.wrote = {}])
  /\ UNCHANGED <<val, forced, running, puts>>

NextBatch ==
  /\ pc = "dispatched" /\ ~finish /\ ~pend.settle
  /\ pc' = "replay"
  /\ UNCHANGED <<val, forced, pend, stack, running, finish, puts, hist>>

(* Faulty variant: what the callbacks wrote does not override what is queued. *)
ResumedForgets(frame) == [frame EXCEPT !.nested = <<>>]

(* The frame that called a nested flush, once it has returned. *)
Resumed(frame) ==
  [frame EXCEPT !.overrides = Over(@, frame.nested), !.final = Over(@, frame.nested),
                !.nested = <<>>]

(* The final settlement.  A nested flush returns to a frame that dispatches *)
(* value changes once more.                                                 *)
FinalSettle ==
  /\ pc = "replay" /\ Top.todo = <<>>
  /\ val' \in Settled(Over(val, Top.final))
  /\ hist' = [hist EXCEPT !.at = val', !.ran = {}, !.ahead = @ \ DOMAIN Top.final]
  /\ IF Len(stack) = 1
     THEN stack' = <<>> /\ pc' = Returned
     ELSE /\ stack' = Append(SubSeq(stack, 1, Len(stack) - 2), Resumed(stack[Len(stack) - 1]))
          /\ pc' = "callback"
  /\ UNCHANGED <<forced, pend, running, finish, puts>>

(* A settlement fails, or a fatal assertion or missed events are drained. *)
SettleFails ==
  /\ MayFail /\ pc = "replay"
  /\ LET deposits == IF Top.todo = <<>> THEN Top.final
                     ELSE Over(Head(Top.todo).deposits, Top.overrides)
     IN  val' \in Settled(Over(val, deposits))
  /\ finish' = TRUE
  /\ Unwind(hist)
  /\ UNCHANGED <<forced, pend, running, puts>>

Next ==
  \/ \E s \in Sigs, v \in Levels : Deposit(s, v)
  \/ \E s \in Sigs, v \in Levels : ForceValue(s, v)
  \/ \E s \in Sigs : Release(s)
  \/ Finish \/ RunBegins \/ RegionEnds \/ RunEnds \/ InstallRuntime
  \/ BeginFlush \/ ReplayBatch \/ CallbacksReturn \/ FinishSeen \/ FlushNested
  \/ TooManySettlements \/ NextBatch \/ FinalSettle \/ SettleFails

Spec == Init /\ [][Next]_vars

---------------------------------------------------------------------------
(* Properties *)

Deposits == UNION {[D -> Levels] : D \in SUBSET Sigs}
EdgeBatch == [active : SUBSET Sigs, transitions : SUBSET Sigs, deposits : Deposits,
              raw : Deposits]
Writes == [deposits : Deposits, batches : Seq(EdgeBatch), open : BOOLEAN, settle : BOOLEAN]
Frame == [todo : Seq(EdgeBatch), final : Deposits, overrides : Deposits,
          nested : Deposits, turns : Nat]
History == [last : [Sigs -> Levels], stray : SUBSET Sigs, at : [Sigs -> Levels], due : [Sigs -> Int],
            ran : SUBSET Sigs, wrote : SUBSET Sigs, sampled : Deposits,
            ahead : SUBSET Sigs, cut : BOOLEAN]

(* Every variable has the type of the code's field, an open batch exists,   *)
(* control is where the flushes in progress say, and nested flushes only    *)
(* exist while run() dispatches callbacks.                                  *)
TypeOK ==
  /\ val \in [Sigs -> Levels]
  /\ forced \in [Sigs -> [on : BOOLEAN, value : Levels, deposited : Levels]]
  /\ pend \in Writes /\ (pend.open => pend.batches # <<>>)
  /\ stack \in Seq(Frame)
  /\ pc \in {"host", "callback", "begin", "replay", "dispatched"}
  /\ running \in BOOLEAN /\ finish \in BOOLEAN /\ puts \in Nat
  /\ hist \in History
  /\ pc = "host" => ~running /\ stack = <<>>
  /\ pc \in {"callback", "dispatched"} => running
  /\ pc \in {"replay", "dispatched"} => stack # <<>>
  /\ Len(stack) > 1 \/ (pc = "begin" /\ stack # <<>>) => running

(* Nothing is queued and no flush was cut short. *)
Quiet == stack = <<>> /\ ~pend.settle /\ pc \in {"host", "callback"} /\ ~hist.cut

(* Once everything is flushed a forced input holds its forced value and any *)
(* other what foreign code last deposited on it, be it from outside run(),  *)
(* from a region callback, from a callback in the middle of a replay, or    *)
(* while the input was forced.  Exempt are the two cases in which the code  *)
(* does lose it: a signal last written by a callback inside a nested flush  *)
(* while a flush further out has a write of it as well, which that flush    *)
(* puts back; and a signal that a callback forced in the middle of a replay *)
(* while the backend held an older batch's value of it: such a force        *)
(* remembers the older value, and the release returns to that.              *)
LastWriteWins ==
  Quiet => \A s \in Sigs \ Driven :
             IF forced[s].on THEN val[s] = forced[s].value
             ELSE s \in hist.stray \/ val[s] = hist.last[s]

(* No queued edge is lost or run twice: once everything is flushed, every   *)
(* active edge that was recorded has been executed in a batch of its own    *)
(* turn, or was looked at again because a callback overrode its clock.      *)
NoEdgeLost ==
  /\ \A s \in Sigs : ~hist.cut => hist.due[s] >= 0
  /\ Quiet => \A s \in Sigs : hist.due[s] = 0

(* While nothing is forced, a domain only runs for a transition that really *)
(* takes place between two settlements: replaying a batch after a callback  *)
(* has moved its clock does not produce an edge out of nothing.  Exempt is  *)
(* a signal first written after an earlier batch of its flush had closed:   *)
(* that batch does not put it back, so its settlement showed the new value. *)
(* Exempt, too, is a clock that the design itself drives: what it settles   *)
(* to is the design's.  A step from "replay" after which something ran is   *)
(* the replay of a batch.                                                   *)
EdgesAreReal ==
  [][pc = "replay" /\ hist'.ran # {} /\ ~hist.cut =>
       \A s \in hist'.ran \ (hist.ahead \cup Driven) :
         IsActiveEdge(Kind[s], hist.at[s], val'[s])]_vars

(* An edge sees the data it was written with: every signal that was written *)
(* before its batch closed has the value it had then, although later writes *)
(* of it have already reached the backend.  Left out are forced and driven  *)
(* signals, and those that callbacks of earlier batches wrote again.        *)
EdgeSeesItsData ==
  hist.ran # {} =>
    \A s \in DOMAIN hist.sampled \ Driven :
      ~forced[s].on => hist.at[s] = hist.sampled[s]
=============================================================================
