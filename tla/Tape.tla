-------------------------------- MODULE Tape --------------------------------
(***************************************************************************)
(* One frame of the lowering and the tape it becomes: a block is lowered   *)
(* op by op into entries over numbered slots, the entries are rewritten by *)
(* three passes, `Finish` decides at which entry every slot is let go, and *)
(* `Program::interpret` walks the result.  A main program finally decides  *)
(* which of its outputs a caller may not be handed as they stand.          *)
(*                                                                         *)
(* Sources: metal/metal_lowering.cc (LowerOpImpl, TaintResults, LowerWhile,*)
(* LowerBranch, CsePass, FoldConstants, DcePass, Finish, Run),             *)
(* runtime/program.cc (run, interpret, step), metal/metal_executable.cc    *)
(* (RunOnce).                                                              *)
(*                                                                         *)
(* An array is a record [term, obj, buf]: what it holds, as the expression *)
(* that computed it; the mx::array it is; the buffer its data lives in.    *)
(***************************************************************************)
EXTENDS Naturals, Sequences, FiniteSets, SequencesExt, FiniteSetsExt, TLC

CONSTANTS Args,         \* the block's arguments, 1 .. n
          Consts,       \* the distinct constant values a program may hold
          Programs,     \* [kinds, ops, region, donated]: the op kinds of a
                        \* module, the bound on its length, a region's block
                        \* or @main's, and the donated arguments
          Moves,        \* the bodies a loop may have (see Bodies)
          MaxTrip,      \* bound on a loop's trip count
          MaxLoops,     \* bound on the loops of a program
          CsePassOn,    \* METALJAX_CSE
          FoldPassOn,   \* METALJAX_FOLD
          FoldMax,      \* kFoldMaxMb: the largest result folded
          FoldTotal,    \* kFoldTotalMb: what one frame may fold
          Bytes(_)      \* an entry's estimated result bytes, by opcode

NArgs == Cardinality(Args)

ASSUME ArgsAssumption == NArgs \in Nat \ {0} /\ Args = 1 .. NArgs
ASSUME ProgramsAssumption ==
  Programs \subseteq [kinds : SUBSET STRING, ops : Nat, region : BOOLEAN, donated : SUBSET Args]
ASSUME FlagsAssumption == CsePassOn \in BOOLEAN /\ FoldPassOn \in BOOLEAN
ASSUME LoopsAssumption ==
  /\ MaxTrip \in Nat
  /\ \A m \in Moves :
       /\ m \in Seq({"carry", "step", "cap"} \X (0 .. 2)) /\ Len(m) = 2
       /\ \A j \in 1 .. 2 : m[j][1] = "cap" \/ m[j] \in {"carry", "step"} \X (1 .. 2)
ASSUME BytesAssumption ==
  \A o \in {"const", "iota", "add", "bcast", "view", "ident", "print", "branch", "loop"} :
    Bytes(o) \in Nat

VARIABLES
  chosen,   \* what the module declares (see Programs)
  phase,    \* where the frame is
  src,      \* the ops lowered so far
  frame,    \* the lowering of one block (see Frame)
  returned, \* the source values the block returns
  outputs,  \* the slots returned
  drops,    \* per entry, the slots it lets go
  copies,   \* the outputs Program::run copies, and the donated exemptions
  env,      \* the interpreter's environment
  pc,       \* the next entry
  log,      \* the host's calls, in order
  outs      \* the arrays handed to the caller

tapeVars == <<chosen, phase, src, frame, returned, outputs, drops, copies,
              env, pc, log, outs>>

(* What `Lowering` keeps while it walks a block: slots_ (the slot of every
   value), nslots_, entries_, arg_alias_ (the arguments whose very array a
   slot may be), const_view_ (the slots that may view a held constant) and
   const_slots_ with splat_bcast_slots_ (the slot of every payload). *)
Frame == [slot |-> [v \in {<<0, a>> : a \in Args} |-> v[2]],
          n |-> NArgs, entries |-> <<>>,
          alias |-> [s \in Args |-> {s}], cview |-> {}, consts |-> <<>>]

(* Values: <<0, a>> is an argument, <<i, j>> result j of op i. *)
Arity(op) == IF op.kind = "loop" THEN Len(op.move) ELSE 1
Values == {<<0, a>> : a \in Args}
            \cup {<<i, j>> : i \in DOMAIN src, j \in 1 .. 2}
Known == {v \in Values : v[1] = 0 \/ v[2] <= Arity(src[v[1]])}
Entries == frame.entries

(***************************************************************************)
(* Runtime: what an entry does to the environment.                         *)
(***************************************************************************)
NoArray == [term |-> <<>>, obj |-> <<>>, buf |-> <<>>]
FreshAt(term, s, t) == [term |-> term, obj |-> <<"new", s, t>>, buf |-> <<"new", s, t>>]
Fresh(term, s) == FreshAt(term, s, 0)

(* A loop body as a map: where each carry's next value comes from.  A
   "carry" or "cap" is handed on as it is, "step" computes a new array. *)
Carried(e, vals, j, t) ==
  LET from == e.move[j] IN
  CASE from[1] = "carry" -> vals[from[2]]
    [] from[1] = "cap"   -> vals[Len(e.outs) + 1]
    [] from[1] = "step"  -> FreshAt(<<"step", vals[from[2]].term>>, e.outs[j], t)

Iterate(e, vals) ==
  LET n == Len(e.outs)
      carry[t \in 0 .. e.trip] ==
        IF t = 0 THEN vals
        ELSE [j \in 1 .. Len(vals) |->
                IF j <= n THEN Carried(e, carry[t - 1], j, t) ELSE vals[j]]
  IN carry[e.trip]

(* Entry `e` over the arrays `vals` of its inputs: the arrays it hands back. *)
Compute(e, vals, calls) ==
  LET s == e.outs[1]
      new(term) == <<Fresh(term, s)>>
  IN CASE e.op = "const"  -> <<[term |-> e.payload, obj |-> <<"const", s>>,
                                buf |-> <<"const">>]>>
       [] e.op = "iota"   -> new(<<"iota">>)
       [] e.op = "add"    -> new(<<"add", vals[1].term, vals[2].term>>)
       [] e.op = "bcast"  -> <<[Fresh(<<"bcast", vals[1].term>>, s)
                                  EXCEPT !.buf = vals[1].buf]>>
       [] e.op = "view"   -> <<[Fresh(<<"view", vals[1].term>>, s)
                                  EXCEPT !.buf = vals[1].buf]>>
       [] e.op = "ident"  -> <<vals[1]>>
       [] e.op = "print"  -> new(<<"call", calls + 1, vals[1].term>>)
       [] e.op = "branch" -> <<vals[1 + e.trip]>>
       [] e.op = "loop"   -> SubSeq(Iterate(e, vals), 1, Len(e.outs))

(* The environment after entry `e`, before its drops. *)
Written(e, en, calls) ==
  LET vals == [i \in DOMAIN e.ins |-> en[e.ins[i]]]
      new  == Compute(e, vals, calls)
  IN [s \in DOMAIN en |->
        IF \E j \in DOMAIN e.outs : e.outs[j] = s
        THEN new[CHOOSE j \in DOMAIN e.outs : e.outs[j] = s] ELSE en[s]]

-----------------------------------------------------------------------------
(***************************************************************************)
(* Lowering one op.                                                        *)
(***************************************************************************)
AliasOf(f, s) == IF s \in DOMAIN f.alias THEN f.alias[s] ELSE {}
TaintOf(f, s) == [args |-> AliasOf(f, s), cv |-> s \in f.cview]
Join(t, u) == [args |-> t.args \cup u.args, cv |-> t.cv \/ u.cv]
NoTaint == [args |-> {}, cv |-> FALSE]

(* f with x mapped to y. *)
With(f, x, y) == [z \in DOMAIN f \cup {x} |-> IF z = x THEN y ELSE f[z]]

Alias(f, v, s) == [f EXCEPT !.slot = With(@, v, s)]
Bind(f, v) == [Alias(f, v, f.n + 1) EXCEPT !.n = @ + 1]
Emit(f, e) == [f EXCEPT !.entries = Append(@, e)]
ApplyTaint(f, s, t) ==
  [f EXCEPT !.alias = IF t.args = {} THEN @ ELSE With(@, s, t.args),
            !.cview = IF t.cv THEN @ \cup {s} ELSE @]

NoPayload == <<>>
Entry(o, ins, os) ==
  [op |-> o, ins |-> ins, outs |-> os, payload |-> NoPayload,
   trip |-> 0, move |-> <<>>, bytes |-> Bytes(o)]

ConstEntry(os, payload) == [Entry("const", <<>>, os) EXCEPT !.payload = payload]

\* (mutant) a host call is taken for one, and merged.
PurePassOpOfAll(o) == o \notin {"loop", "branch"}
(* An entry two copies of which always hold the same value. *)
PurePassOp(o) == o \notin {"loop", "branch", "print"}
FoldableOp(o) == PurePassOp(o) /\ o # "const"
(* The handler may hand back a view of its operand... *)
IsViewOp(o) == o \in {"ident", "view", "bcast"}
(* ...and here hands back the operand itself. *)
IsIdentity(o) == o = "ident"

(* A constant, or a splat broadcast of one: one slot per payload. *)
LowerPayload(f, v, payload) ==
  IF CsePassOn /\ payload \in DOMAIN f.consts
  THEN Alias(f, v, f.consts[payload])
  ELSE LET g == Bind(f, v)
       IN Emit([g EXCEPT !.cview = @ \cup {g.n},
                         !.consts = IF CsePassOn THEN With(@, payload, g.n) ELSE @],
               ConstEntry(<<g.n>>, payload))

(* TaintResults: a view of a held constant is one, an identity is whatever
   its operand may be. *)
TaintResults(f, o, ins, s) ==
  LET cv == IsViewOp(o) /\ \E i \in DOMAIN ins : ins[i] \in f.cview
      args == IF IsIdentity(o) THEN UNION {AliasOf(f, ins[i]) : i \in DOMAIN ins}
              ELSE {}
  IN ApplyTaint(f, s, [args |-> args, cv |-> cv])

(* The generic path: operands, a fresh slot, its taints, the entry. *)
LowerSimple(f, op, v) ==
  LET ins == [i \in DOMAIN op.ins |-> f.slot[op.ins[i]]]
      g == Bind(f, v)
  IN Emit(TaintResults(g, op.kind, ins, g.n), Entry(op.kind, ins, <<g.n>>))

\* (mutant) the taint of the first arm alone.
LowerOneArm(f, op, v) ==
  LET ins == [i \in DOMAIN op.ins |-> f.slot[op.ins[i]]]
      g == Bind(f, v)
  IN Emit(ApplyTaint(g, g.n, TaintOf(f, ins[2])),
          [Entry("branch", ins, <<g.n>>) EXCEPT !.trip = op.trip])

(* LowerBranch: every arm hands back its capture; a result may be either. *)
LowerBranch(f, op, v) ==
  LET ins == [i \in DOMAIN op.ins |-> f.slot[op.ins[i]]]
      g == Bind(f, v)
  IN Emit(ApplyTaint(g, g.n, Join(TaintOf(f, ins[2]), TaintOf(f, ins[3]))),
          [Entry("branch", ins, <<g.n>>) EXCEPT !.trip = op.trip])

(* LowerWhile: the taint of result j is the body's, restated over the
   loop's operands once; the initial value joins it unless the trip count
   is known, and is all of it when that count is zero. *)
LowerWhile(f, op, i) ==
  LET ins == [k \in DOMAIN op.ins |-> f.slot[op.ins[k]]]
      n == Arity(op)
      mapped(j) == CASE op.move[j][1] = "carry" -> TaintOf(f, ins[op.move[j][2]])
                     [] op.move[j][1] = "cap"   -> TaintOf(f, ins[n + 1])
                     [] OTHER -> NoTaint
      taint(j) == IF op.static
                  THEN IF op.trip = 0 THEN TaintOf(f, ins[j]) ELSE mapped(j)
                  ELSE Join(mapped(j), TaintOf(f, ins[j]))
      g == Bind(Bind(f, <<i, 1>>), <<i, 2>>)
      h == ApplyTaint(ApplyTaint(g, f.n + 1, taint(1)), f.n + 2, taint(2))
  IN Emit(h, [Entry("loop", ins, <<f.n + 1, f.n + 2>>)
                EXCEPT !.trip = op.trip, !.move = op.move])

(* The constant an operand is defined by, when its op is one. *)
SplatOf(op) ==
  LET d == op.ins[1][1]
  IN IF d > 0 /\ src[d].kind = "const" THEN src[d].const ELSE NoPayload

(* LowerOpImpl, by the op's kind. *)
Lowered(f, op, i) ==
  LET v == <<i, 1>> IN
  CASE op.kind = "const"   -> LowerPayload(f, v, op.const)
    [] op.kind = "barrier" -> Alias(f, v, f.slot[op.ins[1]])
    [] op.kind = "bcast" /\ CsePassOn /\ SplatOf(op) # NoPayload ->
         LowerPayload(f, v, <<"bcast", SplatOf(op)>>)
    [] op.kind = "branch"  -> LowerBranch(f, op, v)
    [] op.kind = "loop"    -> LowerWhile(f, op, i)
    [] OTHER               -> LowerSimple(f, op, v)
-----------------------------------------------------------------------------
(***************************************************************************)
(* The passes.                                                             *)
(***************************************************************************)
Key(e) == <<e.op, e.ins>>

(* The entries of a tape that stay, in their order. *)
Gathered(es, keep) ==
  LET got[n \in 0 .. Len(es)] ==
        IF n = 0 THEN <<>>
        ELSE IF n \in keep THEN Append(got[n - 1], es[n]) ELSE got[n - 1]
  IN got[Len(es)]

(* CsePass: one forward walk with a slot remap applied as it goes. *)
Rewired(e, remap) == [e EXCEPT !.ins = [i \in DOMAIN @ |-> remap[@[i]]]]
Eligible(e) == e.payload = NoPayload /\ PurePassOp(e.op)
Twin(acc, e) == Eligible(e) /\ Key(e) \in DOMAIN acc.seen
MergeOne(acc, entry) ==
  LET e == Rewired(entry, acc.remap)
  IN IF Twin(acc, e) THEN [acc EXCEPT !.remap[e.outs[1]] = acc.seen[Key(e)]]
     ELSE IF Eligible(e) THEN [acc EXCEPT !.seen = With(@, Key(e), e.outs[1])]
     ELSE acc
MergeAlong(es, n) ==
  LET after[i \in 0 .. Len(es)] ==
        IF i = 0 THEN [remap |-> [s \in 1 .. n |-> s], seen |-> <<>>]
        ELSE MergeOne(after[i - 1], es[i])
  IN after
Merged(es, n) ==
  LET after == MergeAlong(es, n)
      rewired == [i \in DOMAIN es |-> Rewired(es[i], after[i - 1].remap)]
  IN [kept |-> Gathered(rewired, {i \in DOMAIN es : ~ Twin(after[i - 1], rewired[i])}),
      remap |-> after[Len(es)].remap]

(* FoldConstants.  The entries that depend on no argument, in one forward
   walk over the slots they write... *)
IsConst(e, known) == e.op = "const" \/ (FoldableOp(e.op) /\ ToSet(e.ins) \subseteq known)
ConstSlots(es) ==
  LET known[n \in 0 .. Len(es)] ==
        IF n = 0 THEN {}
        ELSE IF IsConst(es[n], known[n - 1]) THEN known[n - 1] \cup ToSet(es[n].outs)
        ELSE known[n - 1]
  IN known
ConstEntries(es) == {i \in DOMAIN es : IsConst(es[i], ConstSlots(es)[i - 1])}

DefinedBy(es, s) == {i \in DOMAIN es : s \in ToSet(es[i].outs)}

(* consider: the argument-independent entries behind `slots` join the
   worklist, each once. *)
ConsiderOne(es, consts, st, s) ==
  LET unseen == {d \in DefinedBy(es, s) \cap consts : st.class[d] = "unseen"}
      d == CHOOSE d \in unseen : TRUE
  IN IF unseen = {} THEN st
     ELSE [st EXCEPT !.class[d] = "queued", !.work = Append(@, d)]
Considered(es, consts, st, slots) ==
  LET after[k \in 0 .. Len(slots)] ==
        IF k = 0 THEN st ELSE ConsiderOne(es, consts, after[k - 1], slots[k])
  IN after[Len(slots)]

(* ...and what becomes of those read across the boundary: a worklist that
   starts at the slots dynamic entries read or the block returns.  An entry
   that may not be materialized is kept and its operands are considered. *)
ReadAcross(es, consts) ==
  LET read[i \in 0 .. Len(es)] ==
        IF i = 0 THEN <<>>
        ELSE IF i \in consts THEN read[i - 1] ELSE read[i - 1] \o es[i].ins
  IN read[Len(es)]
MayFold(e, total) ==
  e.op \notin {"const", "bcast"} /\ e.bytes <= FoldMax /\ total + e.bytes <= FoldTotal
Popped(es, consts, st) ==
  LET d == Last(st.work)
      rest == [st EXCEPT !.work = Front(@)]
  IN IF st.work = <<>> THEN st
     ELSE IF MayFold(es[d], st.total)
     THEN [rest EXCEPT !.class[d] = "fold", !.total = @ + es[d].bytes]
     ELSE Considered(es, consts, [rest EXCEPT !.class[d] = "keep"], es[d].ins)
Classified(es, os, consts) ==
  LET steps[k \in 0 .. Len(es)] ==
        IF k = 0
        THEN Considered(es, consts, [class |-> [i \in DOMAIN es |-> "unseen"],
                                     work |-> <<>>, total |-> 0],
                        ReadAcross(es, consts) \o os)
        ELSE Popped(es, consts, steps[k - 1])
  IN steps[Len(es)].class

(* The environment of the argument-independent entries, run on their own. *)
Evaluated(es, n) ==
  LET consts == ConstEntries(es)
      after[i \in 0 .. Len(es)] ==
        IF i = 0 THEN [s \in 1 .. n |-> NoArray]
        ELSE IF i \in consts THEN Written(es[i], after[i - 1], 0) ELSE after[i - 1]
  IN after[Len(es)]

(* Every folded entry a kept one reads becomes a payload; the const entries
   behind them go. *)
Folded(es, os) ==
  LET consts == ConstEntries(es)
      class == Classified(es, os, consts)
      kept == {i \in DOMAIN es : i \notin consts \/ class[i] = "keep"}
      read == ToSet(os) \cup UNION {ToSet(es[i].ins) : i \in kept}
      needed == {i \in DOMAIN es \ kept : class[i] = "fold" /\ ToSet(es[i].outs) \cap read # {}}
      values == Evaluated(es, frame.n)
      payload(e) == ConstEntry(e.outs, values[e.outs[1]].term)
  IN [entries |-> Gathered([i \in DOMAIN es |-> IF i \in kept THEN es[i] ELSE payload(es[i])],
                           kept \cup needed),
      payloads |-> {es[i].outs[1] : i \in needed},
      any |-> \E i \in DOMAIN es : class[i] = "fold"]

(* The constant-view taint rides through the views that survive. *)
Retainted(es, cview) ==
  FoldLeft(LAMBDA cv, e : IF IsViewOp(e.op) /\ ToSet(e.ins) \cap cv # {}
                          THEN cv \cup ToSet(e.outs) ELSE cv, cview, es)

(* DcePass: backwards, keeping what is read and what has an effect. *)
Used(e, live) == ~ PurePassOp(e.op) \/ ToSet(e.outs) \cap live # {}
(* What is live in front of the last n entries. *)
LiveBefore(es, os) ==
  LET live[n \in 0 .. Len(es)] ==
        IF n = 0 THEN ToSet(os)
        ELSE LET e == es[Len(es) + 1 - n]
             IN IF Used(e, live[n - 1]) THEN live[n - 1] \cup ToSet(e.ins) ELSE live[n - 1]
  IN live
Needed(es, os) ==
  LET live == LiveBefore(es, os)
  IN Gathered(es, {i \in DOMAIN es : Used(es[i], live[Len(es) - i])})

(* Finish: a slot is let go at its last reader, or where it was made if
   nothing reads it, and an output never. *)
\* (mutant) at its first reader.
FirstUse(es, s) ==
  LET readers == {i \in DOMAIN es : s \in ToSet(es[i].ins)}
  IN IF readers # {} THEN Min(readers) ELSE CHOOSE i \in DefinedBy(es, s) : TRUE
LastUse(es, s) ==
  LET readers == {i \in DOMAIN es : s \in ToSet(es[i].ins)}
  IN IF readers # {} THEN Max(readers) ELSE CHOOSE i \in DefinedBy(es, s) : TRUE
DropsOf(es, os) ==
  LET used == UNION {ToSet(es[i].ins) \cup ToSet(es[i].outs) : i \in DOMAIN es}
  IN [i \in DOMAIN es |-> {s \in used \ ToSet(os) : LastUse(es, s) = i}]

(* Run: an output that may view a held constant, or be an argument whose
   donation does not license it, is copied; the licensed ones travel with
   the arguments they alias. *)
CopiesOf(os, f, don) ==
  LET held(j) == os[j] \in f.cview
      args(j) == AliasOf(f, os[j])
  IN [copy |-> {j \in DOMAIN os : held(j) \/ (args(j) # {} /\ ~ args(j) \subseteq don)},
      exempt |-> {<<j, args(j)>> : j \in {k \in DOMAIN os :
                    ~ held(k) /\ args(k) # {} /\ args(k) \subseteq don}}]

-----------------------------------------------------------------------------
(***************************************************************************)
(* The frame's life.                                                       *)
(***************************************************************************)
Op(k, ins) == [kind |-> k, ins |-> ins, const |-> NoPayload, trip |-> 0,
               static |-> FALSE, move |-> <<>>]

ConstOp(c) == [Op("const", <<>>) EXCEPT !.const = c]
BranchOp(v, w, t) == [Op("branch", <<v, v, w>>) EXCEPT !.trip = t]
LoopOp(v, w, t, k, m) ==
  [Op("loop", <<v, w, <<0, 1>>>>) EXCEPT !.trip = t, !.static = k, !.move = m]

(* The ops a program may go on with. *)
LoopOps ==
  IF Cardinality({i \in DOMAIN src : src[i].kind = "loop"}) < MaxLoops
  THEN {LoopOp(v, w, t, k, m) :
          v \in Known, w \in Known, t \in 0 .. MaxTrip, k \in BOOLEAN, m \in Moves}
  ELSE {}
NextOps ==
  {ConstOp(c) : c \in Consts} \cup {Op("iota", <<>>)}
    \cup {Op("add", <<v, w>>) : v \in Known, w \in Known}
    \cup {Op(k, <<v>>) : k \in {"bcast", "view", "ident", "barrier", "print"}, v \in Known}
    \cup {BranchOp(v, w, t) : v \in Known, w \in Known, t \in 1 .. 2}
    \cup LoopOps

TapeInit ==
  /\ chosen \in Programs
  /\ phase = "lower" /\ src = <<>> /\ frame = Frame
  /\ returned = <<>> /\ outputs = <<>> /\ drops = <<>>
  /\ copies = [copy |-> {}, exempt |-> {}]
  /\ env = <<>> /\ pc = 1 /\ log = <<>> /\ outs = <<>>

LowerOp ==
  /\ phase = "lower" /\ Len(src) < chosen.ops
  /\ \E op \in {o \in NextOps : o.kind \in chosen.kinds} :
       /\ src' = Append(src, op)
       /\ frame' = Lowered(frame, op, Len(src) + 1)
  /\ UNCHANGED <<chosen, phase, returned, outputs, drops, copies, env, pc, log, outs>>

(* The terminator: what the block returns. *)
Terminate ==
  /\ phase = "lower" /\ src # <<>>
  /\ \E v \in Known : \E w \in {v} \cup {<<Len(src), 1>>} :
       returned' = IF v = w THEN <<v>> ELSE <<v, w>>
  /\ outputs' = [j \in DOMAIN returned' |-> frame.slot[returned'[j]]]
  /\ phase' = "cse"
  /\ UNCHANGED <<chosen, src, frame, drops, copies, env, pc, log, outs>>

CsePass ==
  /\ phase = "cse" /\ phase' = "fold"
  /\ IF CsePassOn
     THEN LET m == Merged(Entries, frame.n)
          IN /\ frame' = [frame EXCEPT !.entries = m.kept]
             /\ outputs' = [j \in DOMAIN outputs |-> m.remap[outputs[j]]]
     ELSE UNCHANGED <<frame, outputs>>
  /\ UNCHANGED <<chosen, src, returned, drops, copies, env, pc, log, outs>>

(* Only a region frame folds, and an evaluation that fails, or a payload of
   one element that would be inlined inexactly, keeps the literal tape. *)
FoldConstants ==
  /\ phase = "fold" /\ phase' = "dce"
  /\ LET f == Folded(Entries, outputs) IN
     \/ /\ FoldPassOn /\ chosen.region /\ f.any /\ f.payloads # {}
        /\ frame' = [frame EXCEPT !.entries = f.entries,
                       !.cview = Retainted(f.entries, @ \cup f.payloads)]
     \/ UNCHANGED frame
  /\ UNCHANGED <<chosen, src, returned, outputs, drops, copies, env, pc, log, outs>>

DcePass ==
  /\ phase = "dce" /\ phase' = "finish"
  /\ frame' = IF CsePassOn \/ FoldPassOn
              THEN [frame EXCEPT !.entries = Needed(@, outputs)] ELSE frame
  /\ UNCHANGED <<chosen, src, returned, outputs, drops, copies, env, pc, log, outs>>

(* A region's results stay inside the engine: only @main's are copied. *)
Finish ==
  /\ phase = "finish" /\ phase' = "run"
  /\ drops' = DropsOf(Entries, outputs)
  /\ copies' = IF chosen.region THEN copies
               ELSE CopiesOf(outputs, frame, chosen.donated)
  /\ env' = [s \in 1 .. frame.n |->
               IF s \in Args THEN [term |-> <<"arg", s>>, obj |-> <<"arg", s>>,
                                   buf |-> <<"arg", s>>]
               ELSE NoArray]
  /\ UNCHANGED <<chosen, src, frame, returned, outputs, pc, log, outs>>

Step ==
  /\ phase = "run" /\ pc <= Len(Entries)
  /\ LET e == Entries[pc]
         after == Written(e, env, Len(log))
     IN /\ env' = [s \in DOMAIN env |-> IF s \in drops[pc] THEN NoArray ELSE after[s]]
        /\ log' = IF e.op = "print" THEN Append(log, env[e.ins[1]].term) ELSE log
  /\ pc' = pc + 1
  /\ UNCHANGED <<chosen, phase, src, frame, returned, outputs, drops, copies, outs>>

FreshCopy(a, j) == [a EXCEPT !.obj = <<"copy", j>>, !.buf = <<"copy", j>>]

(* Program::run's copies and its pass over duplicates, and the copies a call
   that takes donations back makes of the exempted outputs. *)
Return ==
  /\ phase = "run" /\ pc > Len(Entries) /\ phase' = "done"
  /\ \E retracted \in SUBSET chosen.donated :
     LET a == [j \in DOMAIN outputs |->
                 IF j \in copies.copy THEN FreshCopy(env[outputs[j]], j)
                 ELSE env[outputs[j]]]
         b == [j \in DOMAIN a |->
                 IF \E i \in 1 .. j - 1 : a[i].obj = a[j].obj
                 THEN FreshCopy(a[j], j) ELSE a[j]]
     IN /\ outs' = [j \in DOMAIN b |->
                      IF \E x \in copies.exempt :
                           x[1] = j /\ x[2] \cap retracted # {}
                      THEN FreshCopy(b[j], j) ELSE b[j]]
        /\ chosen' = [chosen EXCEPT !.donated = @ \ retracted]
  /\ UNCHANGED <<src, frame, returned, outputs, drops, copies, env, pc, log>>

Done == phase = "done" /\ UNCHANGED tapeVars

TapeNext == \/ LowerOp \/ Terminate \/ CsePass \/ FoldConstants \/ DcePass
            \/ Finish \/ Step \/ Return \/ Done
TapeSpec == TapeInit /\ [][TapeNext]_tapeVars

-----------------------------------------------------------------------------
(***************************************************************************)
(* What the tape promises.                                                 *)
(***************************************************************************)

(* The source program itself, op by op: the array of every value and the
   calls it makes. *)
OpResults(op, i, vals, calls) ==
  IF op.kind = "barrier" THEN vals
  ELSE Compute([Entry(op.kind, <<>>, <<<<i, 1>>, <<i, 2>>>>)
                  EXCEPT !.payload = op.const, !.trip = op.trip, !.move = op.move], vals, calls)
Visited(acc, op, i) ==
  LET vals == [k \in DOMAIN op.ins |-> acc.val[op.ins[k]]]
      new == OpResults(op, i, vals, Len(acc.calls))
  IN [val |-> [v \in DOMAIN acc.val \cup {<<i, j>> : j \in 1 .. Arity(op)} |->
                 IF v[1] = i THEN new[v[2]] ELSE acc.val[v]],
      calls |-> IF op.kind = "print" THEN Append(acc.calls, vals[1].term) ELSE acc.calls]
MeaningOf(ops) ==
  LET after[i \in 0 .. Len(ops)] ==
        IF i = 0 THEN [val |-> [v \in {<<0, a>> : a \in Args} |-> Fresh(<<"arg", v[2]>>, v)],
                       calls |-> <<>>]
        ELSE Visited(after[i - 1], ops[i], i)
  IN after[Len(ops)]
Meaning == MeaningOf(src)

(* Merging, folding and dropping entries change neither the arrays a program
   returns nor the host calls it makes, their operands and their order: the
   tape means what the block it was lowered from means. *)
MeansItsSource ==
  phase = "done" =>
    /\ log = Meaning.calls
    /\ \A j \in DOMAIN outs : outs[j].term = Meaning.val[returned[j]].term

(* The drop lists are exact: no entry reads a slot that was let go or never
   written, no output is missing, and nothing is held that neither a later
   entry nor the caller will read (an argument nobody reads excepted). *)
HeldExactlyWhileNeeded ==
  phase = "run" =>
    LET later == UNION {ToSet(Entries[i].ins) : i \in pc .. Len(Entries)}
        made == Args \cup UNION {ToSet(Entries[i].outs) : i \in 1 .. pc - 1}
        unread == {s \in Args : \A i \in DOMAIN Entries : s \notin ToSet(Entries[i].ins)}
    IN {s \in DOMAIN env : env[s] # NoArray}
         = (later \cup ToSet(outputs) \cup unread) \cap made

(* No array a caller gets is an argument it still owns, shares a constant
   the program holds for later calls, or is handed out twice. *)
OutputIsFresh(j) ==
  /\ \A a \in Args \ chosen.donated : outs[j].obj # <<"arg", a>>
  /\ outs[j].buf # <<"const">>
  /\ \A i \in DOMAIN outs \ {j} : outs[i].obj # outs[j].obj

(* The no-alias contract of a main program, as Lowering::Run states it. *)
OutputsAreFresh ==
  phase = "done" /\ ~ chosen.region => \A j \in DOMAIN outs : OutputIsFresh(j)

(* The same contract for the programs whose loops hand a carry on, if at
   all, in its own place: there restating a body's taint once is enough. *)
InPlace(op) == \A j \in DOMAIN op.move : op.move[j][1] = "carry" => op.move[j][2] = j
OutputsAreFreshInPlace ==
  (\A i \in DOMAIN src : src[i].kind = "loop" => InPlace(src[i])) => OutputsAreFresh

TapeTypeOK ==
  /\ phase \in {"lower", "cse", "fold", "dce", "finish", "run", "done"}
  /\ \A i \in DOMAIN Entries :
       \A s \in ToSet(Entries[i].ins) \cup ToSet(Entries[i].outs) : s \in 1 .. frame.n
  /\ DOMAIN frame.alias \subseteq 1 .. frame.n /\ frame.cview \subseteq 1 .. frame.n
  /\ pc \in 1 .. Len(Entries) + 1
=============================================================================
