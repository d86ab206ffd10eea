------------------------------ MODULE TapeCache ------------------------------
(***************************************************************************)
(* The fused tape an executable keeps and the process-wide cache of packed *)
(* weights behind it (metal_executable.cc Tape, metal_qmm.cc CachedBuild   *)
(* and RememberBuild).  Both recognize a weight by the address of its      *)
(* descriptor, a weak handle on its Data and the address of the Data: all  *)
(* addresses are recycled.                                                 *)
(*                                                                         *)
(* The weights the embedder hands over are `now`; a Data is one generation *)
(* `gen` at an address `raw`, alive while some weight has it.  `value`     *)
(* tells contents apart.                                                   *)
(***************************************************************************)
EXTENDS Integers, Sequences, FiniteSets, FiniteSetsExt, SequencesExt

CONSTANTS
  Slots, ProjOnly,  \* the weights packs are keyed on; by projection packs alone
  Ids, Raws,        \* addresses of descriptors and of Data
  MaxRepacks, MaxProjRepacks, MaxBuilt,
  MaxGen, MaxCalls  \* bounds: Data objects and writes; executions

ASSUME TapeCacheAssumption ==
  /\ IsFiniteSet(Slots) /\ ProjOnly \subseteq Slots
  /\ 1 .. Cardinality(Slots) \subseteq Ids \cap Raws
  /\ {MaxRepacks, MaxProjRepacks, MaxBuilt, MaxGen, MaxCalls} \subseteq Nat

VARIABLES
  now,              \* each slot's weight
  gens,             \* Data objects and contents there have been
  fusedKeys,        \* fused_->pack_arg_*, by slot; <<>> when fused_ is null
  ran,              \* what the last execution packed, by slot; <<>>: plain tape
  repacks, projRepacks, projOff, fuseDone,
  built,            \* BuiltCache(), least recently used first
  builds, executions  \* history: fused tapes built; executions

fusion == <<fusedKeys, ran, repacks, projRepacks, projOff, fuseDone, built, builds>>
cacheVars == <<now, gens, fusion, executions>>

Key(w) == [id |-> w.id, gen |-> w.gen, raw |-> w.raw, value |-> w.value]

CacheInit ==
  /\ LET place == CHOOSE f \in [Slots -> 1 .. Cardinality(Slots)] :
                    \A s, t \in Slots : s # t => f[s] # f[t]
     IN now = [s \in Slots |-> [id |-> place[s], gen |-> place[s], raw |-> place[s],
                                value |-> 0]]
  /\ gens = Cardinality(Slots)
  /\ fusedKeys = <<>> /\ ran = <<>>
  /\ repacks = 0 /\ projRepacks = 0 /\ projOff = FALSE /\ fuseDone = FALSE
  /\ built = <<>> /\ builds = 0 /\ executions = 0

Alive(gen) == \E s \in Slots : now[s].gen = gen

---------------------------------------------------------------------------
\* The embedder lets a weight go and hands over a fresh array, on any address
\* that is free by then.
Replace(s) ==
  /\ gens < MaxGen /\ gens' = gens + 1
  /\ \E id \in Ids \ {now[t].id : t \in Slots \ {s}},
        raw \in Raws \ {now[t].raw : t \in Slots \ {s}} :
       now' = [now EXCEPT ![s] = [id |-> id, gen |-> gens + 1, raw |-> raw, value |-> gens + 1]]
  /\ UNCHANGED <<fusion, executions>>

\* A program that is given a weight writes its result over it: MLX hands the
\* Data on, and the new descriptor was made before the old one went.
Overwrite(s) ==
  /\ gens < MaxGen /\ gens' = gens + 1
  /\ \E id \in Ids \ {now[t].id : t \in Slots} :
       now' = [now EXCEPT ![s].id = id, ![s].value = gens + 1]
  /\ UNCHANGED <<fusion, executions>>

\* (mutant) the descriptor's address is taken for the array.
MatchesById(key, w) == key.id = w.id
\* Tape's key and LeafMatches: the weak handle proves the Data alive.
Matches(key, w) == key.id = w.id /\ Alive(key.gen) /\ key.raw = w.raw

\* (mutant) the least recently used, dead or alive.
ForgotOldest(entries) == IF Len(entries) < MaxBuilt THEN entries ELSE Tail(entries)
\* The entries whose weight is alive, in their order.
Living(entries) ==
  LET kept[n \in 0 .. Len(entries)] ==
        IF n = 0 THEN <<>>
        ELSE IF Alive(entries[n].key.gen) THEN Append(kept[n - 1], entries[n]) ELSE kept[n - 1]
  IN kept[Len(entries)]
\* RememberBuild's room: dead entries first, then the least recently used.
Forgot(entries) ==
  LET alive == Living(entries)
  IN IF Len(entries) < MaxBuilt THEN entries
     ELSE IF Len(alive) < MaxBuilt THEN alive
     ELSE SubSeq(alive, Len(alive) - MaxBuilt + 2, Len(alive))
\* CachedBuild, or a build that is remembered; a hit becomes the latest used.
Remembered(entries, s) ==
  LET hit == {j \in DOMAIN entries : entries[j].slot = s /\ Matches(entries[j].key, now[s])}
  IN IF MaxBuilt = 0 THEN [pack |-> Key(now[s]), entries |-> entries]
     ELSE IF hit # {}
     THEN LET j == Min(hit)
          IN [pack |-> entries[j].key,
              entries |-> Append(RemoveAt(entries, j), entries[j])]
     ELSE [pack |-> Key(now[s]),
           entries |-> Append(Forgot(entries), [slot |-> s, key |-> Key(now[s])])]

\* (mutant) the next call tries again.
RetireForNow == /\ fusedKeys' = <<>> /\ ran' = <<>> /\ fuseDone' = FALSE
                /\ UNCHANGED <<built, builds>>
\* The plain tape, from now on.
Retire == /\ fusedKeys' = <<>> /\ ran' = <<>> /\ fuseDone' = TRUE
          /\ UNCHANGED <<built, builds>>

\* The cache, pack by pack.
CacheAlong(order) ==
  LET after[n \in 0 .. Len(order)] ==
        IF n = 0 THEN built ELSE Remembered(after[n - 1], order[n]).entries
  IN after
\* LowerModuleFused with the packs of `slots`, each cached or made anew.  The
\* keys are what this call handed over; it may also claim nothing, or fail.
Build(slots) ==
  LET order == SetToSeq(slots)
      after == CacheAlong(order)
      At(s) == CHOOSE n \in DOMAIN order : order[n] = s
  IN \/ /\ slots # {}
        /\ fusedKeys' = [s \in slots |-> Key(now[s])]
        /\ ran' = [s \in slots |-> Remembered(after[At(s) - 1], s).pack]
        /\ built' = after[Len(order)]
        /\ fuseDone' = FALSE /\ builds' = builds + 1
     \/ Retire

\* MetalLoadedExecutable::Tape.
Execute ==
  LET missed == {s \in DOMAIN fusedKeys : ~ Matches(fusedKeys[s], now[s])} IN
  /\ executions < MaxCalls /\ executions' = executions + 1
  /\ IF fusedKeys = <<>>
     THEN /\ IF fuseDone THEN ran' = <<>> /\ UNCHANGED <<fusedKeys, fuseDone, built, builds>>
             ELSE Build(Slots)
          /\ UNCHANGED <<repacks, projRepacks, projOff>>
     ELSE IF missed = {}
     THEN UNCHANGED fusion
     ELSE IF missed \subseteq ProjOnly /\ ~ projOff
     THEN /\ projRepacks' = projRepacks + 1
          /\ projOff' = (projRepacks' > MaxProjRepacks)
          /\ Build(IF projOff' THEN Slots \ ProjOnly ELSE Slots)
          /\ UNCHANGED repacks
     ELSE /\ repacks' = repacks + 1
          /\ IF repacks' > MaxRepacks THEN Retire
             ELSE Build(IF projOff THEN Slots \ ProjOnly ELSE Slots)
          /\ UNCHANGED <<projRepacks, projOff>>
  /\ UNCHANGED <<now, gens>>

CacheRest == executions = MaxCalls /\ UNCHANGED cacheVars

CacheNext == (\E s \in Slots : Replace(s) \/ Overwrite(s)) \/ Execute \/ CacheRest
CacheSpec == CacheInit /\ [][CacheNext]_cacheVars

---------------------------------------------------------------------------
\* A fused tape that is kept answers for the buffers it was packed from, and
\* for no other that came to live at their addresses.
PacksAreOfTheirBuffers ==
  [][executions' > executions => \A s \in DOMAIN ran' : ran'[s].gen = now[s].gen]_cacheVars

\* "The pack is a pure function of the buffers its reconstruction read: a call
\* that hands over the same arrays reuses it" (Tape): what a run multiplies by
\* is packed from the weights it was handed.
PacksAreOfTheirWeights ==
  [][executions' > executions => \A s \in DOMAIN ran' : ran'[s].value = now[s].value]_cacheVars

\* Weights that change at every call are repacked a bounded number of times,
\* and what is retired stays retired.
RepacksEnd == builds <= 1 + MaxRepacks + MaxProjRepacks + 1

\* The cache keeps to its size, and no pack of a living weight makes room
\* while one of a dead weight is kept.
DeadGoFirst ==
  [][/\ Len(built') <= MaxBuilt
     /\ (\E e \in ToSet(built) \ ToSet(built') : Alive(e.key.gen)) =>
          \A e \in ToSet(built') : Alive(e.key.gen)]_cacheVars
=============================================================================
