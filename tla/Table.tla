------------------------------- MODULE Table -------------------------------
(***************************************************************************)
(* A Lua table (runtime/table.go): the compact array of integers the VM's  *)
(* write loops build, the ordinary array, the hash, and the caches kept    *)
(* beside them: the length, the iteration snapshot and the snapshot before *)
(* the last write, the keys projected by _glua_const, the freeze flag and  *)
(* the weak mode.  The inline cache the VM keeps per instruction for reads *)
(* of string keys is here too, since the table's version is what ends it.  *)
(*                                                                         *)
(* Every Lua-facing write is an action; so are #t, next, a second reader   *)
(* that builds a snapshot in the middle of a traversal, and the sweeps of  *)
(* the collector.                                                          *)
(*                                                                         *)
(* Abstracted: a value is an integer or an object, since only that tells   *)
(* the compact array apart; the keys that are not positive integers are a  *)
(* few model values, some of them objects; capacities of the slices; the   *)
(* version is "has it moved since the inline cache was filled"; an invalid *)
(* cache has no content, which no code reads; a snapshot is the set of its *)
(* keys, as all are sorted by one order; the field _glua_const itself.     *)
(***************************************************************************)
EXTENDS Integers, Sequences, FiniteSets

CONSTANTS MaxArray,    \* maxTableArrayIndex
          MaxKey,      \* bound: the largest integer key used
          OtherKeys,   \* the keys that are not positive integers
          Name,        \* one of them: the string an instruction reads
          Integer,     \* the value that is an integer
          Object,      \* the value that is an object; it may be a key as well
          Nil,
          MaxWrites,   \* bound: changes of the table
          ConstNames,  \* bound: the keys _glua_const may project
          Unknown      \* an inline cache with nothing of this version

Values     == {Integer, Object}
Positive   == 1 .. MaxKey
Keys       == Positive \cup OtherKeys
HashKeys   == ((MaxArray + 1) .. MaxKey) \cup OtherKeys
WeakModes  == {"none", "k", "v", "kv"}
NoLength   == -1

ASSUME ArrayAssumption ==
  /\ MaxArray \in Nat /\ MaxKey \in Nat /\ MaxArray <= MaxKey
  /\ MaxWrites \in Nat
ASSUME KeyAssumption ==
  /\ IsFiniteSet(OtherKeys) /\ OtherKeys \cap Positive = {}
  /\ Name \in OtherKeys \ {Object}
  /\ ConstNames \subseteq Keys
ASSUME ValueAssumption ==
  /\ Integer # Object
  /\ Nil \notin Values \cup Keys
  /\ Unknown \notin Values \cup {Nil}

VARIABLES
  table,    \* the struct Table and the inline cache of one string read
  walk,     \* a traversal with next: its control key and what it has met
  writes    \* bound: how many changes there have been

tableVars == <<table, walk, writes>>

TableType ==
  [ dense: BOOLEAN, array: Seq(Values \cup {Nil}), hash: [HashKeys -> Values \cup {Nil}],
    lengthCache: NoLength .. MaxKey, iterationCache: SUBSET Keys,
    iterationCacheValid: BOOLEAN, staleIterationCache: SUBSET Keys,
    constKeys: SUBSET Keys, readOnly: BOOLEAN, metatable: BOOLEAN, mode: WeakModes,
    inline: Values \cup {Nil, Unknown} ]

WalkType ==
  [ state: {"off", "on", "refused"}, key: Keys \cup {Nil}, seen: SUBSET Keys,
    disturbed: BOOLEAN ]

NewTable(dense) ==
  [dense |-> dense, array |-> <<>>, hash |-> [k \in HashKeys |-> Nil],
   lengthCache |-> NoLength, iterationCache |-> {},
   iterationCacheValid |-> FALSE, staleIterationCache |-> {},
   constKeys |-> {}, readOnly |-> FALSE, metatable |-> FALSE, mode |-> "none",
   inline |-> Unknown]

NoWalk == [state |-> "off", key |-> Nil, seen |-> {}, disturbed |-> FALSE]

-----------------------------------------------------------------------------
(* Reading. *)

RawGet(t, k) ==
  IF k \in OtherKeys THEN t.hash[k]
  ELSE IF k <= Len(t.array) THEN t.array[k]
  ELSE IF k \in HashKeys THEN t.hash[k] ELSE Nil

Content(t) == [k \in Keys |-> RawGet(t, k)]
Present(t) == {k \in Keys : RawGet(t, k) # Nil}

\* The compact array becomes the ordinary one; nothing Lua sees changes.
Materialize(t) == [t EXCEPT !.dense = FALSE]

\* Mutants: a write forgets a cache, or the snapshot it replaces.
MutationKeepsVersion(t) ==
  [t EXCEPT !.staleIterationCache = IF t.iterationCacheValid THEN t.iterationCache ELSE @,
            !.iterationCacheValid = FALSE, !.iterationCache = {}]
MutationDropsSnapshot(t) ==
  [t EXCEPT !.iterationCacheValid = FALSE, !.iterationCache = {}, !.inline = Unknown]

NoteMutation(t) ==
  [t EXCEPT !.staleIterationCache =
                IF t.iterationCacheValid THEN t.iterationCache ELSE @,
            !.iterationCacheValid = FALSE,
            !.iterationCache = {},
            !.inline = Unknown]

-----------------------------------------------------------------------------
(* The length. *)

Absent(t, n) == n > MaxKey \/ RawGet(t, n) = Nil

Bounds == 0 .. 2 * MaxKey + 2

\* Halve low .. high until high = low + 1: low is present (or 0), high absent.
Narrow(t, low, high) ==
  LET halve[at \in Bounds \X Bounds] ==
        LET middle == (at[1] + at[2]) \div 2
        IN IF at[2] - at[1] <= 1 THEN at[1]
           ELSE IF Absent(t, middle) THEN halve[<<at[1], middle>>]
                                     ELSE halve[<<middle, at[2]>>]
  IN halve[<<low, high>>]

UnboundSearch(t, present) ==
  LET double[at \in Bounds \X (Bounds \ {0})] ==
        IF Absent(t, at[2]) THEN Narrow(t, at[1], at[2])
                            ELSE double[<<at[2], 2 * at[2]>>]
  IN IF present = 0 /\ Absent(t, 1) THEN 0 ELSE double[<<present, present + 1>>]

\* Mutant: the last slot of the array is taken for present.
SearchFromArray(t) ==
  IF t.dense THEN Len(t.array) ELSE UnboundSearch(t, Len(t.array))

SearchLength(t) ==
  LET size == Len(t.array)
  IN IF t.dense THEN size
     ELSE IF size > 0 /\ t.array[size] = Nil THEN Narrow(t, 0, size)
     ELSE UnboundSearch(t, size)

Length(t) == IF t.lengthCache # NoLength THEN t.lengthCache ELSE SearchLength(t)

\* Mutant: the last element is cleared and the cache stays.
UpdateLengthCacheBelow(t, k, v) ==
  IF t.lengthCache = NoLength THEN t
  ELSE [t EXCEPT !.lengthCache =
          IF v = Nil THEN IF k < @ THEN NoLength ELSE @
          ELSE IF k = @ + 1 THEN k ELSE IF k <= @ THEN @ ELSE NoLength]

UpdateLengthCache(t, k, v) ==
  IF t.lengthCache = NoLength THEN t
  ELSE [t EXCEPT !.lengthCache =
          IF v = Nil THEN IF k <= @ THEN NoLength ELSE @
          ELSE IF k = @ + 1 THEN k ELSE IF k <= @ THEN @ ELSE NoLength]

-----------------------------------------------------------------------------
(* Writing. *)

FitsDense(t, k, v) ==
  /\ t.dense
  /\ k <= MaxArray
  /\ v = Integer
  /\ k <= Len(t.array) + 1

\* Array slots up to k, the new ones empty, then slot k.
SetSlot(array, k, v) ==
  [i \in 1 .. (IF k > Len(array) THEN k ELSE Len(array)) |->
     IF i = k THEN v ELSE IF i <= Len(array) THEN array[i] ELSE Nil]

\* Mutant: no integer key is too large for the array.
StoreInArray(t, k, v) == NoteMutation([t EXCEPT !.array = SetSlot(@, k, v)])

StoreInteger(t, k, v) ==
  NoteMutation(IF k <= MaxArray THEN [t EXCEPT !.array = SetSlot(@, k, v)]
                                ELSE [t EXCEPT !.hash[k] = v])

RawSetInteger(t, k, v) ==
  IF FitsDense(t, k, v)
  THEN StoreInteger(UpdateLengthCache(t, k, v), k, v)
  ELSE StoreInteger(UpdateLengthCache(Materialize(t), k, v), k, v)

\* The write of the numeric loops: v is not nil, and the rule for the length
\* cache is spelled out again.
RawSetPositiveIntegerNonNil(t, k, v) ==
  IF FitsDense(t, k, v) THEN RawSetInteger(t, k, v)
  ELSE LET plain == Materialize(t)
           cached == IF plain.lengthCache = NoLength \/ k <= plain.lengthCache
                     THEN plain.lengthCache
                     ELSE IF k = plain.lengthCache + 1 THEN k ELSE NoLength
       IN StoreInteger([plain EXCEPT !.lengthCache = cached], k, v)

RawSetOther(t, k, v) == NoteMutation([Materialize(t) EXCEPT !.hash[k] = v])

RawSetUnchecked(t, k, v) ==
  IF k \in OtherKeys THEN RawSetOther(t, k, v) ELSE RawSetInteger(t, k, v)

\* Mutant: a setter does not look at the frozen flag.
CheckConstKeys(t, k) == k \notin t.constKeys

CheckConst(t, k) == ~t.readOnly /\ k \notin t.constKeys

-----------------------------------------------------------------------------
(* Iteration. *)

\* Array before hash, the hash sorted in some order.
HashOrder == CHOOSE order \in [HashKeys -> 1 .. Cardinality(HashKeys)] :
               \A j, k \in HashKeys : order[j] = order[k] => j = k
Position(k)  == IF k \in HashKeys THEN MaxArray + HashOrder[k] ELSE k
First(keys) == CHOOSE k \in keys : \A j \in keys : Position(k) <= Position(j)

RawIterationEntries(t) ==
  LET plain == Materialize(t)
  IN IF plain.iterationCacheValid THEN plain
     ELSE [plain EXCEPT !.iterationCache = Present(plain), !.iterationCacheValid = TRUE]

\* The first key of the snapshot behind k that the table still has.
RawNextFromEntries(t, snapshot, k) ==
  LET left == {j \in snapshot : Position(k) < Position(j) /\ RawGet(t, j) # Nil}
  IN IF left = {} THEN [outcome |-> "end", key |-> Nil]
     ELSE [outcome |-> "key", key |-> First(left)]

\* RawNext once the snapshot of t is built.
RawNext(t, k) ==
  IF t.iterationCache = {} THEN [outcome |-> "end", key |-> Nil]
  ELSE IF k = Nil THEN [outcome |-> "key", key |-> First(t.iterationCache)]
  ELSE IF k \in t.iterationCache THEN RawNextFromEntries(t, t.iterationCache, k)
  ELSE IF k \in t.staleIterationCache THEN RawNextFromEntries(t, t.staleIterationCache, k)
  ELSE [outcome |-> "invalid", key |-> Nil]

-----------------------------------------------------------------------------
(* The weak sweeps.  Object is the one collectable object. *)

Collectable(x) == x = Object

ShouldRemoveWeakEntry(t, k, v, strong) ==
  LET weakKeys == t.mode \in {"k", "kv"}
      weakValues == t.mode \in {"v", "kv"}
  IN \/ weakKeys /\ weakValues /\ k = v /\ Collectable(k)
     \/ weakKeys /\ Collectable(k) /\ ~strong
     \/ weakValues /\ Collectable(v) /\ ~strong /\ ~(~weakKeys /\ k = v)

\* Entries leave without a call of the setters, so the caches are ended here.
Drop(t, gone) ==
  LET swept == [t EXCEPT
        !.array = [i \in DOMAIN @ |-> IF i \in gone THEN Nil ELSE @[i]],
        !.hash = [k \in HashKeys |-> IF k \in gone THEN Nil ELSE @[k]]]
  IN IF gone = {} THEN t
     ELSE NoteMutation([swept EXCEPT !.lengthCache = NoLength])

InArray(t, k) == k \notin OtherKeys /\ k <= Len(t.array)

SweepWeakEntries(t, strong) ==
  LET plain == Materialize(t)
      doomed(k) == IF InArray(plain, k)
                   THEN /\ plain.mode \in {"v", "kv"}
                        /\ Collectable(RawGet(plain, k)) /\ ~strong
                   ELSE ShouldRemoveWeakEntry(plain, k, RawGet(plain, k), strong)
  IN IF plain.mode = "none" THEN plain ELSE Drop(plain, {k \in Present(plain) : doomed(k)})

SweepWeakValueEntries(t, strong) ==
  LET plain == Materialize(t)
      doomed(k) == /\ Collectable(RawGet(plain, k)) /\ ~strong
                   /\ InArray(plain, k) \/ k # RawGet(plain, k)
  IN IF plain.mode # "v" THEN plain ELSE Drop(plain, {k \in Present(plain) : doomed(k)})

\* Before the finalizers, a table with weak keys and values lets go of every
\* object; "preserved" says that the object waits for its finalizer.
SweepWeakKVEntriesBeforeFinalizers(t, preserved) ==
  LET plain == Materialize(t)
      doomed(k) == IF InArray(plain, k) THEN Collectable(RawGet(plain, k))
                   ELSE \/ Collectable(k) /\ ~preserved
                        \/ Collectable(RawGet(plain, k)) /\ k # RawGet(plain, k)
  IN IF plain.mode # "kv" THEN plain ELSE Drop(plain, {k \in Present(plain) : doomed(k)})

-----------------------------------------------------------------------------
(* for i = first, last do t[i] = i end in one go.                          *)

\* The dense loop ends at the last slot of the array area, and the numeric
\* loop goes on from there in another batch.
DenseWriteLoop(t, first, last) ==
  LET top == IF last < MaxArray THEN last ELSE MaxArray
      size == IF top > Len(t.array) THEN top ELSE Len(t.array)
  IN NoteMutation([t EXCEPT !.array = [i \in 1 .. size |-> Integer],
                            !.lengthCache = size])

PlainWriteLoop(t, first, last) ==
  LET written[k \in (first - 1) .. last] ==
        IF k < first THEN t
        ELSE RawSetPositiveIntegerNonNil(written[k - 1], k, Integer)
  IN written[last]

WriteLoop(t, first, last) ==
  IF t.dense /\ first <= MaxArray /\ first <= Len(t.array) + 1
  THEN DenseWriteLoop(t, first, last)
  ELSE PlainWriteLoop(t, first, last)
-----------------------------------------------------------------------------
(* The steps. *)

TableInit ==
  /\ table \in {NewTable(dense) : dense \in BOOLEAN}
  /\ walk = NoWalk
  /\ writes = 0

\* A key that was absent is present now: the traversal promises nothing more.
Become(t) ==
  /\ writes < MaxWrites
  /\ writes' = writes + 1
  /\ table' = t
  /\ walk' = IF Present(t) \subseteq Present(table) THEN walk ELSE NoWalk

SetKey(k, v) ==
  /\ CheckConst(table, k)
  /\ Become(RawSetUnchecked(table, k, v))

SetPositive(k, v) ==
  /\ CheckConst(table, k)
  /\ Become(RawSetPositiveIntegerNonNil(table, k, v))

\* Neither the frozen flag nor the const keys are looked at.
WriteLoopBatch(first, last) ==
  /\ ~table.metatable
  /\ Become(WriteLoop(table, first, last))

\* An assignment to _glua_const whose table holds k.
ApplyGluaConst(k, v) ==
  /\ ~table.readOnly
  /\ Become([RawSetUnchecked(table, k, v) EXCEPT !.constKeys = @ \cup {k}])

Freeze == Become([table EXCEPT !.readOnly = TRUE])

SetTableMetatable(metatable, mode) ==
  /\ metatable \/ mode = "none"
  /\ Become([table EXCEPT !.metatable = metatable, !.mode = mode])

Measure ==
  /\ table' = [table EXCEPT !.lengthCache = Length(table)]
  /\ UNCHANGED <<walk, writes>>

ReadName ==
  /\ ~table.metatable
  /\ table' = [table EXCEPT !.inline = IF @ = Unknown THEN RawGet(table, Name) ELSE @]
  /\ UNCHANGED <<walk, writes>>

Sweep(strong) ==
  \/ Become(SweepWeakEntries(table, strong))
  \/ Become(SweepWeakValueEntries(table, strong))
  \/ Become(SweepWeakKVEntriesBeforeFinalizers(table, strong))

Pairs ==
  /\ walk' = [NoWalk EXCEPT !.state = "on"]
  /\ UNCHANGED <<table, writes>>

WalkNext ==
  LET t == RawIterationEntries(table)
      result == RawNext(t, walk.key)
  IN /\ walk.state = "on"
     /\ table' = t
     /\ walk' = CASE result.outcome = "end" -> NoWalk
                  [] result.outcome = "key" ->
                       [walk EXCEPT !.key = result.key, !.disturbed = FALSE,
                                    !.seen = @ \cup {result.key}]
                  [] result.outcome = "invalid" -> [NoWalk EXCEPT !.state = "refused"]
     /\ UNCHANGED writes

\* next(t), a nested pairs or the collector's marking, while walk is between
\* two of its steps.
OtherReader ==
  /\ table' = RawIterationEntries(table)
  /\ walk' = [walk EXCEPT !.disturbed =
                 @ \/ (walk.key # Nil /\ walk.key \notin Present(table))]
  /\ UNCHANGED writes

TableNext ==
  \/ \E k \in Keys, v \in Values \cup {Nil} : SetKey(k, v)
  \/ \E k \in Positive, v \in Values : SetPositive(k, v)
  \/ \E first, last \in Positive : first <= last /\ WriteLoopBatch(first, last)
  \/ \E k \in ConstNames, v \in Values \cup {Nil} : ApplyGluaConst(k, v)
  \/ Freeze
  \/ \E metatable \in BOOLEAN, mode \in WeakModes : SetTableMetatable(metatable, mode)
  \/ Measure
  \/ ReadName
  \/ \E strong \in BOOLEAN : Sweep(strong)
  \/ Pairs
  \/ WalkNext
  \/ OtherReader

TableSpec == TableInit /\ [][TableNext]_tableVars

-----------------------------------------------------------------------------
(* Correctness. *)

TableTypeOK ==
  /\ table \in TableType /\ Len(table.array) <= MaxArray
  /\ walk \in WalkType
  /\ writes \in 0 .. MaxWrites

\* Whichever way its contents came about, in the array, in the hash or across
\* both, the search of Len finds a border: a present element (or 0) whose
\* successor is absent.
SearchFindsBorder ==
  LET n == SearchLength(table)
  IN /\ n = 0 \/ RawGet(table, n) # Nil
     /\ Absent(table, n + 1)

\* What #t answers.
IsBorder(t) ==
  LET n == Length(t)
  IN (n = 0 \/ ~Absent(t, n)) /\ Absent(t, n + 1)

\* The length cache is maintained across setters, write loops and sweeps.  The
\* one way in which #t stops being a border is an assignment that fills the
\* element just above it, up to an element that was there already: the cache
\* moves up with the assignment and no further.
MayDrift(t, u) ==
  IsBorder(t) =>
    \/ IsBorder(u)
    \/ /\ Length(u) > Length(t)
       /\ \A n \in (Length(t) + 1) .. Length(u) : ~Absent(u, n)
       /\ ~Absent(t, Length(u) + 1)
LengthDrift == [][MayDrift(table, table')]_tableVars

\* The snapshot next steps through lists what the table holds now, and an inline
\* cache that still answers answers with what the table holds, after any setter,
\* loop batch or sweep.
CachesCurrent ==
  /\ table.iterationCacheValid => table.iterationCache = Present(table)
  /\ table.inline # Unknown => table.inline = RawGet(table, Name)

\* A const key, and every key of a frozen table, keeps its value except for a
\* sweep, for a later assignment to _glua_const, and for the write loop.
ConstKept ==
  [][\A k \in Keys : table.readOnly \/ k \in table.constKeys =>
       \/ RawGet(table', k) = RawGet(table, k)
       \/ \E strong \in BOOLEAN : Sweep(strong)
       \/ \E v \in Values \cup {Nil} : ApplyGluaConst(k, v)
       \/ \E first, last \in Positive : k \in first .. last /\ WriteLoopBatch(first, last)]_tableVars

\* The table keeps the promise of a Lua table, caches and areas and all.
Promise == INSTANCE LuaTable WITH
  content <- Content(table), seen <- walk.seen, control <- walk.key,
  traversal <- walk.state, disturbed <- walk.disturbed
KeepsPromise == Promise!Spec
=============================================================================
