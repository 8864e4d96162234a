----------------------------- MODULE CrossWorker ----------------------------
(***************************************************************************)
(* What the commands of TaskGather compute: the answer a worker gives from *)
(* its database, what a task writes, and how the caller puts the answers   *)
(* together.  No key has a deadline here, so that reading changes nothing. *)
(***************************************************************************)
EXTENDS TaskGather, KeyCommands, ZSetCommands, BitmapCommands
LOCAL INSTANCE FiniteSetsExt

CONSTANTS ShardMembers,     \* members of sets and zsets
          ShardValue        \* the value MSET writes

-----------------------------------------------------------------------------
(* What a command asks of worker w                                         *)

\* MSET and the store of BITOP write; the database after the task.
TaskEffect(d, task) ==
    LET mine == Part("MSET", task.at)
    IN CASE task.name = "MSET" -> SetAll(d, mine, [i \in DOMAIN mine |-> ShardValue])
         [] task.name = "STORE" -> Set(d, ShardKeys[1], task.value)
         [] OTHER -> d

ValuesOf(d, w) == [i \in DOMAIN Part("MGET", w) |-> GetReply(d, Part("MGET", w)[i])]

SetsOf(d) == [i \in DOMAIN ShardKeys |-> SMembersReply(d, ShardKeys[i])]

ZSetsOf(d) == [i \in DOMAIN ShardKeys |-> ShardScores(d, ShardKeys[i])]

BitmapsOf(d) == [i \in DOMAIN ShardKeys |-> Bitmap(d, ShardKeys[i])]

\* What the task answers.
TaskAnswer(d, name, w) ==
    CASE name = "MGET" -> ValuesOf(d, w)
      [] name \in {"SINTER", "SUNION", "SDIFF"} -> SetsOf(d)
      [] name \in {"ZINTER", "ZUNION", "ZDIFF"} -> ZSetsOf(d)
      [] name = "BITOP" -> BitmapsOf(d)
      [] name = "SCAN" -> GetAllKeys(d)
      [] OTHER -> Nil

\* Mutant: the answer of the last worker replaces the earlier ones.
AllSetsLast(answers) == [k \in DOMAIN Shard |->
    UNION {answers[NumWorkers - 1][i] : i \in {j \in DOMAIN ShardKeys : ShardKeys[j] = k}}]

\* all_sets[k]: what the workers have of k, taken together.
AllSets(answers) == [k \in DOMAIN Shard |->
    UNION {answers[w][i] : w \in Workers, i \in {j \in DOMAIN ShardKeys : ShardKeys[j] = k}}]

\* all_zsets[k]: insert keeps the score that is there; all are zero.
AllZSets(answers) == [k \in DOMAIN Shard |->
    [m \in UNION {DOMAIN answers[w][i] : w \in Workers, i \in {j \in DOMAIN ShardKeys : ShardKeys[j] = k}} |-> 0]]

AllKeys(answers) == UNION {answers[w] : w \in Workers}

\* DBSIZE and KEYS read the databases of all workers from their own thread.
GatheredDbSize == MapThenSumSet(LAMBDA w : HandleDbSize(dbs[w]).reply, Workers)

Ones == [i \in DOMAIN ShardKeys |-> 1]

\* The reply, from the answers of the workers.
Gathered(name, answers) ==
    CASE name = "SINTER" -> GatheredInter(AllSets(answers), ShardKeys)
      [] name = "SUNION" -> GatheredUnion(AllSets(answers), ShardKeys)
      [] name = "SDIFF" -> GatheredDiff(AllSets(answers), ShardKeys)
      [] name = "ZINTER" -> GatheredZInter(AllZSets(answers), ShardKeys, Ones, "SUM")
      [] name = "ZUNION" -> GatheredZUnion(AllZSets(answers), ShardKeys, Ones, "SUM")
      [] name = "ZDIFF" -> GatheredZDiff(AllZSets(answers), ShardKeys)
      [] name = "BITOP" -> GatheredBitOp("OR", [i \in 1..NumWorkers |-> answers[i - 1]])
      [] name = "SCAN" -> AllKeys(answers)
      [] OTHER -> answers

\* What BITOP stores.
BitOpResult(answers) == Gathered("BITOP", answers)

\* SADD and ZADD of one member to a key of worker w.
AddsTo(d, w) ==
    {HandleSAdd(d, k, <<m>>).db : k \in {j \in DOMAIN Shard : Shard[j] = w}, m \in ShardMembers}
    \cup {HandleZAdd(d, k, <<1>>, <<m>>).db : k \in {j \in DOMAIN Shard : Shard[j] = w}, m \in ShardMembers}

-----------------------------------------------------------------------------
(* Properties                                                              *)

\* The database one worker would have if all keys were its own.
Union == [EmptyDatabase EXCEPT
    !.strings = [k \in UNION {DOMAIN dbs[w].strings : w \in Workers} |-> dbs[Shard[k]].strings[k]],
    !.sets = [k \in UNION {DOMAIN dbs[w].sets : w \in Workers} |-> dbs[Shard[k]].sets[k]],
    !.zsets = [k \in UNION {DOMAIN dbs[w].zsets : w \in Workers} |-> dbs[Shard[k]].zsets[k]],
    !.meta = [k \in UNION {DOMAIN dbs[w].meta : w \in Workers} |-> dbs[Shard[k]].meta[k]]]

MembersOf(s) == {s[i].member : i \in DOMAIN s}

\* Between two commands, asking all the workers comes to what one worker with
\* all the keys would answer: the same sets, the same zset members, the same
\* counts and keys.  (Before the first command there is nothing to compare.)
GatherMatchesOneWorker ==
    LET AnswersTo(name) == [w \in Workers |-> TaskAnswer(dbs[w], name, w)]
        Of(name) == Gathered(name, AnswersTo(name))
        sets == AllSets(AnswersTo("SINTER"))
        zsets == AllZSets(AnswersTo("ZINTER"))
    IN (\A w \in Workers : call[w] = NoCall) /\ (\E w \in Workers : left[w] < MaxCommands) =>
       /\ Of("SINTER") = HandleSInter(Union, ShardKeys).reply
       /\ Of("SUNION") = HandleSUnion(Union, {ShardKeys[i] : i \in DOMAIN ShardKeys}).reply
       /\ Of("SDIFF") = HandleSDiff(Union, ShardKeys[1], {ShardKeys[i] : i \in 2..Len(ShardKeys)}).reply
       /\ MembersOf(Of("ZUNION")) = MembersOf(HandleZUnion(Union, ShardKeys, Ones, "SUM").reply)
       /\ MembersOf(Of("ZDIFF")) = MembersOf(HandleZDiff(Union, ShardKeys).reply)
       /\ \A limit \in 0..1 :
              /\ GatheredInterCard(sets, ShardKeys, limit) = HandleSInterCard(Union, ShardKeys, limit).reply
              /\ GatheredZInterCard(zsets, ShardKeys, limit) = HandleZInterCard(Union, ShardKeys, limit).reply
       /\ Of("SCAN") = GetAllKeys(Union)
       /\ GatheredDbSize = HandleDbSize(Union).reply

=============================================================================
