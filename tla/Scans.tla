------------------------------- MODULE Scans --------------------------------
(***************************************************************************)
(* SCAN over several workers: HandleScan of admin_commands.cpp and the     *)
(* ScanStateManager.  Every call gathers the keys of all workers, which    *)
(* answer in any order while other commands go on changing them.  A call   *)
(* with cursor 0 then keeps a filtered copy of what it gathered under a    *)
(* new id and hands out its first batch; a call with an id ignores what it *)
(* gathered, its pattern included, and hands out the next batch of the     *)
(* copy.                                                                   *)
(***************************************************************************)
EXTENDS Naturals, Sequences, FiniteSets, DashMap

CONSTANTS ScanClients,
          ScanKeys,         \* the keys there may be
          ScanWorkers,      \* how many workers
          ScanPlaces,       \* pairs of a worker and a key it may have: a key may
                            \* stand on several (RENAME, COPY and the RDB file
                            \* put it where its slot does not)
          Patterns,         \* each pattern as the set of keys it matches
          MaxCount,         \* the largest COUNT
          MaxScans,         \* bound: scans started
          MaxChanges        \* bound: keys created or deleted

ASSUME ScanAssumption ==
    /\ ScanWorkers \in Nat \ {0}
    /\ IsFiniteSet(ScanPlaces)
    /\ ScanPlaces \subseteq (1..ScanWorkers) \X ScanKeys
    /\ Patterns \subseteq SUBSET ScanKeys
    /\ MaxCount \in Nat

VARIABLES present,          \* the keys there are, each with its worker
          changes,          \* how often a key came or went
          scan_states,      \* id -> [all_keys, current_position]
          next_scan_id,
          scanner           \* scanner[c]: the scan of client c, see Idle

scanVars == <<present, changes, scan_states, next_scan_id, scanner>>

AskedWorkers == 1..ScanWorkers

\* The places of the keys a pattern matches.
MatchedPlaces(pattern) == {e \in ScanPlaces : e[2] \in pattern}

NoAnswers == [w \in AskedWorkers |-> {}]

\* calling: a call is under way; asked: the workers that have still to answer
\* it; gathered: what the others have.  The rest is the client's: the cursor,
\* what the pattern matches, the batches it has had (it sees their keys, not
\* their workers), and what has been there since it began.
Idle == [calling |-> FALSE, asked |-> {}, gathered |-> NoAnswers, cursor |-> 0, pattern |-> {},
         got |-> <<>>, kept |-> {}, done |-> FALSE]

ScanInit ==
    /\ present \in SUBSET ScanPlaces
    /\ changes = 0
    /\ scan_states = EmptyMap
    /\ next_scan_id = 0
    /\ scanner = [c \in ScanClients |-> Idle]

-----------------------------------------------------------------------------
(* ScanStateManager; each operation holds the mutex throughout             *)

\* Mutant: every scan is kept under the same id.
StartScanOver(keys) ==
    [id |-> 1, states |-> MapInsert(scan_states, 1, [all_keys |-> keys, current_position |-> 0])]

StartScan(keys) ==
    [id |-> next_scan_id + 1,
     states |-> MapInsert(scan_states, next_scan_id + 1, [all_keys |-> keys, current_position |-> 0])]

\* An id that is not known, and an exhausted scan, end with an empty batch; the
\* state goes with the batch that completes the scan.
GetNextBatch(states, id, count) ==
    IF ~MapContains(states, id) THEN [cursor |-> 0, batch |-> <<>>, states |-> states]
    ELSE LET s == states[id]
             end == IF s.current_position + count < Len(s.all_keys) THEN s.current_position + count
                    ELSE Len(s.all_keys)
         IN [cursor |-> IF end < Len(s.all_keys) THEN id ELSE 0,
             batch |-> SubSeq(s.all_keys, s.current_position + 1, end),
             states |-> IF end < Len(s.all_keys)
                        THEN [states EXCEPT ![id].current_position = end]
                        ELSE MapRemove(states, id)]

-----------------------------------------------------------------------------
(* HandleScan                                                              *)

\* A client begins a scan, also when it has not finished the one before, ...
FirstCall(c, pattern) ==
    /\ ~scanner[c].calling
    /\ next_scan_id + Cardinality({d \in ScanClients : scanner[d].calling /\ scanner[d].cursor = 0}) < MaxScans
    /\ scanner' = [scanner EXCEPT ![c] = [Idle EXCEPT !.calling = TRUE, !.asked = AskedWorkers,
                                                     !.pattern = MatchedPlaces(pattern),
                                                     !.kept = present \cap MatchedPlaces(pattern)]]
    /\ UNCHANGED <<present, changes, scan_states, next_scan_id>>

\* ... or goes on with it.
NextCall(c) ==
    /\ ~scanner[c].calling
    /\ scanner[c].cursor # 0
    /\ scanner' = [scanner EXCEPT ![c].calling = TRUE, ![c].asked = AskedWorkers]
    /\ UNCHANGED <<present, changes, scan_states, next_scan_id>>

\* GetAllKeys on worker w.
GatherKeys(c, w) ==
    /\ w \in scanner[c].asked
    /\ scanner' = [scanner EXCEPT ![c].asked = @ \ {w}, ![c].gathered[w] = {e \in present : e[1] = w}]
    /\ UNCHANGED <<present, changes, scan_states, next_scan_id>>

\* The orders the keys S can stand in: the keys of one worker in the order of
\* its hash map, the workers one after the other.
KeyOrders(S) ==
    {keys \in [1..Cardinality(S) -> S] :
        \A i, j \in 1..Cardinality(S) : i < j => keys[i] # keys[j] /\ keys[i][1] <= keys[j][1]}

\* What a client has once a call is answered with a cursor and a batch.
Answered(s, cursor, batch) ==
    [s EXCEPT !.calling = FALSE, !.gathered = NoAnswers, !.cursor = cursor, !.got = @ \o batch,
              !.done = cursor = 0]

\* The reply to a first call: a new scan, and its id whatever the first batch
\* has left.  COUNT below 1 stands for 10.
ReplyToFirst(c, count) ==
    /\ scanner[c].calling
    /\ scanner[c].asked = {}
    /\ scanner[c].cursor = 0
    /\ \E keys \in KeyOrders((UNION {scanner[c].gathered[w] : w \in AskedWorkers}) \cap scanner[c].pattern) :
          LET new == StartScan(keys)
              r == GetNextBatch(new.states, new.id, count)
          IN /\ scan_states' = r.states
             /\ next_scan_id' = new.id
             /\ scanner' = [scanner EXCEPT ![c] = Answered(@, new.id, r.batch)]
    /\ UNCHANGED <<present, changes>>

\* The reply to a later one.
ReplyToNext(c, count) ==
    LET r == GetNextBatch(scan_states, scanner[c].cursor, count)
    IN /\ scanner[c].calling
       /\ scanner[c].asked = {}
       /\ scanner[c].cursor # 0
       /\ scan_states' = r.states
       /\ scanner' = [scanner EXCEPT ![c] = Answered(@, r.cursor, r.batch)]
       /\ UNCHANGED <<present, changes, next_scan_id>>

\* Other commands.  A key that goes, or comes, is not there throughout.
ChangeKey(e) ==
    /\ changes < MaxChanges
    /\ changes' = changes + 1
    /\ present' = IF e \in present THEN present \ {e} ELSE present \cup {e}
    /\ scanner' = [c \in ScanClients |-> [scanner[c] EXCEPT !.kept = @ \ {e}]]
    /\ UNCHANGED <<scan_states, next_scan_id>>

ScanStep(c) ==
    \/ \E pattern \in Patterns : FirstCall(c, pattern)
    \/ NextCall(c)
    \/ \E w \in AskedWorkers : GatherKeys(c, w)
    \/ \E count \in 1..MaxCount : ReplyToFirst(c, count) \/ ReplyToNext(c, count)

ScanNext == (\E c \in ScanClients : ScanStep(c)) \/ (\E e \in ScanPlaces : ChangeKey(e))

ScanSpec == ScanInit /\ [][ScanNext]_scanVars

-----------------------------------------------------------------------------
(* Properties                                                              *)

Occurrences(s, e) == Cardinality({i \in DOMAIN s : s[i] = e})

\* Whatever the other clients scan and change, a scan returns what a worker has
\* under a key at most once and only for keys of its pattern, and once its
\* cursor is back at 0 it has returned each that was there from its first call
\* to its last.  HandleScan puts the workers' keys one behind the other, so a
\* key comes as often as there are workers that have it: more than once only
\* when it stands on more than one.
ScansAreComplete ==
    \A c \in ScanClients :
        LET s == scanner[c]
        IN /\ \A e \in ScanPlaces : Occurrences(s.got, e) <= (IF e \in s.pattern THEN 1 ELSE 0)
           /\ s.done => \A e \in s.kept : Occurrences(s.got, e) = 1

=============================================================================
