------------------------------- MODULE PubSub -------------------------------
(***************************************************************************)
(* Publish/subscribe: the handlers of pubsub_commands.cpp and              *)
(* PubSubManager of worker.hpp.  Every worker has a manager of its own with *)
(* the subscriptions of its connections; a PUBLISH serves those of its     *)
(* worker and sends the message to the other workers.  The commands of a   *)
(* worker and the messages it receives are executed one at a time, by its  *)
(* executor.                                                               *)
(*                                                                         *)
(* What a connection is sent is appended to its stream at once; the way    *)
(* through resp_queue_ is WorkerRuntime's.  The subscriptions of a closed  *)
(* connection stay, and what is sent to it is dropped.                     *)
(***************************************************************************)
EXTENDS Integers, Sequences, FiniteSets, DashMap
LOCAL INSTANCE SequencesExt
LOCAL INSTANCE FiniteSetsExt

CONSTANTS PubWorkers,       \* how many workers
          PubConns, PubHome, \* connections, and the worker of each
          Channels,         \* names of channels, sequences of characters
          ChannelLists, PatternLists, \* arguments of (UN)SUBSCRIBE, P(UN)SUBSCRIBE
          MaxPubSteps       \* bound: commands

\* The replies to PSUBSCRIBE read like those to SUBSCRIBE, so a client with a
\* channel and a pattern of one name could not tell them apart.
ASSUME PubSubAssumption ==
    /\ PubHome \in [PubConns -> 1..PubWorkers]
    /\ \A chs \in ChannelLists, ps \in PatternLists : \A i \in DOMAIN chs : ~Contains(ps, chs[i])

VARIABLES managers,         \* managers[w]: the PubSubManager of worker w
          inbox,            \* inbox[w][v]: pubsub_msg_queue_ of w, lane of worker v
          stream,           \* stream[c]: what connection c has been sent
          connected,        \* the connections that are open
          pub_steps,
          owed              \* deliveries the subscriptions at a PUBLISH call for

pubVars == <<managers, inbox, stream, connected, pub_steps, owed>>

EmptyManager == [channel_subscribers |-> EmptyMap, pattern_subscribers |-> EmptyMap,
                 conn_channels |-> EmptyMap, conn_patterns |-> EmptyMap]

PubSubInit ==
    /\ managers = [w \in 1..PubWorkers |-> EmptyManager]
    /\ inbox = [w \in 1..PubWorkers |-> [v \in 1..PubWorkers |-> <<>>]]
    /\ stream = [c \in PubConns |-> <<>>]
    /\ connected = PubConns
    /\ pub_steps = 0
    /\ owed = {}

(***************************************************************************)
(* The manager's methods.  subs and mine name the two maps of channels or  *)
(* of patterns.  A result is the manager and the replies it has sent.      *)

Entry(map, x) == IF MapContains(map, x) THEN map[x] ELSE {}

\* Counting goes through operator[], which leaves empty entries behind.
Counted(m, c) ==
    [m EXCEPT !.conn_channels = MapInsert(@, c, Entry(@, c)),
              !.conn_patterns = MapInsert(@, c, Entry(@, c))]

\* SendSubscribeReply and SendUnsubscribeReply, for channels and patterns alike.
Replied(m, c, sent, kind, name) ==
    [m |-> m, sent |-> Append(sent, [kind |-> kind, name |-> name,
                                     count |-> Cardinality(m.conn_channels[c]) + Cardinality(m.conn_patterns[c])])]

SubscribeOne(r, c, name, subs, mine) ==
    Replied(Counted([r.m EXCEPT ![subs] = MapInsert(@, name, Entry(@, name) \cup {c}),
                                ![mine] = MapInsert(@, c, Entry(@, c) \cup {name})], c),
            c, r.sent, "subscribe", name)

Subscribe(m, c, names, subs, mine) ==
    FoldLeft(LAMBDA r, name : SubscribeOne(r, c, name, subs, mine), [m |-> m, sent |-> <<>>], names)

WithoutSubscriber(map, name, c) ==
    IF Entry(map, name) \subseteq {c} THEN MapRemove(map, name)
    ELSE MapInsert(map, name, map[name] \ {c})

\* Mutant: the connection forgets the channel, the channel not the connection.
UnsubscribeHalf(r, c, name, subs, mine) ==
    Replied(Counted([r.m EXCEPT ![mine] = MapInsert(@, c, Entry(@, c) \ {name})], c),
            c, r.sent, "unsubscribe", name)

UnsubscribeOne(r, c, name, subs, mine) ==
    Replied(Counted([r.m EXCEPT ![subs] = WithoutSubscriber(@, name, c),
                                ![mine] = MapInsert(@, c, Entry(@, c) \ {name})], c),
            c, r.sent, "unsubscribe", name)

DropEmpty(r, c, mine) ==
    IF r.m[mine][c] = {} THEN [r EXCEPT !.m[mine] = MapRemove(@, c)] ELSE r

\* todo: the names given, or all the connection has, in the order of its hash set.
Unsubscribe(m, c, todo, subs, mine) ==
    IF ~MapContains(m[mine], c) THEN [m |-> m, sent |-> <<>>]
    ELSE DropEmpty(FoldLeft(LAMBDA r, name : UnsubscribeOne(r, c, name, subs, mine),
                            [m |-> m, sent |-> <<>>], todo),
                   c, mine)

PSubscribe(m, c, names) == Subscribe(m, c, names, "pattern_subscribers", "conn_patterns")

PUnsubscribe(m, c, todo) == Unsubscribe(m, c, todo, "pattern_subscribers", "conn_patterns")

\* The characters of s before its first element of chars, or all of s.
UpTo(s, chars) ==
    LET at == SelectInSeq(s, LAMBDA x : x \in chars)
    IN IF at = 0 THEN s ELSE SubSeq(s, 1, at - 1)

After(s, n) == SubSeq(s, n + 1, Len(s))

\* One "*" splits the pattern; a "?" beside it stands for itself.  With more
\* than one "*", or with "?" alone, what comes before the first is looked for.
PatternMatches(pattern, channel) ==
    LET prefix == UpTo(pattern, {"*"})
        suffix == After(pattern, Len(prefix) + 1)
        stars == Cardinality({i \in DOMAIN pattern : pattern[i] = "*"})
        start == UpTo(pattern, {"*", "?"})
    IN CASE pattern = <<"*">> -> TRUE
         [] pattern # <<"*">> /\ start = pattern -> channel = pattern
         [] pattern # <<"*">> /\ stars = 1 ->
              /\ Len(channel) >= Len(prefix) + Len(suffix)
              /\ IsPrefix(prefix, channel) /\ IsSuffix(suffix, channel)
         [] OTHER -> \E n \in 0..Len(channel) : IsPrefix(start, After(channel, n))

Matching(m, channel) == {p \in DOMAIN m.pattern_subscribers : PatternMatches(p, channel)}

\* What connection c is sent for a message; order: the patterns in the order of
\* the hash map.
PushesTo(m, c, msg, order) ==
    (IF c \in Entry(m.channel_subscribers, msg.channel)
     THEN <<[kind |-> "message", name |-> msg.channel, msg |-> msg]>> ELSE <<>>)
    \o [i \in DOMAIN SelectSeq(order, LAMBDA p : c \in m.pattern_subscribers[p]) |->
           [kind |-> "pmessage", msg |-> msg,
            name |-> SelectSeq(order, LAMBDA p : c \in m.pattern_subscribers[p])[i]]]

SubscriberCount(m, channel) ==
    Cardinality(Entry(m.channel_subscribers, channel))
      + MapThenSumSet(LAMBDA p : Cardinality(m.pattern_subscribers[p]), Matching(m, channel))

GetActiveChannels(m, pattern) ==
    {ch \in DOMAIN m.channel_subscribers : pattern = <<>> \/ PatternMatches(pattern, ch)}

GetChannelSubscriberCount(m, channel) == Cardinality(Entry(m.channel_subscribers, channel))

GetPatternSubscriptionCount(m) == Cardinality(DOMAIN m.pattern_subscribers)

\* PUBSUB CHANNELS, NUMSUB and NUMPAT.
HandlePubSub(m, pattern) ==
    [channels |-> GetActiveChannels(m, pattern),
     numsub |-> [ch \in Channels |-> GetChannelSubscriberCount(m, ch)],
     numpat |-> GetPatternSubscriptionCount(m)]

(***************************************************************************)
(* The handlers                                                            *)

\* An empty CommandResult, which the worker sends behind the manager's replies.
NullReply == [kind |-> "null"]

Changed(c, r) ==
    /\ pub_steps < MaxPubSteps
    /\ pub_steps' = pub_steps + 1
    /\ managers' = [managers EXCEPT ![PubHome[c]] = r.m]
    /\ stream' = [stream EXCEPT ![c] = IF c \in connected THEN @ \o Append(r.sent, NullReply) ELSE @]
    /\ UNCHANGED <<inbox, connected>>

HandleSubscribe(c, names) ==
    /\ Changed(c, Subscribe(managers[PubHome[c]], c, names, "channel_subscribers", "conn_channels"))
    /\ UNCHANGED owed

HandlePSubscribe(c, names) ==
    /\ Changed(c, PSubscribe(managers[PubHome[c]], c, names))
    /\ UNCHANGED owed

NoLongerOwed(c, kind, names) == {o \in owed : ~(o[1] = c /\ o[2] = kind /\ Contains(names, o[3]))}

ToUnsubscribe(names, all) == IF names = <<>> THEN SetToSeqs(all) ELSE {names}

HandleUnsubscribe(c, names) ==
    \E todo \in ToUnsubscribe(names, Entry(managers[PubHome[c]].conn_channels, c)) :
        /\ Changed(c, Unsubscribe(managers[PubHome[c]], c, todo, "channel_subscribers", "conn_channels"))
        /\ owed' = NoLongerOwed(c, "message", todo)

HandlePUnsubscribe(c, names) ==
    \E todo \in ToUnsubscribe(names, Entry(managers[PubHome[c]].conn_patterns, c)) :
        /\ Changed(c, PUnsubscribe(managers[PubHome[c]], c, todo))
        /\ owed' = NoLongerOwed(c, "pmessage", todo)

\* The deliveries the connections expect of a message, by their own subscriptions.
Expected(msg) ==
    UNION {LET m == managers[PubHome[c]] IN
           {<<c, "message", ch, msg>> : ch \in Entry(m.conn_channels, c) \cap {msg.channel}}
           \cup {<<c, "pmessage", p, msg>> : p \in {q \in Entry(m.conn_patterns, c) : PatternMatches(q, msg.channel)}} :
           c \in PubConns}

Pushed(w, c, msg, order) ==
    IF PubHome[c] = w THEN PushesTo(managers[w], c, msg, order) ELSE <<>>

Deliveries(w, msg, order) ==
    UNION {{<<c, Pushed(w, c, msg, order)[i].kind, Pushed(w, c, msg, order)[i].name, msg>> :
            i \in DOMAIN Pushed(w, c, msg, order)} : c \in PubConns}

Publish(c, w, msg) ==
    \E order \in SetToSeqs(Matching(managers[w], msg.channel)) :
        /\ stream' = [x \in PubConns |->
             IF x \notin connected THEN stream[x]
             ELSE stream[x] \o Pushed(w, x, msg, order)
                  \o (IF x = c THEN <<[kind |-> "integer", count |-> SubscriberCount(managers[w], msg.channel)]>>
                      ELSE <<>>)]
        /\ owed' = (owed \cup Expected(msg)) \ Deliveries(w, msg, order)
        /\ inbox' = [v \in 1..PubWorkers |-> IF v = w THEN inbox[v]
                                             ELSE [inbox[v] EXCEPT ![w] = Append(@, msg)]]

\* A message is told from the others by the step it was published in.
HandlePublish(c, channel) ==
    /\ pub_steps < MaxPubSteps
    /\ pub_steps' = pub_steps + 1
    /\ Publish(c, PubHome[c], [channel |-> channel, text |-> pub_steps])
    /\ UNCHANGED <<managers, connected>>

ProcessPubSubMessage(w, v) ==
    /\ inbox[w][v] # <<>>
    /\ inbox' = [inbox EXCEPT ![w][v] = Tail(@)]
    /\ \E order \in SetToSeqs(Matching(managers[w], Head(inbox[w][v]).channel)) :
          /\ stream' = [x \in PubConns |-> IF x \in connected THEN stream[x] \o Pushed(w, x, Head(inbox[w][v]), order)
                                           ELSE stream[x]]
          /\ owed' = owed \ Deliveries(w, Head(inbox[w][v]), order)
    /\ UNCHANGED <<managers, connected, pub_steps>>

CloseSubscriber(c) ==
    /\ connected' = connected \ {c}
    /\ UNCHANGED <<managers, inbox, stream, pub_steps, owed>>

PubSubNext ==
    \/ \E c \in PubConns :
         \/ \E names \in ChannelLists \ {<<>>} : HandleSubscribe(c, names)
         \/ \E names \in ChannelLists : HandleUnsubscribe(c, names)
         \/ \E names \in PatternLists \ {<<>>} : HandlePSubscribe(c, names)
         \/ \E names \in PatternLists : HandlePUnsubscribe(c, names)
         \/ \E channel \in Channels : HandlePublish(c, channel)
         \/ CloseSubscriber(c)
    \/ \E w, v \in 1..PubWorkers : ProcessPubSubMessage(w, v)

PubSubSpec == PubSubInit /\ [][PubSubNext]_pubVars

(***************************************************************************)
(* Properties                                                              *)

\* What a client knows from its stream: the names it is subscribed to, and
\* whether all it has read so far makes sense.
ReadReply(k, names, e) == [names |-> names, sound |-> k.sound /\ e.count = Cardinality(names)]

ReadOn(k, e) ==
    CASE e.kind = "subscribe" -> ReadReply(k, k.names \cup {e.name}, e)
      [] e.kind = "unsubscribe" -> ReadReply(k, k.names \ {e.name}, e)
      [] e.kind = "message" -> [k EXCEPT !.sound = @ /\ e.name = e.msg.channel /\ e.name \in k.names]
      [] e.kind = "pmessage" ->
           [k EXCEPT !.sound = @ /\ e.name \in k.names /\ PatternMatches(e.name, e.msg.channel)]
      [] OTHER -> k

Reading(s) == FoldLeft(ReadOn, [names |-> {}, sound |-> TRUE], s)

\* The stream of every client tells a true story: the counts in its replies add
\* up, every message it is pushed belongs to a subscription its replies say it
\* has, no message comes twice for one subscription, and in the end its replies
\* leave it with the subscriptions its worker's manager has for it, in both of
\* the manager's maps and in what PUBSUB reports.  A message one of its
\* subscriptions calls for and it has not been sent is on its way to its worker.
StreamsMatchSubscriptions ==
    /\ \A c \in PubConns :
         LET m == managers[PubHome[c]]
             k == Reading(stream[c])
         IN /\ Entry(m.conn_channels, c) = {ch \in DOMAIN m.channel_subscribers : c \in m.channel_subscribers[ch]}
            /\ Entry(m.conn_patterns, c) = {p \in DOMAIN m.pattern_subscribers : c \in m.pattern_subscribers[p]}
            /\ k.sound
            /\ c \in connected => k.names = Entry(m.conn_channels, c) \cup Entry(m.conn_patterns, c)
            /\ \A i, j \in DOMAIN stream[c] :
                 stream[c][i].kind \in {"message", "pmessage"} /\ stream[c][i] = stream[c][j] => i = j
    /\ \A w \in 1..PubWorkers : \A ch \in HandlePubSub(managers[w], <<>>).channels :
         HandlePubSub(managers[w], <<>>).numsub[ch] > 0
    /\ \A o \in owed : \E v \in 1..PubWorkers : Contains(inbox[PubHome[o[1]]][v], o[4])

=============================================================================
