----------------------------- MODULE MCServices -----------------------------
(***************************************************************************)
(* Instance of Services: two workers and two keys for the gathering        *)
(* commands; one client and a forwarding worker for the blocking ones;     *)
(* three keys, one of which may be on both workers, and two clients for    *)
(* SCAN; two strings and one collection for the tiered store; a string and *)
(* a collection on two workers for the RDB file; two requests in one       *)
(* pipeline for the receive buffer; a subscriber on each of two workers,   *)
(* two channels and two patterns for publish/subscribe.                    *)
(***************************************************************************)
EXTENDS Services

CONSTANTS k1, k2, k3, conn1, conn2

TwoKeys == <<k1, k2>>

ShardOf == [k \in {k1, k2} |-> IF k = k1 THEN 0 ELSE 1]

OneByte == <<97>>

OneMember == {OneByte}

HashOfMember(m) == Len(m)

\* k1 may stand on both workers.
PlacesOfKeys == {<<1, k1>>, <<1, k2>>, <<2, k1>>, <<2, k3>>}

OnePattern == {{k1, k3}}

\* Two bytes stand for a string of 16384 bytes or more.
EmptyShortLong == {<<>>, <<97>>, <<97, 97>>}
OneLong == {<<97, 97>>}

\* Every two of RocksDB's mode, policy and a threshold below and above CheckAt.
PairsOfOptions ==
    {<<"cold", "allkeys-lfu", 1>>, <<"cold", "volatile-ttl", 4>>,
     <<"all-in", "allkeys-lfu", 4>>, <<"all-in", "volatile-ttl", 1>>}

ShortAndLong == {<<>>, <<97, 97, 97, 97, 97>>}

\* std::hash puts the string on another worker than its slot does.
RouteOfKey == [k \in {k1, k3} |-> IF k = k1 THEN 2 ELSE 1]

HashOfKey == [k \in {k1, k3} |-> 1]

Bulk(s) == [type |-> "bulk", value |-> s]

Other(type, s) == [type |-> type, value |-> s]

\* A command with every kind of argument a command may have.
Mixed == Other("array", <<Bulk(<<"G">>), Other("integer", <<"1", "2">>), Other("nullbulk", <<>>),
                          Other("simple", <<"a">>)>>)

\* An argument whose CR is the last byte of a block, which FindCRLF passes over.
LongLine == Other("array", <<Bulk(<<"G">>), Other("simple", <<"a", "a", "a">>)>>)

\* A payload with a CRLF in it, a long one, and values that are no commands.
Requests ==
    {Mixed, LongLine, Other("array", <<Bulk(<<"G">>), Bulk(<<"CR", "LF">>)>>),
     Other("array", <<Bulk(<<"x", "x", "x", "x", "x", "x", "x", "x", "x", "x">>)>>),
     Other("array", <<>>), Other("simple", <<"a">>), Other("nullarray", <<>>),
     Other("array", <<Other("integer", <<"1">>)>>),
     Other("array", <<Bulk(<<"G">>), Other("array", <<Bulk(<<>>), Other("boolean", <<"t">>)>>),
                      Other("null", <<>>), Other("double", <<"3">>)>>)}

PairsOfRequests == ({Mixed} \X Requests) \cup (Requests \X {Mixed})

NewsChannel == <<"n", "a">>

OtherChannel == <<"b">>

TwoChannels == {NewsChannel, OtherChannel}

ListsOfChannels == {<<>>, <<NewsChannel>>, <<NewsChannel, OtherChannel>>}

ListsOfPatterns == {<<>>, <<<<"n", "*">>, <<"?", "a">>>>}

HomeOfConn == [c \in {conn1, conn2} |-> IF c = conn1 THEN 1 ELSE 2]

=============================================================================
